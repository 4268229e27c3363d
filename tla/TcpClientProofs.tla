-------------------------- MODULE TcpClientProofs --------------------------
(***************************************************************************)
(* Proofs about TcpClient: which assertion of Connector and TcpClient can  *)
(* fail while the client exists, that it is never called back once it is   *)
(* gone, and that every socket is accounted for, for any delays and any    *)
(* number of connections and calls of stop().                              *)
(***************************************************************************)
EXTENDS TcpClient, FiniteSetTheorems, FunctionTheorems, TLAPS

\* The functors of fs that do op.
Count(fs, op) == Cardinality({i \in 1 .. Len(fs) : fs[i].op = op})
Queued(op) == Count(pending, op) + Count(running, op)

Attempts == IF state = "kConnecting" THEN 1 ELSE 0
Timed == retryTimers.set + retryTimers.due

----------------------------------------------------------------------------
(* The inductive invariant.                                                *)

\* The client is after the server in one way at a time.
Single ==
    /\ Timed + Attempts + Cardinality(up) <= 1
    /\ Timed > 0 => state = "kDisconnected"

Sockets == fds = Attempts + Cardinality(up) + lost + Queued("connectDestroyed")

\* Connection ids are not used again.
Ids == up \subseteq 1 .. nextConnId - 1 /\ polled \subseteq 0 .. nextConnId - 1

\* The channel is in the poller during an attempt, and resetChannel is queued
\* once, from the attempt's end until the channel is gone.
Channels ==
    /\ state = "kConnecting" <=> channel = "on"
    /\ Queued("resetChannel") = IF channel = "off" THEN 1 ELSE 0

\* When a connection closes, resetChannel has run: an event of the connection
\* comes in a later iteration of the loop.
Later ==
    /\ phase = "dispatch" => running = <<>>
    /\ phase = "dispatch" /\ polled \cap up # {} => channel # "off"
    /\ phase = "functors" /\ up # {} => Count(pending, "resetChannel") = 0

\* Before connect() the Connector is as it was made.
Fresh ==
    ~called => /\ state = "kDisconnected" /\ channel = "none"
               /\ Timed = 0 /\ up = {}

\* The client's connection is the one that is up, until the client goes; then no
\* connection calls back, and the Connector has nothing to make one with.
Owner ==
    /\ alive => /\ guardTimer = "none" /\ Queued("forceCloseInLoop") = 0
                /\ connection # 0 => connection \in up
                /\ \A c \in up : c = connection /\ c \in own
    /\ ~alive => /\ own \cap up = {}
                 /\ ~wanted \/ Timed + Attempts = 0

\* No assertion has failed while the client exists, and it has not been used since.
Faultless == (alive => fault = "none") /\ fault # "client"

IInv ==
    /\ TypeOK /\ Faultless /\ Single /\ Sockets /\ Ids /\ Channels /\ Later /\ Fresh
    /\ Owner

\* A retry timer has found the channel of the attempt before it; the loop ends.
Overtaken == TypeOK /\ Single /\ Sockets /\ fault = "assert"
----------------------------------------------------------------------------
(* Counting functors.                                                      *)

\* Only finitely many functors are queued, and none in an empty queue.
LEMMA CountType ==
    ASSUME NEW fs \in Seq(Functor), NEW op
    PROVE  Count(fs, op) \in Nat
<1> DEFINE S == {i \in 1 .. Len(fs) : fs[i].op = op}
<1>1. IsFiniteSet(1 .. Len(fs))
    BY FS_Interval
<1>2. S \subseteq 1 .. Len(fs)
    OBVIOUS
<1>3. IsFiniteSet(S)
    BY <1>1, <1>2, FS_Subset
<1> QED
    BY <1>3, FS_CardinalityType DEF Count

LEMMA CountEmpty == ASSUME NEW op PROVE Count(<<>>, op) = 0
<1>1. {i \in 1 .. Len(<<>>) : (<<>>)[i].op = op} = {}
    OBVIOUS
<1> QED
    BY <1>1, FS_EmptySet DEF Count

\* queueInLoop adds one functor.
LEMMA CountAppend ==
    ASSUME NEW fs \in Seq(Functor), NEW f \in Functor, NEW op
    PROVE  Count(Append(fs, f), op) = Count(fs, op) + IF f.op = op THEN 1 ELSE 0
<1> DEFINE S == {i \in 1 .. Len(fs) : fs[i].op = op}
           gs == Append(fs, f)
           T == {i \in 1 .. Len(gs) : gs[i].op = op}
<1>1. IsFiniteSet(S)
  <2>1. IsFiniteSet(1 .. Len(fs))
      BY FS_Interval
  <2> QED
      BY <2>1, FS_Subset
<1>2. Len(gs) = Len(fs) + 1 /\ gs[Len(fs) + 1] = f /\ \A i \in 1 .. Len(fs) : gs[i] = fs[i]
    OBVIOUS
<1>3. CASE f.op = op
  <2>1. T = S \cup {Len(fs) + 1}
      BY <1>2, <1>3
  <2>2. Len(fs) + 1 \notin S
      OBVIOUS
  <2>3. Cardinality(T) = Cardinality(S) + 1
      BY <1>1, <2>1, <2>2, FS_AddElement, Zenon
  <2> QED
      BY <1>3, <2>3, Zenon DEF Count
<1>4. CASE f.op # op
  <2>1. T = S
      BY <1>2, <1>4
  <2>2. Cardinality(S) \in Nat
      BY <1>1, FS_CardinalityType
  <2>3. Count(gs, op) = Cardinality(T) /\ Count(fs, op) = Cardinality(S)
      BY DEF Count
  <2> HIDE DEF S, T
  <2> QED
      BY <1>4, <2>1, <2>2, <2>3
<1> QED
    BY <1>3, <1>4

\* doPendingFunctors takes one functor from the front.
LEMMA CountTail ==
    ASSUME NEW fs \in Seq(Functor), fs # <<>>, NEW op
    PROVE  Count(fs, op) = Count(Tail(fs), op) + IF Head(fs).op = op THEN 1 ELSE 0
<1> DEFINE gs == Tail(fs)
           T == {i \in 1 .. Len(gs) : gs[i].op = op}
           S == {i \in 1 .. Len(fs) : fs[i].op = op}
           R == S \ {1}
           h == [i \in R |-> i - 1]
<1>1. /\ Len(fs) \in Nat \ {0} /\ Len(gs) = Len(fs) - 1
      /\ \A i \in 1 .. Len(gs) : gs[i] = fs[i + 1]
      /\ Head(fs) = fs[1]
    OBVIOUS
<1>2. IsFiniteSet(S) /\ IsFiniteSet(R)
  <2>1. IsFiniteSet(1 .. Len(fs))
      BY FS_Interval
  <2> QED
      BY <2>1, FS_Subset
<1> HIDE DEF gs
<1>3. h \in Bijection(R, T)
  <2>1. h \in [R -> T]
      BY <1>1
  <2>2. \A i, j \in R : h[i] = h[j] => i = j
      BY <1>1
  <2>3. \A j \in T : \E i \in R : h[i] = j
    <3> TAKE j \in T
    <3>1. j + 1 \in R
        BY <1>1
    <3>2. h[j + 1] = j
        BY <1>1, <3>1
    <3> QED
        BY <3>1, <3>2
  <2> QED
      BY <2>1, <2>2, <2>3, Fun_IsBij
<1>4. Cardinality(R) = Cardinality(T)
    BY <1>2, <1>3, FS_Bijection DEF ExistsBijection
<1>5. Cardinality(R) = IF 1 \in S THEN Cardinality(S) - 1 ELSE Cardinality(S)
    BY <1>2, FS_RemoveElement, Zenon
<1>6. Cardinality(S) \in Nat
    BY <1>2, FS_CardinalityType
<1>7. 1 \in S <=> Head(fs).op = op
    BY <1>1
<1>8. Count(Tail(fs), op) = Cardinality(T) /\ Count(fs, op) = Cardinality(S)
    BY DEF Count, gs
<1> HIDE DEF R, S, T
<1> QED
    BY <1>4, <1>5, <1>6, <1>7, <1>8
----------------------------------------------------------------------------
(* What the actions have in common.                                        *)

LEMMA QueueTypes ==
    ASSUME TypeOK
    PROVE  \A op : /\ Count(pending, op) \in Nat /\ Count(running, op) \in Nat
                   /\ Queued(op) \in Nat
<1>1. \A op : Count(pending, op) \in Nat /\ Count(running, op) \in Nat
    BY CountType DEF TypeOK
<1> QED
    BY <1>1 DEF Queued

\* A functor is queued.
LEMMA Queues ==
    ASSUME TypeOK, NEW f \in Functor, pending' = Append(pending, f)
    PROVE  /\ pending' \in Seq(Functor)
           /\ \A op : Count(pending', op) = Count(pending, op) + IF f.op = op THEN 1 ELSE 0
<1>1. pending \in Seq(Functor)
    BY DEF TypeOK
<1>2. \A op : Count(Append(pending, f), op) = Count(pending, op) + IF f.op = op THEN 1 ELSE 0
    BY <1>1, CountAppend
<1> QED
    BY <1>1, <1>2

\* A functor is taken to be run.
LEMMA Takes ==
    ASSUME TypeOK, Later, NEW op, Runs(op)
    PROVE  /\ running' \in Seq(Functor) /\ Head(running) \in Functor
           /\ phase = "functors" /\ phase' = phase /\ polled' = polled
           /\ \A o : Count(running, o) = Count(running', o) + IF op = o THEN 1 ELSE 0
<1>1. running \in Seq(Functor) /\ running # <<>> /\ Head(running).op = op /\ running' = Tail(running)
    BY DEF TypeOK, Runs
<1>2. \A o : Count(running, o) = Count(Tail(running), o) + IF Head(running).op = o THEN 1 ELSE 0
    BY <1>1, CountTail
<1>3. phase = "functors" /\ phase' = phase /\ polled' = polled
    BY <1>1 DEF TypeOK, Later, Runs
<1> QED
    BY <1>1, <1>2, <1>3

\* The connections that are up are finitely many.
LEMMA UpFinite ==
    ASSUME TypeOK
    PROVE  IsFiniteSet(up) /\ Cardinality(up) \in Nat /\ (Cardinality(up) = 0 <=> up = {})
<1>1. IsFiniteSet(1 .. MaxConns)
    BY ClientAssumption, FS_Interval
<1>2. IsFiniteSet(up)
    BY <1>1, FS_Subset, Zenon DEF TypeOK
<1> QED
    BY <1>2, FS_CardinalityType, FS_EmptySet

\* A timer, an attempt or a connection excludes the other two.
LEMMA OneAtATime ==
    ASSUME TypeOK, Single
    PROVE  /\ Timed \in {0, 1}
           /\ state = "kConnecting" => up = {} /\ retryTimers = [set |-> 0, due |-> 0]
           /\ retryTimers.due > 0 => /\ up = {} /\ retryTimers = [set |-> 0, due |-> 1]
                                     /\ state = "kDisconnected"
           /\ retryTimers.set > 0 => /\ up = {} /\ retryTimers = [set |-> 1, due |-> 0]
                                     /\ state = "kDisconnected"
           /\ \A c \in up : /\ state # "kConnecting" /\ retryTimers = [set |-> 0, due |-> 0]
                            /\ Cardinality(up) = 1 /\ up \ {c} = {}
<1> USE UpFinite
<1>1. retryTimers \in [set : 0 .. 2, due : 0 .. 2]
    BY DEF TypeOK
<1>2. Timed + Attempts + Cardinality(up) <= 1 /\ Attempts \in {0, 1}
    BY DEF Single, Attempts
<1>3. Timed \in {0, 1} /\ (Timed = 0 => retryTimers = [set |-> 0, due |-> 0])
    BY <1>1, <1>2 DEF Timed
<1>4. state = "kConnecting" => up = {} /\ retryTimers = [set |-> 0, due |-> 0]
    BY <1>2, <1>3 DEF Attempts
<1>5. retryTimers.due > 0 => /\ up = {} /\ retryTimers = [set |-> 0, due |-> 1]
                             /\ state = "kDisconnected"
    BY <1>1, <1>2, <1>3 DEF Timed, Single
<1>6. retryTimers.set > 0 => /\ up = {} /\ retryTimers = [set |-> 1, due |-> 0]
                             /\ state = "kDisconnected"
    BY <1>1, <1>2, <1>3 DEF Timed, Single
<1>7. ASSUME NEW c \in up
      PROVE  /\ state # "kConnecting" /\ retryTimers = [set |-> 0, due |-> 0]
             /\ Cardinality(up) = 1 /\ up \ {c} = {}
  <2>1. Cardinality(up) = 1 /\ Timed = 0 /\ Attempts = 0
      BY <1>2, <1>3
  <2>2. IsFiniteSet(up \ {c}) /\ Cardinality(up \ {c}) = 0
      BY <2>1, FS_RemoveElement
  <2>3. up \ {c} = {}
      BY <2>2, FS_EmptySet
  <2> QED
      BY <1>3, <2>1, <2>3 DEF Attempts
<1> QED
    BY <1>3, <1>4, <1>5, <1>6, <1>7

\* startInLoop, called with no attempt and no timer: it starts an attempt or sets
\* the timer, or does neither; what it asserts fails only if a channel is left.
Started(want) ==
    /\ state' \in {"kConnecting", "kDisconnected"}
    /\ channel' = IF state' = "kConnecting" THEN "on" ELSE channel
    /\ delay' \in InitDelay .. MaxDelay
    /\ retryTimers' \in {[set |-> 0, due |-> 0], [set |-> 1, due |-> 0]}
    /\ state' = "kConnecting" => retryTimers' = [set |-> 0, due |-> 0]
    /\ fds' = fds + IF state' = "kConnecting" THEN 1 ELSE 0
    /\ gaveUp' \in BOOLEAN
    /\ want => state' = "kConnecting" \/ retryTimers' = [set |-> 1, due |-> 0] \/ gaveUp'
    /\ ~want => state' = "kDisconnected" /\ retryTimers' = [set |-> 0, due |-> 0]
    /\ fault' \in {"none", "assert"}
    /\ alive' /\ (channel = "none" \/ state' # "kConnecting") => fault' = "none"
    /\ channel = "off" /\ state' = "kConnecting" => fault' = "assert"

\* The delay stays within its bounds.
LEMMA DoubledType ==
    ASSUME NEW d \in InitDelay .. MaxDelay
    PROVE  Doubled(d) \in InitDelay .. MaxDelay
BY ClientAssumption DEF Doubled

LEMMA StartOutcome ==
    ASSUME NEW st, st = "kDisconnected", NEW want \in BOOLEAN,
           NEW d \in InitDelay .. MaxDelay,
           NEW t, t = [set |-> 0, due |-> 0],
           channel \in {"none", "off"}, fds \in Nat, gaveUp \in BOOLEAN,
           startInLoop(st, want, d, t)
    PROVE  Started(want)
<1>1. CASE ~want
  <2>1. /\ state' = st /\ retryTimers' = t /\ delay' = d
        /\ channel' = channel /\ fds' = fds /\ gaveUp' = gaveUp
        /\ Asserts(TRUE)
      BY <1>1, Zenon DEF startInLoop
  <2>2. fault' \in {"none", "assert"} /\ (alive' => fault' = "none")
      BY <2>1 DEF Asserts, ConnectorLives
  <2> QED
      BY <1>1, <2>1, <2>2 DEF Started
<1>2. CASE want
  <2>1. connect(d, t) /\ Asserts(state' # "kConnecting" \/ channel = "none")
      BY <1>2 DEF startInLoop
  <2>2. /\ fault' \in {"none", "assert"}
        /\ alive' /\ (channel = "none" \/ state' # "kConnecting") => fault' = "none"
        /\ channel = "off" /\ state' = "kConnecting" => fault' = "assert"
      BY <2>1 DEF Asserts, ConnectorLives
  <2>3. CASE Connecting(d, t)
      BY <1>2, <2>2, <2>3 DEF Connecting, Started
  <2>4. CASE retry(TRUE, d, t, fds + 1) /\ UNCHANGED <<channel, gaveUp>>
    <3>1. retryTimers' = [set |-> 1, due |-> 0]
        BY <2>4 DEF retry
    <3> QED
        BY <1>2, <2>2, <2>4, <3>1, DoubledType DEF retry, Started
  <2>5. CASE /\ gaveUp' = TRUE /\ state' = "kDisconnected" /\ delay' = d
             /\ retryTimers' = t /\ UNCHANGED <<channel, fds>>
      BY <1>2, <2>2, <2>5 DEF Started
  <2> QED
      BY <2>1, <2>3, <2>4, <2>5, Zenon DEF connect
<1> QED
    BY <1>1, <1>2
----------------------------------------------------------------------------
(* The invariant holds initially and is preserved by each action.          *)

LEMMA InitIInv == Init => IInv
<1> SUFFICES ASSUME Init PROVE IInv
    OBVIOUS
<1>1. Cardinality(up) = 0
    BY FS_EmptySet DEF Init
<1>2. \A op : Count(pending, op) = 0 /\ Count(running, op) = 0
    BY CountEmpty DEF Init
<1>3. TypeOK
  <2>1. pending \in Seq(Functor) /\ running \in Seq(Functor)
      BY DEF Init
  <2>2. retryTimers \in [set : 0 .. 2, due : 0 .. 2]
      BY DEF Init
  <2>3. 0 \in 0 .. MaxStops /\ 0 \in 0 .. MaxConns /\ 1 \in 1 .. MaxConns + 1
      BY ClientAssumption
  <2>4. InitDelay \in InitDelay .. MaxDelay
      BY ClientAssumption
  <2> QED
      BY <2>1, <2>2, <2>3, <2>4, Zenon DEF Init, TypeOK
<1>4. Timed = 0 /\ Attempts = 0
    BY DEF Init, Timed, Attempts
<1>5. Faultless /\ Single /\ Sockets
    BY <1>1, <1>2, <1>4 DEF Init, Faultless, Single, Sockets, Queued
<1>6. Ids /\ Channels /\ Later
    BY <1>2 DEF Init, Ids, Channels, Later, Queued
<1>7. Fresh /\ Owner
    BY <1>2, <1>4 DEF Init, Fresh, Owner, Queued
<1> QED
    BY <1>3, <1>5, <1>6, <1>7 DEF IInv

\* The attempt ends, in a failure or by stopInLoop: its socket is closed, its
\* channel removed, and the timer set if the client still wants a connection.
LEMMA AttemptEnds ==
    ASSUME IInv, state = "kConnecting", RemoveAndResetChannel,
           retry(wanted, delay, retryTimers, fds),
           UNCHANGED <<wanted, clientVars, connVars, phase, polled, guardTimer, callVars,
                       gaveUp, lost>>,
           running' \in Seq(Functor), phase = "dispatch" => running' = <<>>,
           Count(running', "resetChannel") = Count(running, "resetChannel"),
           Count(running', "connectDestroyed") = Count(running, "connectDestroyed"),
           Count(running', "forceCloseInLoop") = Count(running, "forceCloseInLoop"),
           fault' \in {"none", "connector"}, alive => fault' = "none"
    PROVE  IInv'
<1> USE DEF IInv
<1>1. up = {} /\ retryTimers = [set |-> 0, due |-> 0]
    BY OneAtATime
<1>2. Do("resetChannel", 0) \in Functor /\ Do("resetChannel", 0).op = "resetChannel"
    BY DEF Do, Functor
<1>3. pending' = Append(pending, Do("resetChannel", 0)) /\ channel' = "off"
    BY DEF RemoveAndResetChannel
<1>4. /\ pending' \in Seq(Functor)
      /\ \A op : Count(pending', op)
                 = Count(pending, op) + IF Do("resetChannel", 0).op = op THEN 1 ELSE 0
    BY <1>2, <1>3, Queues
<1>5. /\ Count(pending', "resetChannel") = Count(pending, "resetChannel") + 1
      /\ Count(pending', "connectDestroyed") = Count(pending, "connectDestroyed")
      /\ Count(pending', "forceCloseInLoop") = Count(pending, "forceCloseInLoop")
    BY <1>2, <1>4, QueueTypes
<1>6. retryTimers' = [set |-> IF wanted THEN 1 ELSE 0, due |-> 0]
    BY <1>1 DEF retry
<1>7. delay' \in InitDelay .. MaxDelay /\ fds' = fds - 1 /\ state' = "kDisconnected"
  <2>1. delay \in InitDelay .. MaxDelay /\ Doubled(delay) \in InitDelay .. MaxDelay
      BY DoubledType DEF TypeOK
  <2> QED
      BY <2>1 DEF retry
<1>8. channel = "on" /\ called
    BY DEF Channels, Fresh, TypeOK
<1>9. up' = {} /\ Cardinality(up') = 0 /\ Cardinality(up) = 0
    BY <1>1, FS_EmptySet DEF connVars
<1>10. Timed' = (IF wanted THEN 1 ELSE 0) /\ Attempts' = 0 /\ Attempts = 1
    BY <1>6, <1>7 DEF Timed, Attempts
<1>11. /\ Queued("resetChannel")' = Queued("resetChannel") + 1
       /\ Queued("connectDestroyed")' = Queued("connectDestroyed")
       /\ Queued("forceCloseInLoop")' = Queued("forceCloseInLoop")
  <2>1. Queued("resetChannel")' = Queued("resetChannel") + 1
      BY <1>5, QueueTypes DEF Queued
  <2>2. Queued("connectDestroyed")' = Queued("connectDestroyed")
      BY <1>5 DEF Queued
  <2>3. Queued("forceCloseInLoop")' = Queued("forceCloseInLoop")
      BY <1>5 DEF Queued
  <2> QED
      BY <2>1, <2>2, <2>3
<1>12. fds \in Nat /\ lost \in Nat /\ lost' = lost /\ Queued("connectDestroyed") \in Nat
    BY QueueTypes DEF TypeOK
<1>13. Sockets' /\ fds' \in Nat
  <2>1. fds = 1 + 0 + lost + Queued("connectDestroyed")
      BY <1>9, <1>10 DEF Sockets
  <2>2. fds' = lost + Queued("connectDestroyed")
      BY <1>7, <1>12, <2>1
  <2>3. fds' = 0 + 0 + lost' + Queued("connectDestroyed")'
      BY <1>11, <1>12, <2>2
  <2>4. Sockets'
      BY <1>9, <1>10, <2>3 DEF Sockets
  <2> QED
      BY <1>12, <2>2, <2>4
<1>14. TypeOK'
  <2>1. retryTimers' \in [set : 0 .. 2, due : 0 .. 2]
      BY <1>6
  <2> QED
      BY <1>3, <1>4, <1>7, <1>13, <2>1 DEF TypeOK, clientVars, connVars, callVars
<1>15. Single' /\ Ids'
    BY <1>7, <1>9, <1>10 DEF Single, Ids, clientVars
<1>16. Channels'
    BY <1>3, <1>7, <1>8, <1>11 DEF Channels
<1>17. Later'
    BY <1>6, <1>9 DEF Later
<1>18. Fresh' /\ Faultless'
    BY <1>8 DEF Fresh, Faultless, callVars, clientVars
<1>19. Owner'
  <2>1. wanted \in BOOLEAN /\ alive \in BOOLEAN
      BY DEF TypeOK
  <2>2. /\ alive' = alive /\ guardTimer' = guardTimer /\ connection' = connection
        /\ wanted' = wanted
      BY DEF clientVars
  <2>3. CASE alive
      BY <1>1, <1>9, <1>11, <2>2, <2>3 DEF Owner
  <2>4. CASE ~alive
    <3>1. ~wanted
        BY <1>10, <2>4, OneAtATime DEF Owner
    <3> QED
        BY <1>9, <2>2, <2>4, <3>1 DEF Owner
  <2> QED
      BY <2>3, <2>4
<1> QED
    BY <1>13, <1>14, <1>15, <1>16, <1>17, <1>18, <1>19

LEMMA AttemptFailsInv == ASSUME IInv, fault = "none", AttemptFails PROVE IInv'
<1>1. phase = "dispatch" /\ running = <<>> /\ running' = running /\ running \in Seq(Functor)
    BY DEF AttemptFails, Dispatching, IInv, Later, TypeOK
<1> QED
    BY <1>1, AttemptEnds DEF AttemptFails

\* A step that leaves the attempt, the timers and the connections alone.
LEMMA CoreKept ==
    ASSUME IInv, UNCHANGED <<state, channel, up, fds, lost>>, Timed' = Timed,
           Queued("connectDestroyed")' = Queued("connectDestroyed"),
           Queued("resetChannel")' = Queued("resetChannel")
    PROVE  Single' /\ Sockets' /\ Channels'
<1>1. Attempts' = Attempts
    BY DEF Attempts
<1>2. Single'
    BY <1>1 DEF IInv, Single
<1>3. Sockets'
    BY <1>1 DEF IInv, Sockets
<1>4. Channels'
    BY DEF IInv, Channels
<1> QED
    BY <1>2, <1>3, <1>4

LEMMA StopInLoopInv == ASSUME IInv, fault = "none", StopInLoop PROVE IInv'
<1> USE DEF IInv
<1>1. /\ running' \in Seq(Functor) /\ phase = "functors" /\ phase' = phase
      /\ polled' = polled
      /\ \A o : Count(running, o) = Count(running', o) + IF "stopInLoop" = o THEN 1 ELSE 0
    BY Takes DEF StopInLoop
<1>2. Count(running', "resetChannel") = Count(running, "resetChannel")
    BY <1>1, CountType
<1>3. Count(running', "connectDestroyed") = Count(running, "connectDestroyed")
    BY <1>1, CountType
<1>4. Count(running', "forceCloseInLoop") = Count(running, "forceCloseInLoop")
    BY <1>1, CountType
<1>5. /\ fault' \in {"none", "connector"} /\ (alive => fault' = "none")
      /\ UNCHANGED <<wanted, clientVars, connVars, guardTimer, callVars, gaveUp, lost>>
    BY DEF StopInLoop, ConnectorLives
<1>6. CASE state = "kConnecting"
  <2>1. RemoveAndResetChannel /\ retry(wanted, delay, retryTimers, fds)
      BY <1>6 DEF StopInLoop
  <2> QED
      BY <1>1, <1>2, <1>3, <1>4, <1>5, <1>6, <2>1, AttemptEnds
<1>7. CASE state # "kConnecting"
  <2>1. UNCHANGED <<channel, pending, state, fds, retryTimers, delay>>
      BY <1>7 DEF StopInLoop
  <2>2. /\ UNCHANGED <<wanted, alive, retry_, connect_, connection, nextConnId, up, own>>
        /\ UNCHANGED <<guardTimer, called, stops, stopped, gaveUp, lost>>
      BY <1>5 DEF clientVars, connVars, callVars
  <2>3. Timed' = Timed /\ Attempts' = Attempts
      BY <2>1 DEF Timed, Attempts
  <2>4. /\ Queued("connectDestroyed")' = Queued("connectDestroyed")
        /\ Queued("resetChannel")' = Queued("resetChannel")
        /\ Queued("forceCloseInLoop")' = Queued("forceCloseInLoop")
      BY <1>2, <1>3, <1>4, <2>1 DEF Queued
  <2>5. Single' /\ Sockets' /\ Channels'
      BY <2>1, <2>2, <2>3, <2>4, CoreKept
  <2>6. TypeOK'
      BY <1>1, <1>5, <2>1, <2>2 DEF TypeOK
  <2>7. Ids' /\ Faultless'
      BY <1>1, <1>5, <2>2 DEF Ids, Faultless
  <2>8. Later'
      BY <1>1, <2>1, <2>2 DEF Later
  <2>9. Fresh' /\ Owner'
      BY <2>1, <2>2, <2>3, <2>4 DEF Fresh, Owner
  <2> QED
      BY <2>5, <2>6, <2>7, <2>8, <2>9
<1> QED
    BY <1>6, <1>7
\* stop() and ~TcpClient queue a functor that touches nothing yet.
LEMMA StopQueued ==
    ASSUME TypeOK, NEW op \in {"stopInLoop", "forceCloseInLoop"}, NEW c,
           Do(op, c) \in Functor, pending' = Append(pending, Do(op, c)), running' = running
    PROVE  /\ pending' \in Seq(Functor)
           /\ Count(pending', "resetChannel") = Count(pending, "resetChannel")
           /\ Queued("connectDestroyed")' = Queued("connectDestroyed")
           /\ Queued("resetChannel")' = Queued("resetChannel")
           /\ op = "stopInLoop" => Queued("forceCloseInLoop")' = Queued("forceCloseInLoop")
<1>1. Do(op, c).op = op
    BY DEF Do
<1>2. /\ pending' \in Seq(Functor)
      /\ \A o : Count(pending', o) = Count(pending, o) + IF Do(op, c).op = o THEN 1 ELSE 0
    BY Queues
<1>3. Count(pending', "resetChannel") = Count(pending, "resetChannel")
    BY <1>1, <1>2, QueueTypes
<1>4. Count(pending', "connectDestroyed") = Count(pending, "connectDestroyed")
    BY <1>1, <1>2, QueueTypes
<1>5. op = "stopInLoop"
      => Count(pending', "forceCloseInLoop") = Count(pending, "forceCloseInLoop")
    BY <1>1, <1>2, QueueTypes
<1>6. Queued("connectDestroyed")' = Queued("connectDestroyed")
    BY <1>4 DEF Queued
<1>7. Queued("resetChannel")' = Queued("resetChannel")
    BY <1>3 DEF Queued
<1>8. op = "stopInLoop" => Queued("forceCloseInLoop")' = Queued("forceCloseInLoop")
    BY <1>5 DEF Queued
<1> QED
    BY <1>2, <1>3, <1>6, <1>7, <1>8

LEMMA DoStop == Do("stopInLoop", 0) \in Functor
BY DEF Do, Functor

LEMMA StopInv == ASSUME IInv, fault = "none", Stop PROVE IInv'
<1> USE DEF IInv
<1>1. /\ wanted' = FALSE /\ connect_' = FALSE /\ stops < MaxStops /\ stops' = stops + 1
      /\ stopped' = TRUE
      /\ pending' = Append(pending, Do("stopInLoop", 0))
      /\ UNCHANGED <<state, channel, delay, alive, retry_, connection, nextConnId,
                     up, own, phase, polled, running, retryTimers, guardTimer, called,
                     gaveUp, fds, lost, fault>>
    BY DEF Stop, stop, connVars, timerVars
<1>2. /\ pending' \in Seq(Functor)
      /\ Count(pending', "resetChannel") = Count(pending, "resetChannel")
      /\ Queued("connectDestroyed")' = Queued("connectDestroyed")
      /\ Queued("resetChannel")' = Queued("resetChannel")
      /\ Queued("forceCloseInLoop")' = Queued("forceCloseInLoop")
    BY <1>1, StopQueued, DoStop
<1>3. Timed' = Timed /\ Attempts' = Attempts
    BY <1>1 DEF Timed, Attempts
<1>4. Single' /\ Sockets' /\ Channels'
    BY <1>1, <1>2, <1>3, CoreKept
<1>5. TypeOK'
  <2>1. stops' \in 0 .. MaxStops
      BY <1>1, ClientAssumption DEF TypeOK
  <2> QED
      BY <1>1, <1>2, <2>1, Zenon DEF TypeOK
<1>6. Ids' /\ Faultless'
    BY <1>1 DEF Ids, Faultless
<1>7. Later'
    BY <1>1, <1>2 DEF Later
<1>8. Fresh'
    BY <1>1, <1>3 DEF Fresh
<1>9. Owner'
    BY <1>1, <1>2, <1>3 DEF Owner
<1> QED
    BY <1>4, <1>5, <1>6, <1>7, <1>8, <1>9

\* disconnect() and enableRetry() set a flag.
LEMMA FlagsInv == ASSUME IInv, fault = "none", Disconnect \/ EnableRetry PROVE IInv'
<1> USE DEF IInv
<1>1. /\ UNCHANGED <<connectorVars, alive, connection, nextConnId, connVars, loopVars,
                     timerVars, callVars, gaveUp, fds, lost, fault>>
      /\ retry_' \in BOOLEAN /\ connect_' \in BOOLEAN
    BY Zenon DEF Disconnect, EnableRetry, TypeOK
<1>2. /\ UNCHANGED <<wanted, state, channel, delay, alive, connection, nextConnId, up, own>>
      /\ UNCHANGED <<phase, polled, pending, running, retryTimers, guardTimer>>
      /\ UNCHANGED <<called, stops, stopped, gaveUp, fds, lost, fault>>
    BY <1>1 DEF connectorVars, connVars, loopVars, timerVars, callVars
<1>3. /\ Queued("connectDestroyed")' = Queued("connectDestroyed")
      /\ Queued("resetChannel")' = Queued("resetChannel")
      /\ Queued("forceCloseInLoop")' = Queued("forceCloseInLoop")
    BY <1>2 DEF Queued
<1>4. Timed' = Timed /\ Attempts' = Attempts
    BY <1>2 DEF Timed, Attempts
<1>5. Single' /\ Sockets' /\ Channels'
    BY <1>2, <1>3, <1>4, CoreKept
<1>6. TypeOK'
    BY <1>1, <1>2 DEF TypeOK
<1>7. Ids' /\ Faultless'
    BY <1>2 DEF Ids, Faultless
<1>8. Later'
    BY <1>2 DEF Later
<1>9. Fresh' /\ Owner'
    BY <1>2, <1>3, <1>4 DEF Fresh, Owner
<1> QED
    BY <1>5, <1>6, <1>7, <1>8, <1>9
LEMMA DestroyInv == ASSUME IInv, fault = "none", Destroy PROVE IInv'
<1> USE DEF IInv
<1>1. /\ alive /\ alive' = FALSE
      /\ UNCHANGED <<state, channel, delay, retry_, connect_, connection, nextConnId, up>>
      /\ UNCHANGED <<phase, polled, running, retryTimers, called, stops, stopped>>
      /\ UNCHANGED <<gaveUp, fds, lost>>
    BY DEF Destroy, callVars
<1>2. fault' \in {"none", "assert"}
    BY DEF Destroy, Asserts
<1>3. Timed' = Timed /\ Attempts' = Attempts
    BY <1>1 DEF Timed, Attempts
<1>4. /\ pending' \in Seq(Functor)
      /\ Count(pending', "resetChannel") = Count(pending, "resetChannel")
      /\ Queued("connectDestroyed")' = Queued("connectDestroyed")
      /\ Queued("resetChannel")' = Queued("resetChannel")
  <2>1. CASE pending' = pending
      BY <1>1, <2>1 DEF TypeOK, Queued
  <2>2. CASE connection # 0 /\ pending' = Append(pending, Do("forceCloseInLoop", connection))
    <3>1. Do("forceCloseInLoop", connection) \in Functor
      <4>1. connection \in 1 .. MaxConns
          BY <2>2, ClientAssumption DEF TypeOK
      <4> QED
          BY <4>1 DEF Do, Functor
    <3> QED
        BY <1>1, <2>2, <3>1, StopQueued
  <2>3. CASE pending' = Append(pending, Do("stopInLoop", 0))
      BY <1>1, <2>3, StopQueued, DoStop
  <2> QED
      BY <2>1, <2>2, <2>3 DEF Destroy, stop
<1>5. Single' /\ Sockets' /\ Channels'
    BY <1>1, <1>3, <1>4, CoreKept
<1>6. ASSUME connection # 0 PROVE TypeOK' /\ Owner'
  <2>1. own' = own \ {connection} /\ UNCHANGED <<wanted, guardTimer>>
      BY <1>6 DEF Destroy
  <2>2. TypeOK'
    <3>1. own' \subseteq 1 .. MaxConns /\ wanted' \in BOOLEAN
          /\ guardTimer' \in {"none", "set", "due"} /\ alive' \in BOOLEAN
        BY <1>1, <2>1, Zenon DEF TypeOK
    <3> QED
        BY <1>1, <1>2, <1>4, <3>1 DEF TypeOK
  <2>3. own' \cap up' = {}
      BY <1>1, <2>1 DEF Owner
  <2>4. Timed + Attempts = 0
    <3>1. connection \in up
        BY <1>1, <1>6 DEF Owner
    <3>2. state # "kConnecting" /\ retryTimers = [set |-> 0, due |-> 0]
        BY <3>1, OneAtATime
    <3> QED
        BY <3>2 DEF Timed, Attempts
  <2>5. Owner'
    <3>1. ~alive' /\ Timed' + Attempts' = 0
        BY <1>1, <1>3, <2>4
    <3> QED
        BY <2>3, <3>1 DEF Owner
  <2> QED
      BY <2>2, <2>5
<1>7. ASSUME connection = 0 PROVE TypeOK' /\ Owner'
  <2>1. own' = own /\ wanted' = FALSE /\ guardTimer' = "set"
      BY <1>7 DEF Destroy, stop
  <2>2. TypeOK'
      BY <1>1, <1>2, <1>4, <2>1, Zenon DEF TypeOK
  <2>3. own' \cap up' = {}
    <3>1. \A c \in up : c # 0
        BY DEF TypeOK
    <3> QED
        BY <1>1, <1>7, <2>1, <3>1 DEF Owner
  <2>4. Owner'
    <3>1. ~alive' /\ ~wanted'
        BY <1>1, <2>1
    <3> QED
        BY <2>3, <3>1 DEF Owner
  <2> QED
      BY <2>2, <2>4
<1>8. TypeOK' /\ Owner'
    BY <1>6, <1>7
<1>9. Ids' /\ Faultless'
    BY <1>1, <1>2 DEF Ids, Faultless
<1>10. Later'
    BY <1>1, <1>4 DEF Later
<1>11. Fresh'
    BY <1>1, <1>3 DEF Fresh
<1> QED
    BY <1>5, <1>8, <1>9, <1>10, <1>11

LEMMA GuardTimerInv == ASSUME IInv, fault = "none", GuardTimer PROVE IInv'
<1> USE DEF IInv
<1>1. /\ guardTimer = "due" /\ guardTimer' = "none" /\ wanted' = FALSE
      /\ pending' = Append(pending, Do("stopInLoop", 0))
      /\ UNCHANGED <<state, channel, delay, alive, retry_, connect_, connection, nextConnId>>
      /\ UNCHANGED <<up, own, phase, polled, running, retryTimers, called, stops, stopped>>
      /\ UNCHANGED <<gaveUp, fds, lost>>
    BY DEF GuardTimer, stop, clientVars, connVars, callVars
<1>2. fault' \in {"none", "assert"} /\ alive = FALSE
  <2>1. Asserts(TRUE)
      BY Zenon DEF GuardTimer
  <2> QED
      BY <1>1, <2>1 DEF Asserts, Owner, TypeOK
<1>3. /\ pending' \in Seq(Functor)
      /\ Count(pending', "resetChannel") = Count(pending, "resetChannel")
      /\ Queued("connectDestroyed")' = Queued("connectDestroyed")
      /\ Queued("resetChannel")' = Queued("resetChannel")
    BY <1>1, StopQueued, DoStop
<1>4. Timed' = Timed
    BY <1>1 DEF Timed
<1>5. Single' /\ Sockets' /\ Channels'
    BY <1>1, <1>3, <1>4, CoreKept
<1>6. TypeOK'
    BY <1>1, <1>2, <1>3, Zenon DEF TypeOK
<1>7. Ids' /\ Faultless'
    BY <1>1, <1>2 DEF Ids, Faultless
<1>8. Later'
    BY <1>1, <1>3 DEF Later
<1>9. Fresh' /\ Owner'
    BY <1>1, <1>2, <1>4 DEF Fresh, Owner
<1> QED
    BY <1>5, <1>6, <1>7, <1>8, <1>9
LEMMA ElapseInv == ASSUME IInv, fault = "none", Elapse PROVE IInv'
<1> USE DEF IInv
<1>1. /\ UNCHANGED <<wanted, state, channel, delay, alive, retry_, connect_, connection>>
      /\ UNCHANGED <<nextConnId, up, own, phase, polled, pending, running, called, stops>>
      /\ UNCHANGED <<stopped, gaveUp, fds, lost, fault>>
    BY DEF Elapse, connectorVars, clientVars, connVars, loopVars, callVars
<1>2. /\ Queued("connectDestroyed")' = Queued("connectDestroyed")
      /\ Queued("resetChannel")' = Queued("resetChannel")
      /\ Queued("forceCloseInLoop")' = Queued("forceCloseInLoop")
    BY <1>1 DEF Queued
<1>3. /\ guardTimer' \in {"none", "set", "due"} /\ (guardTimer = "none" => guardTimer' = "none")
      /\ retryTimers' \in [set : 0 .. 2, due : 0 .. 2] /\ Timed' = Timed
  <2>1. CASE UNCHANGED retryTimers /\ guardTimer = "set" /\ guardTimer' = "due"
      BY <2>1 DEF TypeOK, Timed
  <2>2. CASE /\ retryTimers.set > 0
             /\ retryTimers' = [set |-> 0, due |-> retryTimers.set + retryTimers.due]
             /\ UNCHANGED guardTimer
    <3>1. retryTimers = [set |-> 1, due |-> 0]
        BY <2>2, OneAtATime
    <3>2. retryTimers' = [set |-> 0, due |-> 1]
        BY <2>2, <3>1
    <3> QED
        BY <2>2, <3>1, <3>2 DEF TypeOK, Timed
  <2> QED
      BY <2>1, <2>2 DEF Elapse
<1>4. Attempts' = Attempts
    BY <1>1 DEF Attempts
<1>5. Single' /\ Sockets' /\ Channels'
    BY <1>1, <1>2, <1>3, CoreKept
<1>6. TypeOK'
    BY <1>1, <1>3 DEF TypeOK
<1>7. Ids' /\ Faultless'
    BY <1>1 DEF Ids, Faultless
<1>8. Later'
    BY <1>1 DEF Later
<1>9. Fresh'
    BY <1>1, <1>3 DEF Fresh
<1>10. Owner'
    BY <1>1, <1>2, <1>3, <1>4 DEF Owner
<1> QED
    BY <1>5, <1>6, <1>7, <1>8, <1>9, <1>10

LEMMA SwapFunctorsInv == ASSUME IInv, fault = "none", SwapFunctors PROVE IInv'
<1> USE DEF IInv
<1>1. /\ phase = "dispatch" /\ running = <<>>
      /\ phase' = "functors" /\ running' = pending /\ pending' = <<>>
      /\ UNCHANGED <<wanted, state, channel, delay, alive, retry_, connect_, connection>>
      /\ UNCHANGED <<nextConnId, up, own, polled, retryTimers, guardTimer, called, stops>>
      /\ UNCHANGED <<stopped, gaveUp, fds, lost, fault>>
    BY DEF SwapFunctors, Dispatching, Later, connectorVars, clientVars, connVars, timerVars,
           callVars
<1>2. \A op : Count(running, op) = 0 /\ Count(pending', op) = 0
    BY <1>1, CountEmpty
<1>3. \A op : Count(running', op) = Count(pending, op)
    BY <1>1
<1>4. Queued("connectDestroyed")' = Queued("connectDestroyed")
    BY <1>2, <1>3, QueueTypes DEF Queued
<1>5. Queued("resetChannel")' = Queued("resetChannel")
    BY <1>2, <1>3, QueueTypes DEF Queued
<1>6. Queued("forceCloseInLoop")' = Queued("forceCloseInLoop")
    BY <1>2, <1>3, QueueTypes DEF Queued
<1>7. Timed' = Timed /\ Attempts' = Attempts
    BY <1>1 DEF Timed, Attempts
<1>8. Single' /\ Sockets' /\ Channels'
    BY <1>1, <1>4, <1>5, <1>7, CoreKept
<1>9. TypeOK'
    BY <1>1 DEF TypeOK
<1>10. Ids' /\ Faultless'
    BY <1>1 DEF Ids, Faultless
<1>11. Later'
    BY <1>1, <1>2 DEF Later
<1>12. Fresh' /\ Owner'
    BY <1>1, <1>6, <1>7 DEF Fresh, Owner
<1> QED
    BY <1>8, <1>9, <1>10, <1>11, <1>12

LEMMA PollInv == ASSUME IInv, fault = "none", Poll PROVE IInv'
<1> USE DEF IInv
<1>1. /\ phase = "functors" /\ running = <<>> /\ phase' = "dispatch" /\ polled' = Registered
      /\ UNCHANGED <<wanted, state, channel, delay, alive, retry_, connect_, connection>>
      /\ UNCHANGED <<nextConnId, up, own, pending, running, retryTimers, guardTimer, called>>
      /\ UNCHANGED <<stops, stopped, gaveUp, fds, lost, fault>>
    BY DEF Poll, connectorVars, clientVars, connVars, timerVars, callVars
<1>2. polled' \subseteq up \cup {0}
    BY <1>1 DEF Registered
<1>3. /\ Queued("connectDestroyed")' = Queued("connectDestroyed")
      /\ Queued("resetChannel")' = Queued("resetChannel")
      /\ Queued("forceCloseInLoop")' = Queued("forceCloseInLoop")
    BY <1>1 DEF Queued
<1>4. Timed' = Timed /\ Attempts' = Attempts
    BY <1>1 DEF Timed, Attempts
<1>5. up # {} => channel # "off"
  <2>1. Count(running, "resetChannel") = 0
      BY <1>1, CountEmpty
  <2>2. up # {} => Queued("resetChannel") = 0
      BY <1>1, <2>1 DEF Later, Queued
  <2> QED
      BY <2>2 DEF Channels
<1>6. Single' /\ Sockets' /\ Channels'
    BY <1>1, <1>3, <1>4, CoreKept
<1>7. polled' \subseteq 0 .. MaxConns /\ Ids'
  <2>1. 0 \in 0 .. MaxConns /\ nextConnId \in Nat \ {0}
      BY ClientAssumption DEF TypeOK
  <2> QED
      BY <1>1, <1>2, <2>1 DEF TypeOK, Ids
<1>8. TypeOK' /\ Faultless'
    BY <1>1, <1>7 DEF TypeOK, Faultless
<1>9. Later'
    BY <1>1, <1>5 DEF Later
<1>10. Fresh' /\ Owner'
    BY <1>1, <1>3, <1>4 DEF Fresh, Owner
<1> QED
    BY <1>6, <1>7, <1>8, <1>9, <1>10
LEMMA ResetChannelInv == ASSUME IInv, fault = "none", ResetChannel PROVE IInv'
<1> USE DEF IInv
<1>1. /\ channel' = "none"
      /\ UNCHANGED <<wanted, state, delay, alive, retry_, connect_, connection, nextConnId>>
      /\ UNCHANGED <<up, own, pending, retryTimers, guardTimer, called, stops, stopped>>
      /\ UNCHANGED <<gaveUp, fds, lost>>
      /\ Runs("resetChannel")
    BY DEF ResetChannel, clientVars, connVars, timerVars, callVars
<1>2. fault' \in {"none", "connector"} /\ (alive => fault' = "none")
    BY DEF ResetChannel, ConnectorLives
<1>3. /\ running' \in Seq(Functor) /\ phase = "functors" /\ phase' = phase
      /\ polled' = polled
      /\ \A o : Count(running, o) = Count(running', o) + IF "resetChannel" = o THEN 1 ELSE 0
    BY <1>1, Takes
<1>4. Queued("connectDestroyed")' = Queued("connectDestroyed")
  <2>1. Count(running, "connectDestroyed") = Count(running', "connectDestroyed")
      BY <1>3, CountType
  <2> QED
      BY <1>1, <2>1 DEF Queued
<1>5. Queued("forceCloseInLoop")' = Queued("forceCloseInLoop")
  <2>1. Count(running, "forceCloseInLoop") = Count(running', "forceCloseInLoop")
      BY <1>3, CountType
  <2> QED
      BY <1>1, <2>1 DEF Queued
<1>6. channel = "off" /\ Queued("resetChannel")' = 0
  <2>1. /\ Count(running, "resetChannel") = Count(running', "resetChannel") + 1
        /\ Count(running', "resetChannel") \in Nat /\ Count(pending, "resetChannel") \in Nat
      BY <1>3, CountType, QueueTypes
  <2>2. Queued("resetChannel") = Queued("resetChannel")' + 1 /\ Queued("resetChannel")' \in Nat
      BY <1>1, <2>1 DEF Queued
  <2> QED
      BY <2>2 DEF Channels
<1>7. Timed' = Timed /\ Attempts' = Attempts
    BY <1>1 DEF Timed, Attempts
<1>8. Single' /\ Sockets'
  <2>1. Single'
      BY <1>1, <1>7 DEF Single
  <2>2. Sockets'
      BY <1>1, <1>4, <1>7 DEF Sockets
  <2> QED
      BY <2>1, <2>2
<1>9. Channels'
    BY <1>1, <1>6 DEF Channels
<1>10. TypeOK'
    BY <1>1, <1>2, <1>3 DEF TypeOK
<1>11. Ids' /\ Faultless'
    BY <1>1, <1>2, <1>3 DEF Ids, Faultless
<1>12. Later'
    BY <1>1, <1>3 DEF Later
<1>13. Fresh' /\ Owner'
    BY <1>1, <1>5, <1>6, <1>7 DEF Fresh, Owner
<1> QED
    BY <1>8, <1>9, <1>10, <1>11, <1>12, <1>13

LEMMA ConnectDestroyedInv == ASSUME IInv, fault = "none", ConnectDestroyed PROVE IInv'
<1> USE DEF IInv
<1>1. /\ fds' = fds - 1
      /\ UNCHANGED <<wanted, state, channel, delay, alive, retry_, connect_, connection>>
      /\ UNCHANGED <<nextConnId, up, own, pending, retryTimers, guardTimer, called, stops>>
      /\ UNCHANGED <<stopped, gaveUp, lost, fault>>
      /\ Runs("connectDestroyed")
    BY DEF ConnectDestroyed, connectorVars, clientVars, connVars, timerVars, callVars
<1>2. /\ running' \in Seq(Functor) /\ phase = "functors" /\ phase' = phase
      /\ polled' = polled
      /\ \A o : Count(running, o) = Count(running', o) + IF "connectDestroyed" = o THEN 1 ELSE 0
    BY <1>1, Takes
<1>3. Queued("resetChannel")' = Queued("resetChannel")
  <2>1. Count(running, "resetChannel") = Count(running', "resetChannel")
      BY <1>2, CountType
  <2> QED
      BY <1>1, <2>1 DEF Queued
<1>4. Queued("forceCloseInLoop")' = Queued("forceCloseInLoop")
  <2>1. Count(running, "forceCloseInLoop") = Count(running', "forceCloseInLoop")
      BY <1>2, CountType
  <2> QED
      BY <1>1, <2>1 DEF Queued
<1>5. /\ Queued("connectDestroyed") = Queued("connectDestroyed")' + 1
      /\ Queued("connectDestroyed")' \in Nat
  <2>1. /\ Count(running, "connectDestroyed") = Count(running', "connectDestroyed") + 1
        /\ Count(running', "connectDestroyed") \in Nat
        /\ Count(pending, "connectDestroyed") \in Nat
      BY <1>2, CountType, QueueTypes
  <2> QED
      BY <1>1, <2>1 DEF Queued
<1>6. Timed' = Timed /\ Attempts' = Attempts /\ Attempts \in {0, 1}
    BY <1>1 DEF Timed, Attempts
<1>7. Single' /\ Channels'
  <2>1. Single'
      BY <1>1, <1>6 DEF Single
  <2>2. Channels'
      BY <1>1, <1>3 DEF Channels
  <2> QED
      BY <2>1, <2>2
<1>8. Sockets' /\ fds' \in Nat
  <2>1. Cardinality(up) \in Nat /\ lost \in Nat /\ fds \in Nat
      BY UpFinite DEF TypeOK
  <2>2. fds = Attempts + Cardinality(up) + lost + Queued("connectDestroyed")
      BY DEF Sockets
  <2>3. fds' = Attempts + Cardinality(up) + lost + Queued("connectDestroyed")' /\ fds' \in Nat
      BY <1>1, <1>5, <1>6, <2>1, <2>2
  <2> QED
      BY <1>1, <1>6, <2>3 DEF Sockets
<1>9. TypeOK'
    BY <1>1, <1>2, <1>8 DEF TypeOK
<1>10. Ids' /\ Faultless'
    BY <1>1, <1>2 DEF Ids, Faultless
<1>11. Later'
    BY <1>1, <1>2 DEF Later
<1>12. Fresh' /\ Owner'
    BY <1>1, <1>4, <1>6 DEF Fresh, Owner
<1> QED
    BY <1>7, <1>8, <1>9, <1>10, <1>11, <1>12

\* startInLoop leaves at most one of an attempt and a timer; the socket of a
\* connection that has just closed passes to its connectDestroyed.
LEMMA AfterStart ==
    ASSUME IInv, NEW want, Started(want), state # "kConnecting",
           up' = {}, lost' = lost,
           Queued("resetChannel")' = Queued("resetChannel"),
           Cardinality(up) + Queued("connectDestroyed") = Queued("connectDestroyed")'
    PROVE  /\ Single' /\ Sockets' /\ fds' \in Nat
           /\ channel = "none" \/ state' # "kConnecting" => Channels'
           /\ retryTimers' \in [set : 0 .. 2, due : 0 .. 2] /\ retryTimers'.due = 0
           /\ ~want => Timed' + Attempts' = 0
<1> USE DEF IInv
<1>1. Cardinality(up') = 0
    BY FS_EmptySet
<1>2. /\ Attempts = 0 /\ Attempts' = (IF state' = "kConnecting" THEN 1 ELSE 0)
    BY DEF Attempts
<1>3. /\ retryTimers' \in [set : 0 .. 2, due : 0 .. 2] /\ retryTimers'.due = 0
      /\ Timed' \in {0, 1} /\ (state' = "kConnecting" => Timed' = 0)
      /\ ~want => state' = "kDisconnected" /\ Timed' = 0
  <2>1. CASE retryTimers' = [set |-> 0, due |-> 0]
      BY <2>1 DEF Started, Timed
  <2>2. CASE retryTimers' = [set |-> 1, due |-> 0]
      BY <2>2 DEF Started, Timed
  <2> QED
      BY <2>1, <2>2 DEF Started
<1>4. Single'
    BY <1>1, <1>2, <1>3 DEF Single, Started
<1>5. Sockets' /\ fds' \in Nat
  <2>1. /\ Cardinality(up) \in Nat /\ lost \in Nat /\ fds \in Nat
        /\ Queued("connectDestroyed") \in Nat
      BY UpFinite, QueueTypes, Zenon DEF TypeOK
  <2>2. fds = 0 + Cardinality(up) + lost + Queued("connectDestroyed")
      BY <1>2 DEF Sockets
  <2>3. fds' = fds + Attempts' /\ Attempts' \in {0, 1}
      BY <1>2 DEF Started
  <2>4. fds' = Attempts' + 0 + lost + Queued("connectDestroyed")' /\ fds' \in Nat
      BY <2>1, <2>2, <2>3
  <2> QED
      BY <1>1, <2>4 DEF Sockets
<1>6. channel = "none" \/ state' # "kConnecting" => Channels'
  <2>1. channel # "on" /\ Queued("resetChannel")' = IF channel = "off" THEN 1 ELSE 0
      BY DEF Channels
  <2>2. channel' = IF state' = "kConnecting" THEN "on" ELSE channel
      BY DEF Started
  <2> QED
      BY <2>1, <2>2 DEF Channels
<1>7. ~want => Timed' + Attempts' = 0
  <2>1. ASSUME ~want PROVE Timed' = 0 /\ Attempts' = 0
      BY <1>2, <1>3, <2>1
  <2> QED
      BY <2>1
<1> QED
    BY <1>3, <1>4, <1>5, <1>6, <1>7

\* A retry timer, which may find the channel of the attempt before it.
LEMMA RetryTimerInv ==
    ASSUME IInv, fault = "none", RetryTimer
    PROVE  \/ IInv' /\ (alive' => fault' = "none")
           \/ Overtaken' /\ channel = "off"
<1> USE DEF IInv
<1>1. /\ phase = "dispatch" /\ retryTimers.due > 0
      /\ UNCHANGED <<wanted, alive, retry_, connect_, connection, nextConnId, up, own>>
      /\ UNCHANGED <<phase, polled, pending, running, guardTimer, called, stops, stopped, lost>>
      /\ startInLoop(state, wanted, delay, [retryTimers EXCEPT !.due = @ - 1])
    BY DEF RetryTimer, Dispatching, clientVars, connVars, loopVars, callVars
<1>2. /\ up = {} /\ retryTimers = [set |-> 0, due |-> 1] /\ state = "kDisconnected"
      /\ channel \in {"none", "off"}
    BY <1>1, OneAtATime DEF Channels, TypeOK
<1>3. Started(wanted)
  <2>1. /\ delay \in InitDelay .. MaxDelay /\ fds \in Nat /\ gaveUp \in BOOLEAN
        /\ wanted \in BOOLEAN
      BY DEF TypeOK
  <2> DEFINE t == [retryTimers EXCEPT !.due = @ - 1]
  <2>2. t = [set |-> 0, due |-> 0]
      BY <1>2
  <2> HIDE DEF t
  <2>3. startInLoop(state, wanted, delay, t)
      BY <1>1 DEF t
  <2> QED
      BY <1>2, <2>1, <2>2, <2>3, StartOutcome
<1>4. called
    BY <1>2 DEF Fresh, Timed
<1>5. /\ Queued("connectDestroyed")' = Queued("connectDestroyed")
      /\ Queued("resetChannel")' = Queued("resetChannel")
      /\ Queued("forceCloseInLoop")' = Queued("forceCloseInLoop")
    BY <1>1 DEF Queued
<1>6. Cardinality(up) + Queued("connectDestroyed") = Queued("connectDestroyed")'
    BY <1>2, <1>5, UpFinite, QueueTypes
<1>7. /\ Single' /\ Sockets' /\ fds' \in Nat
      /\ channel = "none" \/ state' # "kConnecting" => Channels'
      /\ retryTimers' \in [set : 0 .. 2, due : 0 .. 2] /\ retryTimers'.due = 0
      /\ ~wanted => Timed' + Attempts' = 0
    BY <1>1, <1>2, <1>3, <1>5, <1>6, AfterStart
<1>8. TypeOK'
  <2>1. /\ state' \in {"kConnecting", "kDisconnected"} /\ channel' \in {"none", "on", "off"}
        /\ delay' \in InitDelay .. MaxDelay /\ gaveUp' \in BOOLEAN
        /\ fault' \in {"none", "assert"}
      BY <1>2, <1>3 DEF Started
  <2> QED
      BY <1>1, <1>7, <2>1 DEF TypeOK
<1>9. Ids' /\ Fresh'
    BY <1>1, <1>4 DEF Ids, Fresh
<1>10. Later'
    BY <1>1, <1>2 DEF Later
<1>11. Owner'
  <2>1. ~alive => ~wanted
    <3>1. Timed = 1 /\ Attempts = 0
        BY <1>2 DEF Timed, Attempts
    <3> QED
        BY <3>1 DEF Owner
  <2> QED
      BY <1>1, <1>2, <1>5, <1>7, <2>1 DEF Owner
<1>12. CASE channel = "off" /\ state' = "kConnecting"
  <2>1. fault' = "assert"
      BY <1>3, <1>12 DEF Started
  <2> QED
      BY <1>7, <1>8, <1>12, <2>1 DEF Overtaken
<1>13. CASE channel = "none" \/ state' # "kConnecting"
  <2>1. fault' \in {"none", "assert"} /\ (alive' => fault' = "none")
      BY <1>3, <1>13 DEF Started
  <2>2. Faultless' /\ Channels'
      BY <1>7, <1>13, <2>1 DEF Faultless
  <2> QED
      BY <1>7, <1>8, <1>9, <1>10, <1>11, <2>1, <2>2
<1> QED
    BY <1>2, <1>12, <1>13

LEMMA ConnectInv == ASSUME IInv, fault = "none", Connect PROVE IInv'
<1> USE DEF IInv
<1>1. /\ alive /\ ~called /\ called' = TRUE /\ stopped' = FALSE
      /\ connect_' = TRUE /\ wanted' = TRUE
      /\ UNCHANGED <<alive, retry_, connection, nextConnId, up, own, phase, polled>>
      /\ UNCHANGED <<pending, running, guardTimer, stops, lost>>
      /\ startInLoop(state, TRUE, delay, retryTimers)
    BY Zenon DEF Connect, connVars, loopVars
<1>2. /\ up = {} /\ retryTimers = [set |-> 0, due |-> 0] /\ state = "kDisconnected"
      /\ channel = "none"
    BY <1>1 DEF Fresh, Timed, TypeOK
<1>3. Started(TRUE)
  <2>1. delay \in InitDelay .. MaxDelay /\ fds \in Nat /\ gaveUp \in BOOLEAN
      BY DEF TypeOK
  <2> QED
      BY <1>1, <1>2, <2>1, StartOutcome, Zenon
<1>4. /\ Queued("connectDestroyed")' = Queued("connectDestroyed")
      /\ Queued("resetChannel")' = Queued("resetChannel")
      /\ Queued("forceCloseInLoop")' = Queued("forceCloseInLoop")
    BY <1>1 DEF Queued
<1>5. Cardinality(up) + Queued("connectDestroyed") = Queued("connectDestroyed")'
    BY <1>2, <1>4, UpFinite, QueueTypes
<1>6. /\ Single' /\ Sockets' /\ Channels' /\ fds' \in Nat
      /\ retryTimers' \in [set : 0 .. 2, due : 0 .. 2] /\ retryTimers'.due = 0
    BY <1>1, <1>2, <1>3, <1>4, <1>5, AfterStart, Zenon
<1>7. TypeOK' /\ Faultless'
  <2>1. /\ state' \in {"kConnecting", "kDisconnected"} /\ channel' \in {"on", "none"}
        /\ delay' \in InitDelay .. MaxDelay /\ gaveUp' \in BOOLEAN
        /\ fault' \in {"none", "assert"} /\ (alive' => fault' = "none")
      BY <1>2, <1>3 DEF Started
  <2> QED
      BY <1>1, <1>6, <2>1, Zenon DEF TypeOK, Faultless
<1>8. Ids' /\ Fresh'
    BY <1>1 DEF Ids, Fresh
<1>9. Later'
    BY <1>1, <1>2, <1>6 DEF Later
<1>10. Owner'
    BY <1>1, <1>2, <1>4 DEF Owner
<1> QED
    BY <1>6, <1>7, <1>8, <1>9, <1>10
\* nextConnId_ only grows.
LEMMA MoreIds ==
    ASSUME NEW m \in Nat, NEW n \in Nat, m <= n
    PROVE  \A i \in 0 .. m - 1 : i \in 0 .. n - 1
OBVIOUS

LEMMA HandleWriteInv == ASSUME IInv, fault = "none", HandleWrite PROVE IInv'
<1> USE DEF IInv
<1>1. /\ phase = "dispatch" /\ running = <<>> /\ state = "kConnecting" /\ state' = "kConnected"
      /\ channel' = "off" /\ pending' = Append(pending, Do("resetChannel", 0))
      /\ UNCHANGED <<wanted, delay, alive, retry_, connect_, phase, polled, running>>
      /\ UNCHANGED <<retryTimers, guardTimer, called, stops, stopped, gaveUp>>
    BY DEF HandleWrite, Dispatching, RemoveAndResetChannel, Later, timerVars, callVars
<1>2. up = {} /\ retryTimers = [set |-> 0, due |-> 0] /\ channel = "on" /\ called
    BY <1>1, OneAtATime DEF Channels, Fresh
<1>3. /\ pending' \in Seq(Functor)
      /\ Queued("resetChannel")' = Queued("resetChannel") + 1
      /\ Queued("connectDestroyed")' = Queued("connectDestroyed")
      /\ Queued("forceCloseInLoop")' = Queued("forceCloseInLoop")
  <2>1. Do("resetChannel", 0) \in Functor /\ Do("resetChannel", 0).op = "resetChannel"
      BY DEF Do, Functor
  <2>2. /\ pending' \in Seq(Functor)
        /\ \A op : Count(pending', op)
                   = Count(pending, op) + IF Do("resetChannel", 0).op = op THEN 1 ELSE 0
      BY <1>1, <2>1, Queues
  <2>3. Count(pending', "resetChannel") = Count(pending, "resetChannel") + 1
      BY <2>1, <2>2, QueueTypes
  <2>4. Count(pending', "connectDestroyed") = Count(pending, "connectDestroyed")
      BY <2>1, <2>2, QueueTypes
  <2>5. Count(pending', "forceCloseInLoop") = Count(pending, "forceCloseInLoop")
      BY <2>1, <2>2, QueueTypes
  <2>6. Queued("resetChannel")' = Queued("resetChannel") + 1
      BY <1>1, <2>3, QueueTypes DEF Queued
  <2>7. Queued("connectDestroyed")' = Queued("connectDestroyed")
      BY <1>1, <2>4 DEF Queued
  <2>8. Queued("forceCloseInLoop")' = Queued("forceCloseInLoop")
      BY <1>1, <2>5 DEF Queued
  <2> QED
      BY <2>2, <2>6, <2>7, <2>8
<1>4. Timed' = 0 /\ Timed = 0 /\ Attempts' = 0 /\ Attempts = 1 /\ Cardinality(up) = 0
    BY <1>1, <1>2, FS_EmptySet DEF Timed, Attempts
<1>5. Channels' /\ Fresh'
    BY <1>1, <1>2, <1>3 DEF Channels, Fresh
<1>6. /\ fds = 1 + lost + Queued("connectDestroyed")
      /\ fds \in Nat /\ lost \in Nat /\ Queued("connectDestroyed") \in Nat
  <2>1. fds = 1 + 0 + lost + Queued("connectDestroyed")
      BY <1>4 DEF Sockets
  <2>2. fds \in Nat /\ lost \in Nat /\ Queued("connectDestroyed") \in Nat
      BY QueueTypes DEF TypeOK
  <2> QED
      BY <2>1, <2>2
<1>7. ASSUME UNCHANGED <<connection, up, own>>, nextConnId' \in {nextConnId, nextConnId + 1},
             nextConnId' \in 1 .. MaxConns + 1,
             fault' = "none", lost' \in Nat, fds' = lost' + Queued("connectDestroyed")
      PROVE  IInv'
  <2>1. up' = {} /\ Cardinality(up') = 0
      BY <1>2, <1>4, <1>7
  <2>2. fds' = 0 + 0 + lost' + Queued("connectDestroyed")' /\ fds' \in Nat
      BY <1>3, <1>6, <1>7
  <2>3. Sockets'
      BY <1>4, <2>1, <2>2 DEF Sockets
  <2>4. Single' /\ Faultless'
      BY <1>4, <1>7, <2>1 DEF Single, Faultless
  <2>5. TypeOK'
      BY <1>1, <1>3, <1>7, <2>2 DEF TypeOK
  <2>6. Ids'
    <3>1. nextConnId \in Nat /\ nextConnId' \in Nat /\ nextConnId <= nextConnId'
        BY <1>7, ClientAssumption DEF TypeOK
    <3>2. PICK n : n = nextConnId'
        OBVIOUS
    <3>3. \A i \in 0 .. nextConnId - 1 : i \in 0 .. n - 1
        BY <3>1, <3>2, MoreIds, Zenon
    <3>4. polled' \subseteq 0 .. nextConnId' - 1
        BY <1>1, <3>2, <3>3 DEF Ids
    <3> QED
        BY <2>1, <3>4 DEF Ids
  <2>7. Later'
      BY <1>1, <1>2, <2>1 DEF Later
  <2>8. Owner'
    <3>1. Timed' + Attempts' = 0
        BY <1>4
    <3>2. alive => connection' = 0
        BY <1>2, <1>7 DEF Owner
    <3>3. /\ alive => guardTimer' = "none" /\ Queued("forceCloseInLoop")' = 0
          /\ alive' = alive
        BY <1>1, <1>3 DEF Owner
    <3> QED
        BY <2>1, <3>1, <3>2, <3>3 DEF Owner
  <2> QED
      BY <1>5, <2>3, <2>4, <2>5, <2>6, <2>7, <2>8
<1>8. CASE ~wanted
  <2>1. fds' = fds - 1 /\ UNCHANGED <<connection, nextConnId, up, own, lost, fault>>
      BY <1>8 DEF HandleWrite, connVars
  <2>2. fds' = lost' + Queued("connectDestroyed") /\ lost' \in Nat
      BY <1>6, <2>1
  <2>3. nextConnId' \in {nextConnId, nextConnId + 1} /\ nextConnId' \in 1 .. MaxConns + 1
      BY <2>1 DEF TypeOK
  <2> QED
      BY <1>7, <2>1, <2>2, <2>3
<1>9. CASE wanted
  <2>1. newConnection /\ fds' = fds
      BY <1>9 DEF HandleWrite
  <2>2. alive
    <3>1. ~(~wanted \/ Timed + Attempts = 0)
        BY <1>4, <1>9
    <3> QED
        BY <3>1 DEF Owner
  <2>3. fault' = "none" /\ nextConnId <= MaxConns
      BY <2>1, <2>2 DEF newConnection
  <2>4. nextConnId + 1 \in 1 .. MaxConns + 1 /\ nextConnId \in 1 .. MaxConns
      BY <2>3, ClientAssumption DEF TypeOK
  <2>5. CASE /\ lost' = lost + 1 /\ UNCHANGED <<connection, connVars>>
             /\ nextConnId' \in {nextConnId, nextConnId + 1}
    <3>1. fds' = lost' + Queued("connectDestroyed") /\ lost' \in Nat
        BY <1>6, <2>1, <2>5
    <3>2. nextConnId' \in 1 .. MaxConns + 1
        BY <2>4, <2>5 DEF TypeOK
    <3> QED
        BY <1>7, <2>3, <2>5, <3>1, <3>2 DEF connVars
  <2>6. CASE /\ connection' = nextConnId /\ nextConnId' = nextConnId + 1
             /\ up' = up \cup {nextConnId} /\ own' = own \cup {nextConnId}
             /\ UNCHANGED lost
    <3>1. up' = {nextConnId} /\ Cardinality(up') = 1
        BY <1>2, <2>6, FS_Singleton, Zenon
    <3>2. fds' = 0 + 1 + lost' + Queued("connectDestroyed")' /\ fds' \in Nat
        BY <1>3, <1>6, <2>1, <2>6
    <3>3. Sockets'
        BY <1>4, <3>1, <3>2 DEF Sockets
    <3>4. Single' /\ Faultless'
        BY <1>4, <2>3, <3>1 DEF Single, Faultless
    <3>5. TypeOK'
      <4>1. /\ connection' \in 0 .. MaxConns /\ nextConnId' \in 1 .. MaxConns + 1
            /\ up' \subseteq 1 .. MaxConns /\ own' \subseteq 1 .. MaxConns
          BY <2>4, <2>6, <3>1 DEF TypeOK
      <4> QED
          BY <1>1, <1>3, <2>3, <2>6, <3>2, <4>1 DEF TypeOK
    <3>6. Ids' /\ nextConnId \notin polled
      <4>1. nextConnId \in Nat \ {0}
          BY <2>4, ClientAssumption
      <4> QED
          BY <1>1, <2>6, <3>1, <4>1 DEF Ids
    <3>7. Later'
        BY <1>1, <1>2, <3>1, <3>6 DEF Later
    <3>8. Owner'
      <4>1. connection' \in up' /\ \A c \in up' : c = connection' /\ c \in own'
          BY <2>6, <3>1
      <4> QED
          BY <1>1, <1>3, <2>2, <4>1 DEF Owner
    <3> QED
        BY <1>5, <3>3, <3>4, <3>5, <3>6, <3>7, <3>8
  <2> QED
      BY <2>1, <2>5, <2>6 DEF newConnection
<1> QED
    BY <1>8, <1>9
\* A connection closes: no connection is up, and its connectDestroyed is queued.
LEMMA Closes ==
    ASSUME IInv, NEW c \in up, up' = up \ {c},
           pending' = Append(pending, Do("connectDestroyed", c)),
           Count(running', "resetChannel") = Count(running, "resetChannel"),
           Count(running', "connectDestroyed") = Count(running, "connectDestroyed")
    PROVE  /\ up' = {} /\ up \cap {c} = up /\ Cardinality(up) = 1
           /\ state # "kConnecting" /\ retryTimers = [set |-> 0, due |-> 0]
           /\ pending' \in Seq(Functor) /\ called
           /\ Queued("resetChannel")' = Queued("resetChannel")
           /\ Queued("connectDestroyed")' = 1 + Queued("connectDestroyed")
           /\ Count(pending', "forceCloseInLoop") = Count(pending, "forceCloseInLoop")
<1> USE DEF IInv
<1>1. /\ up' = {} /\ up \cap {c} = up /\ Cardinality(up) = 1
      /\ state # "kConnecting" /\ retryTimers = [set |-> 0, due |-> 0]
    BY OneAtATime
<1>2. Do("connectDestroyed", c) \in Functor /\ Do("connectDestroyed", c).op = "connectDestroyed"
  <2>1. c \in 1 .. MaxConns
      BY DEF TypeOK
  <2> QED
      BY <2>1 DEF Do, Functor
<1>3. /\ pending' \in Seq(Functor)
      /\ \A op : Count(pending', op)
                 = Count(pending, op) + IF Do("connectDestroyed", c).op = op THEN 1 ELSE 0
    BY <1>2, Queues
<1>4. Count(pending', "resetChannel") = Count(pending, "resetChannel")
  <2>1. Count(pending, "resetChannel") \in Nat
      BY QueueTypes, Zenon
  <2> QED
      BY <1>2, <1>3, <2>1
<1>5. Count(pending', "connectDestroyed") = Count(pending, "connectDestroyed") + 1
    BY <1>2, <1>3
<1>6. Count(pending', "forceCloseInLoop") = Count(pending, "forceCloseInLoop")
  <2>1. Count(pending, "forceCloseInLoop") \in Nat
      BY QueueTypes, Zenon
  <2> QED
      BY <1>2, <1>3, <2>1
<1>7. Queued("resetChannel")' = Queued("resetChannel")
    BY <1>4 DEF Queued
<1>8. Queued("connectDestroyed")' = 1 + Queued("connectDestroyed")
    BY <1>5, QueueTypes DEF Queued
<1>9. called
    BY DEF Fresh, TypeOK
<1> QED
    BY <1>1, <1>3, <1>6, <1>7, <1>8, <1>9

\* ... and the Connector is left alone.
LEMMA ClosesQuietly ==
    ASSUME IInv, fault = "none", NEW c \in up, up' = up \ {c}, own' = own,
           pending' = Append(pending, Do("connectDestroyed", c)),
           running' \in Seq(Functor), phase' = phase, polled' = polled,
           phase = "dispatch" => running' = <<>>,
           Count(running', "resetChannel") = Count(running, "resetChannel"),
           Count(running', "connectDestroyed") = Count(running, "connectDestroyed"),
           alive => Count(running', "forceCloseInLoop") = Count(running, "forceCloseInLoop"),
           UNCHANGED <<wanted, state, channel, delay, alive, retry_, connect_, nextConnId>>,
           UNCHANGED <<retryTimers, guardTimer, called, stops, stopped, gaveUp, fds, lost, fault>>,
           connection' \in {0, connection}, alive => connection' = 0
    PROVE  IInv'
<1> USE DEF IInv
<1>1. /\ up' = {} /\ Cardinality(up) = 1
      /\ state # "kConnecting" /\ retryTimers = [set |-> 0, due |-> 0]
      /\ pending' \in Seq(Functor) /\ called
      /\ Queued("resetChannel")' = Queued("resetChannel")
      /\ Queued("connectDestroyed")' = 1 + Queued("connectDestroyed")
      /\ Count(pending', "forceCloseInLoop") = Count(pending, "forceCloseInLoop")
    BY Closes
<1>2. Cardinality(up') = 0
    BY <1>1, FS_EmptySet, Zenon
<1>3. Timed' = 0 /\ Timed = 0 /\ Attempts' = 0 /\ Attempts = 0
    BY <1>1 DEF Timed, Attempts
<1>4. Sockets'
  <2>1. fds = 0 + 1 + lost + Queued("connectDestroyed")
      BY <1>1, <1>3, Zenon DEF Sockets
  <2>2. lost \in Nat /\ Queued("connectDestroyed") \in Nat
      BY QueueTypes, Zenon DEF TypeOK
  <2>3. fds' = 0 + 0 + lost' + Queued("connectDestroyed")'
    <3>1. \A m, n \in Nat : 0 + 1 + m + n = 0 + 0 + m + (1 + n)
      BY ONLY TRUE
    <3>2. /\ fds' = fds /\ lost' = lost
          /\ Queued("connectDestroyed")' = 1 + Queued("connectDestroyed")
      BY <1>1
    <3>3. PICK m \in Nat, n \in Nat : m = lost /\ n = Queued("connectDestroyed")
      BY <2>2, Zenon
    <3>4. fds' = 0 + 1 + m + n /\ 0 + 1 + m + n = 0 + 0 + m + (1 + n)
      BY <2>1, <3>1, <3>2, <3>3, Zenon
    <3> QED
      BY ONLY <3>2, <3>3, <3>4, Zenon
  <2> QED
      BY <1>2, <1>3, <2>3 DEF Sockets
<1>5. Single' /\ Faultless'
    BY <1>2, <1>3 DEF Single, Faultless
<1>6. Channels' /\ Ids'
    BY <1>1 DEF Channels, Ids
<1>7. TypeOK'
  <2>1. connection' \in 0 .. MaxConns
      BY ClientAssumption DEF TypeOK
  <2>2. TypeOK
      BY Zenon
  <2>3. up' \subseteq 1 .. MaxConns
      BY <1>1, Zenon
  <2> HIDE DEF IInv
  <2> QED
      BY <1>1, <2>1, <2>2, <2>3 DEF TypeOK
<1>8. Later' /\ Fresh'
    BY <1>1 DEF Later, Fresh
<1>9. Owner'
  <2>1. alive => Queued("forceCloseInLoop")' = Queued("forceCloseInLoop")
      BY <1>1, Zenon DEF Queued
  <2>2. alive => guardTimer' = "none" /\ Queued("forceCloseInLoop")' = 0
      BY <2>1 DEF Owner
  <2>3. Timed' + Attempts' = 0
      BY <1>3
  <2> QED
      BY <1>1, <2>2, <2>3, Zenon DEF Owner
<1> QED
    BY <1>4, <1>5, <1>6, <1>7, <1>8, <1>9
\* forceCloseInLoop is queued by ~TcpClient only.
LEMMA ForcedByDestroy == ASSUME IInv, Runs("forceCloseInLoop") PROVE ~alive
<1> USE DEF IInv
<1>1. /\ running' \in Seq(Functor)
      /\ \A o : Count(running, o) = Count(running', o) + IF "forceCloseInLoop" = o THEN 1 ELSE 0
    BY Takes
<1>2. /\ Count(running, "forceCloseInLoop") = Count(running', "forceCloseInLoop") + 1
      /\ Count(running', "forceCloseInLoop") \in Nat
      /\ Count(pending, "forceCloseInLoop") \in Nat
    BY <1>1, CountType, QueueTypes
<1>3. Queued("forceCloseInLoop") # 0
    BY <1>2 DEF Queued
<1> QED
    BY <1>3 DEF Owner

\* So the connection that it closes calls nobody back.
LEMMA ForceCloseInLoopInv == ASSUME IInv, fault = "none", ForceCloseInLoop PROVE IInv'
<1> USE DEF IInv
<1>1. /\ Runs("forceCloseInLoop")
      /\ UNCHANGED <<alive, retry_, connect_, nextConnId, own, guardTimer, called, stops>>
      /\ UNCHANGED <<stopped, lost>>
    BY DEF ForceCloseInLoop, callVars
<1>2. /\ running' \in Seq(Functor) /\ phase = "functors" /\ phase' = phase
      /\ polled' = polled
      /\ \A o : Count(running, o) = Count(running', o) + IF "forceCloseInLoop" = o THEN 1 ELSE 0
    BY <1>1, Takes
<1>3. Count(running', "resetChannel") = Count(running, "resetChannel")
    BY <1>2, CountType
<1>4. Count(running', "connectDestroyed") = Count(running, "connectDestroyed")
    BY <1>2, CountType
<1>5. ~alive
    BY <1>1, ForcedByDestroy
<1>6. CASE Head(running).conn \in up
  <2>1. PICK c : c = Head(running).conn
      OBVIOUS
  <2>2. c \in up /\ c \notin own /\ Close(c)
      BY <1>5, <1>6, <2>1 DEF ForceCloseInLoop, Owner
  <2>3. /\ up' = up \ {c} /\ pending' = Append(pending, Do("connectDestroyed", c))
        /\ UNCHANGED <<wanted, state, channel, delay, connection, retryTimers, gaveUp, fds, fault>>
      BY <2>2 DEF Close, connectorVars
  <2> QED
      BY <1>1, <1>2, <1>3, <1>4, <1>5, <2>2, <2>3, ClosesQuietly, Zenon
<1>7. CASE Head(running).conn \notin up
  <2>1. /\ UNCHANGED <<wanted, state, channel, delay, connection, retryTimers, gaveUp, fds>>
        /\ UNCHANGED <<fault, up, pending>>
      BY <1>7 DEF ForceCloseInLoop, connectorVars
  <2>2. Timed' = Timed /\ Attempts' = Attempts
      BY <2>1 DEF Timed, Attempts
  <2>3. /\ Queued("connectDestroyed")' = Queued("connectDestroyed")
        /\ Queued("resetChannel")' = Queued("resetChannel")
      BY <1>3, <1>4, <2>1 DEF Queued
  <2>4. Single' /\ Sockets' /\ Channels'
      BY <1>1, <2>1, <2>2, <2>3, CoreKept
  <2>5. TypeOK'
      BY <1>1, <1>2, <2>1 DEF TypeOK
  <2>6. Ids' /\ Faultless'
      BY <1>1, <1>2, <2>1 DEF Ids, Faultless
  <2>7. Later'
      BY <1>2, <2>1 DEF Later
  <2>8. Fresh' /\ Owner'
      BY <1>1, <1>5, <2>1, <2>2 DEF Fresh, Owner
  <2> QED
      BY <2>4, <2>5, <2>6, <2>7, <2>8
<1> QED
    BY <1>6, <1>7

LEMMA PeerClosesInv ==
    ASSUME IInv, fault = "none", NEW c \in up, PeerCloses(c)
    PROVE  IInv'
<1> USE DEF IInv
<1>1. /\ phase = "dispatch" /\ c \in polled
      /\ UNCHANGED <<alive, retry_, connect_, nextConnId, own, phase, polled, running>>
      /\ UNCHANGED <<guardTimer, called, stops, stopped, lost>>
      /\ up' = up \ {c} /\ pending' = Append(pending, Do("connectDestroyed", c))
    BY DEF PeerCloses, Dispatching, Close, callVars
<1>2. running = <<>> /\ running \in Seq(Functor) /\ channel # "off"
    BY <1>1 DEF Later, TypeOK
<1>3. CASE UNCHANGED <<connectorVars, retryTimers, gaveUp, fds, fault>>
           /\ connection' \in {0, connection} /\ (alive => connection' = 0)
  <2>1. UNCHANGED <<wanted, state, channel, delay, retryTimers, gaveUp, fds, fault>>
      BY <1>3 DEF connectorVars
  <2> QED
      BY <1>1, <1>2, <1>3, <2>1, ClosesQuietly, Zenon
<1>4. CASE alive /\ connection' = 0 /\ Restart
  <2>1. /\ up' = {} /\ Cardinality(up) = 1
        /\ state # "kConnecting" /\ retryTimers = [set |-> 0, due |-> 0]
        /\ pending' \in Seq(Functor) /\ called
        /\ Queued("resetChannel")' = Queued("resetChannel")
        /\ Queued("connectDestroyed")' = 1 + Queued("connectDestroyed")
        /\ Count(pending', "forceCloseInLoop") = Count(pending, "forceCloseInLoop")
      BY <1>1, Closes, Zenon
  <2>2. channel = "none"
      BY <1>2, <2>1 DEF Channels, TypeOK
  <2>3. wanted' = TRUE /\ startInLoop("kDisconnected", TRUE, InitDelay, retryTimers)
      BY <1>4, Zenon DEF Restart
  <2>4. Started(TRUE)
    <3>1. fds \in Nat /\ gaveUp \in BOOLEAN /\ InitDelay \in InitDelay .. MaxDelay
        BY ClientAssumption DEF TypeOK
    <3> QED
        BY <2>1, <2>2, <2>3, <3>1, StartOutcome, Zenon
  <2>5. Cardinality(up) + Queued("connectDestroyed") = Queued("connectDestroyed")'
      BY <2>1
  <2>6. /\ Single' /\ Sockets' /\ Channels' /\ fds' \in Nat
        /\ retryTimers' \in [set : 0 .. 2, due : 0 .. 2] /\ retryTimers'.due = 0
      BY <1>1, <2>1, <2>2, <2>4, <2>5, AfterStart, Zenon
  <2>7. TypeOK' /\ Faultless'
    <3>1. /\ state' \in {"kConnecting", "kDisconnected"} /\ channel' \in {"on", "none"}
          /\ delay' \in InitDelay .. MaxDelay /\ gaveUp' \in BOOLEAN
          /\ fault' \in {"none", "assert"} /\ (alive' => fault' = "none")
        BY <2>2, <2>4 DEF Started
    <3>2. connection' \in 0 .. MaxConns
        BY <1>4, ClientAssumption
    <3>3. wanted' \in BOOLEAN /\ up' \subseteq 1 .. MaxConns
        BY <2>1, <2>3
    <3> QED
        BY <1>1, <2>1, <2>6, <3>1, <3>2, <3>3, Zenon DEF TypeOK, Faultless
  <2>8. Ids' /\ Fresh'
      BY <1>1, <2>1 DEF Ids, Fresh
  <2>9. Later'
      BY <1>1, <1>2, <2>1, <2>6 DEF Later
  <2>10. Owner'
    <3>1. Queued("forceCloseInLoop")' = Queued("forceCloseInLoop")
        BY <1>1, <2>1 DEF Queued
    <3> QED
        BY <1>1, <1>4, <2>1, <3>1 DEF Owner
  <2> QED
      BY <2>6, <2>7, <2>8, <2>9, <2>10
<1>5. CASE alive
  <2>1. c \in own /\ connection = c
      BY <1>5 DEF Owner
  <2>2. removeConnection(c)
      BY <2>1 DEF PeerCloses, Close
  <2>3. /\ connection' = 0
        /\ Restart \/ UNCHANGED <<connectorVars, retryTimers, gaveUp, fds, fault>>
      BY <1>5, <2>1, <2>2 DEF removeConnection
  <2> QED
      BY <1>3, <1>4, <1>5, <2>3
<1>6. CASE ~alive
  <2>1. c \notin own
      BY <1>6 DEF Owner
  <2>2. UNCHANGED <<connectorVars, connection, retryTimers, gaveUp, fds, fault>>
      BY <2>1 DEF PeerCloses, Close
  <2> QED
      BY <1>3, <1>6, <2>2
<1> QED
    BY <1>5, <1>6
----------------------------------------------------------------------------
(* The theorems.                                                           *)

LEMMA StepIInv ==
    ASSUME IInv, [Next]_vars
    PROVE  IInv' \/ (Overtaken' /\ RetryTimer /\ channel = "off")
<1>1. CASE Next
  <2> USE <1>1 DEF Next
  <2>1. CASE Functors
      BY <2>1, SwapFunctorsInv, PollInv, ResetChannelInv, StopInLoopInv, ConnectDestroyedInv,
         ForceCloseInLoopInv DEF Functors
  <2>2. CASE Timers
      BY <2>2, ElapseInv, RetryTimerInv, GuardTimerInv DEF Timers
  <2>3. CASE Attempt
      BY <2>3, AttemptFailsInv, HandleWriteInv DEF Attempt
  <2>4. CASE Calls
      BY <2>4, ConnectInv, StopInv, FlagsInv, DestroyInv DEF Calls
  <2>5. CASE \E c \in up : PeerCloses(c)
      BY <2>5, PeerClosesInv
  <2> QED
      BY <2>1, <2>2, <2>3, <2>4, <2>5
<1>2. CASE UNCHANGED vars
  <2>1. /\ UNCHANGED <<wanted, state, channel, delay, alive, retry_, connect_, connection>>
        /\ UNCHANGED <<nextConnId, up, own, phase, polled, pending, running, retryTimers>>
        /\ UNCHANGED <<guardTimer, called, stops, stopped, gaveUp, fds, lost, fault>>
      BY <1>2 DEF vars, connectorVars, clientVars, connVars, loopVars, timerVars, callVars
  <2>2. TypeOK' /\ Faultless' /\ Ids'
      BY <2>1 DEF IInv, TypeOK, Faultless, Ids
  <2>3. Timed' = Timed /\ Attempts' = Attempts
      BY <2>1 DEF Timed, Attempts
  <2>4. /\ Queued("connectDestroyed")' = Queued("connectDestroyed")
        /\ Queued("resetChannel")' = Queued("resetChannel")
        /\ Queued("forceCloseInLoop")' = Queued("forceCloseInLoop")
      BY <2>1 DEF Queued
  <2>5. Single' /\ Sockets' /\ Channels'
      BY <2>1, <2>3, <2>4, CoreKept
  <2>6. Later'
      BY <2>1 DEF IInv, Later
  <2>7. Fresh' /\ Owner'
      BY <2>1, <2>3, <2>4, Zenon DEF IInv, Fresh, Owner
  <2> QED
      BY <2>2, <2>5, <2>6, <2>7 DEF IInv
<1> QED
    BY <1>1, <1>2

\* After the failed assertion nothing happens any more.
LEMMA StepOvertaken ==
    ASSUME Overtaken, [Next]_vars
    PROVE  Overtaken' /\ UNCHANGED vars
<1>1. UNCHANGED vars
    BY DEF Overtaken, Next
<1>2. /\ UNCHANGED <<wanted, state, channel, delay, alive, retry_, connect_, connection>>
      /\ UNCHANGED <<nextConnId, up, own, phase, polled, pending, running, retryTimers>>
      /\ UNCHANGED <<guardTimer, called, stops, stopped, gaveUp, fds, lost, fault>>
    BY <1>1 DEF vars, connectorVars, clientVars, connVars, loopVars, timerVars, callVars
<1>3. TypeOK' /\ fault' = "assert"
    BY <1>2 DEF Overtaken, TypeOK
<1>4. /\ Timed' = Timed /\ Attempts' = Attempts
      /\ Queued("connectDestroyed")' = Queued("connectDestroyed")
    BY <1>2 DEF Timed, Attempts, Queued
<1>5. Single' /\ Sockets'
    BY <1>2, <1>4 DEF Overtaken, Single, Sockets
<1> QED
    BY <1>1, <1>3, <1>5 DEF Overtaken

LEMMA AlwaysIInv == Spec => [](IInv \/ Overtaken)
<1>1. Init => IInv
    BY InitIInv
<1>2. (IInv \/ Overtaken) /\ [Next]_vars => (IInv \/ Overtaken)'
    BY StepIInv, StepOvertaken
<1> QED
    BY <1>1, <1>2, PTL DEF Spec

\* While the client exists no assertion of Connector and TcpClient fails but that
\* of connecting(), in a retry timer that expires before the resetChannel of the
\* attempt before it has run: every other startInLoop finds kDisconnected and no
\* channel, and removeConnection is called for the client's connection.  Once the
\* client is destroyed, neither newConnection nor removeConnection is called on it.
THEOREM ClientNoFault == Spec => NoFault
<1> DEFINE Allowed == /\ fault' # "client"
                      /\ alive' /\ fault' = "assert" => RetryTimer /\ channel = "off"
<1>1. IInv /\ [Next]_vars => Allowed
  <2> SUFFICES ASSUME IInv, [Next]_vars PROVE Allowed
      OBVIOUS
  <2>1. CASE IInv'
      BY <2>1 DEF IInv, Faultless
  <2>2. CASE Overtaken' /\ RetryTimer /\ channel = "off"
      BY <2>2 DEF Overtaken
  <2> QED
      BY <2>1, <2>2, StepIInv
<1>2. Overtaken /\ [Next]_vars => UNCHANGED vars
    BY StepOvertaken
<1>3. (IInv \/ Overtaken) /\ [Next]_vars => [Allowed]_vars
    BY <1>1, <1>2
<1>4. Spec => [][Allowed]_vars
    BY <1>3, AlwaysIInv, PTL DEF Spec
<1> QED
    BY <1>4 DEF NoFault

\* The client is after its server with one retry timer, one attempt or one
\* connection at a time, and every socket that Connector::connect opened is that
\* of the attempt or the connection, awaits connectDestroyed, is closed, or is
\* one that newConnection returned early on.
THEOREM ClientFdsAccounted == Spec => []FdsAccounted
<1>1. ASSUME IInv \/ Overtaken PROVE FdsAccounted
  <2>1. TypeOK
      BY <1>1 DEF IInv, Overtaken
  <2>2. retryTimers.set + retryTimers.due + Attempts + Cardinality(up) <= 1
      BY <1>1 DEF IInv, Overtaken, Single, Timed
  <2>3. fds = Attempts + Cardinality(up) + lost
              + (Count(pending, "connectDestroyed") + Count(running, "connectDestroyed"))
      BY <1>1 DEF IInv, Overtaken, Sockets, Queued
  <2>4. /\ Attempts \in {0, 1} /\ Cardinality(up) \in Nat /\ lost \in Nat
        /\ Count(pending, "connectDestroyed") \in Nat
        /\ Count(running, "connectDestroyed") \in Nat
      BY <2>1, UpFinite, QueueTypes, Zenon DEF Attempts, TypeOK
  <2>5. fds = Attempts + Cardinality(up) + lost + Count(pending, "connectDestroyed")
              + Count(running, "connectDestroyed")
      BY <2>3, <2>4
  <2> QED
      BY <2>1, <2>2, <2>5 DEF FdsAccounted, Attempts, Count
<1> QED
    BY <1>1, AlwaysIInv, PTL

\* When its connection closes, a client with retry enabled is after the next one
\* in the same step, unless connect(2) fails for good.
THEOREM ClientRedials == Spec => [][Redials]_vars
<1>1. ASSUME IInv, Next PROVE Redials
  <2> SUFFICES ASSUME up # {}, up' = {}, alive, retry_, connect_
               PROVE  Pursuing' \/ gaveUp'
      BY DEF Redials
  <2>1. ~Functors
    <3>1. ~ForceCloseInLoop
        BY <1>1, ForcedByDestroy, Zenon DEF ForceCloseInLoop
    <3> QED
        BY <3>1, Zenon DEF Functors, SwapFunctors, Poll, ResetChannel, StopInLoop, ConnectDestroyed,
                    connVars
  <2>2. ~Timers
      BY Zenon DEF Timers, Elapse, RetryTimer, GuardTimer, connVars
  <2>3. ~Attempt
      BY Zenon DEF Attempt, AttemptFails, HandleWrite, newConnection, connVars
  <2>4. ~Calls
      BY Zenon DEF Calls, Connect, Stop, Disconnect, EnableRetry, Destroy, connVars
  <2>5. PICK c \in up : PeerCloses(c)
      BY <1>1, <2>1, <2>2, <2>3, <2>4 DEF Next
  <2>6. connection = c /\ c \in own /\ channel # "off"
      BY <1>1, <2>5 DEF IInv, Owner, Later, PeerCloses, Dispatching
  <2>7. removeConnection(c)
      BY <2>5, <2>6 DEF PeerCloses, Close
  <2>8. startInLoop("kDisconnected", TRUE, InitDelay, retryTimers)
      BY <2>6, <2>7, Zenon DEF removeConnection, Restart
  <2>9. retryTimers = [set |-> 0, due |-> 0] /\ channel = "none"
      BY <1>1, <2>6, OneAtATime, Zenon DEF IInv, Channels, TypeOK
  <2>10. fds \in Nat /\ gaveUp \in BOOLEAN /\ InitDelay \in InitDelay .. MaxDelay
      BY <1>1, ClientAssumption DEF IInv, TypeOK
  <2>11. Started(TRUE)
      BY <2>8, <2>9, <2>10, StartOutcome, Zenon
  <2> QED
      BY <2>11 DEF Started, Pursuing
<1>2. Overtaken => ~Next
    BY DEF Overtaken, Next
<1>3. (IInv \/ Overtaken) /\ [Next]_vars => [Redials]_vars
    BY <1>1, <1>2
<1> QED
    BY <1>3, AlwaysIInv, PTL DEF Spec
=============================================================================
