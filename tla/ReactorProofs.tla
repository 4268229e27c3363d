--------------------------- MODULE ReactorProofs ---------------------------
(***************************************************************************)
(* The two parts of the reactor that an EventLoop waits with: TimerQueue   *)
(* and the pollers.                                                        *)
(*                                                                         *)
(* TimerQueue for any threads, addresses, delays and intervals: the two    *)
(* sets agree, the timerfd is armed for the earliest Timer, and a cancel   *)
(* that found its Timer is final.  A live Timer has one home: the queue,   *)
(* the batch of handleRead, or a functor that adds it.                     *)
(***************************************************************************)
EXTENDS TimerQueue, Pollers, TLAPS

\* The functors in the order they will run, and the Timers they add.
Work == functors \o pending
AddsOf(s) == {s[i].timer : i \in {j \in 1 .. Len(s) : s[j].op = "add"}}
OnceIn(s) ==
    \A i, j \in 1 .. Len(s) :
        s[i].op = "add" /\ s[j].op = "add" /\ s[i].timer = s[j].timer => i = j

\* Where the live Timers are.
InQueue == {e.timer : e \in timers}
InBatch == {e.timer : e \in expired}
InWork == AddsOf(Work)
Alive == {a \in Addrs : heap[a] # NoTimer}

\* Every live Timer is in exactly one place, and both sets say the same of those
\* in the queue.
Homes ==
    /\ timers = {EntryOf(heap, a) : a \in InQueue}
    /\ activeTimers = {ActiveTimer(heap, a) : a \in InQueue}
    /\ Alive = InQueue \cup InBatch \cup InWork
    /\ InQueue \cap InBatch = {} /\ InQueue \cap InWork = {} /\ InBatch \cap InWork = {}
    /\ OnceIn(Work)

\* There is a batch only inside handleRead.
Phases ==
    /\ calling = TRUE <=> phase \in {"calling", "callback"}
    /\ calling = FALSE => expired = {}

\* Live Timers have different sequences, and the next one is new.
Numbered ==
    /\ \A a \in Alive : heap[a].sequence <= numCreated
    /\ \A a, b \in Alive : heap[a].sequence = heap[b].sequence => a = b
    /\ \A s \in stopped : s <= numCreated

\* A Timer that a cancel has found is dead, or reset will find it in
\* cancelingTimers_.
Cancelled ==
    /\ \A a \in InQueue \cup InWork : heap[a].sequence \notin stopped
    /\ \A a \in InBatch :
          heap[a].sequence \in stopped => ActiveTimer(heap, a) \in cancelingTimers

\* The inductive invariant.
IInv == TypeOK /\ Homes /\ Phases /\ Numbered /\ Cancelled /\ Armed

----------------------------------------------------------------------------
(* Functors.                                                               *)

\* A functor adds a Timer or cancels one.
LEMMA FunctorType ==
    ASSUME NEW f \in Functor
    PROVE  /\ f.op = "add" => f.timer \in Addrs
           /\ f.op # "add" => f.op = "cancel" /\ f.id \in TimerId
  BY DEF Functor

\* Queueing a functor.
LEMMA AddsAppend ==
    ASSUME NEW s \in Seq(Functor), NEW f \in Functor, OnceIn(s),
           f.op = "add" => f.timer \notin AddsOf(s)
    PROVE  /\ AddsOf(Append(s, f)) = IF f.op = "add" THEN AddsOf(s) \cup {f.timer} ELSE AddsOf(s)
           /\ OnceIn(Append(s, f))
  <1> DEFINE t == Append(s, f)
  <1>1. /\ Len(s) \in Nat /\ Len(t) = Len(s) + 1 /\ t[Len(s) + 1] = f
        /\ \A i \in 1 .. Len(s) : t[i] = s[i]
    OBVIOUS
  <1> HIDE DEF t
  <1>2. \A i \in 1 .. Len(t) : i \in 1 .. Len(s) \/ i = Len(s) + 1
    BY <1>1
  <1>3. 1 .. Len(s) \subseteq 1 .. Len(t) /\ Len(s) + 1 \in 1 .. Len(t)
    BY <1>1
  <1>4. AddsOf(t) = IF f.op = "add" THEN AddsOf(s) \cup {f.timer} ELSE AddsOf(s)
    BY <1>1, <1>2, <1>3 DEF AddsOf
  <1>5. ASSUME NEW i \in 1 .. Len(t), NEW j \in 1 .. Len(t),
               t[i].op = "add", t[j].op = "add", t[i].timer = t[j].timer
        PROVE  i = j
    <2>1. CASE i \in 1 .. Len(s) /\ j \in 1 .. Len(s)
      BY <1>1, <1>5, <2>1 DEF OnceIn
    <2>2. CASE i \in 1 .. Len(s) /\ j = Len(s) + 1
      BY <1>1, <1>5, <2>2 DEF AddsOf
    <2>3. CASE j \in 1 .. Len(s) /\ i = Len(s) + 1
      BY <1>1, <1>5, <2>3 DEF AddsOf
    <2> QED
      BY <1>2, <2>1, <2>2, <2>3
  <1>6. OnceIn(t)
    BY <1>5 DEF OnceIn
  <1> QED
    BY <1>4, <1>6 DEF t

\* Taking the first functor.
LEMMA AddsTail ==
    ASSUME NEW s \in Seq(Functor), s # <<>>, OnceIn(s)
    PROVE  /\ AddsOf(Tail(s)) = IF Head(s).op = "add" THEN AddsOf(s) \ {Head(s).timer}
                                ELSE AddsOf(s)
           /\ OnceIn(Tail(s))
           /\ Head(s).op = "add" => Head(s).timer \in AddsOf(s)
  <1> DEFINE t == Tail(s)
  <1>1. /\ Len(s) \in Nat \ {0} /\ Len(t) = Len(s) - 1 /\ Head(s) = s[1]
        /\ \A i \in 1 .. Len(t) : t[i] = s[i + 1]
    OBVIOUS
  <1> HIDE DEF t
  <1>2. \A i \in 1 .. Len(t) : i + 1 \in 1 .. Len(s) /\ i + 1 # 1
    BY <1>1
  <1>3. \A i \in 1 .. Len(s) : i # 1 => i - 1 \in 1 .. Len(t) /\ t[i - 1] = s[i]
    BY <1>1
  <1>4. 1 \in 1 .. Len(s)
    BY <1>1
  <1>5. \A a \in AddsOf(t) : a \in AddsOf(s) /\ (s[1].op = "add" => a # s[1].timer)
    <2> SUFFICES ASSUME NEW i \in 1 .. Len(t), t[i].op = "add"
                 PROVE  t[i].timer \in AddsOf(s) /\ (s[1].op = "add" => t[i].timer # s[1].timer)
      BY DEF AddsOf
    <2> QED
      BY <1>1, <1>2, <1>4 DEF AddsOf, OnceIn
  <1>6. \A a \in AddsOf(s) : a \in AddsOf(t) \/ (s[1].op = "add" /\ a = s[1].timer)
    BY <1>1, <1>3 DEF AddsOf
  <1>7. OnceIn(t)
    <2> SUFFICES ASSUME NEW i \in 1 .. Len(t), NEW j \in 1 .. Len(t), t[i].op = "add",
                        t[j].op = "add", t[i].timer = t[j].timer
                 PROVE  i = j
      BY Zenon DEF OnceIn
    <2>1. i + 1 = j + 1
      BY <1>1, <1>2, Zenon DEF OnceIn
    <2> QED
      BY <2>1
  <1>8. s[1].op = "add" => s[1].timer \in AddsOf(s)
    BY <1>4 DEF AddsOf
  <1> QED
    BY <1>1, <1>5, <1>6, <1>7, <1>8, Zenon DEF t

\* The functors at work are well typed.
LEMMA WorkType ==
    ASSUME TypeOK
    PROVE  Work \in Seq(Functor)
  BY DEF TypeOK, Work

\* InWork is the set of Timers that SetsAgree calls queued.
LEMMA QueuedIsWork ==
    ASSUME TypeOK
    PROVE  InWork = {f.timer : f \in Queued}
  <1>1. /\ functors \in Seq(Functor) /\ pending \in Seq(Functor)
        /\ Len(functors) \in Nat /\ Len(pending) \in Nat
        /\ DOMAIN functors = 1 .. Len(functors) /\ DOMAIN pending = 1 .. Len(pending)
        /\ Len(Work) = Len(functors) + Len(pending)
        /\ \A i \in 1 .. Len(functors) : Work[i] = functors[i]
        /\ \A i \in 1 .. Len(pending) : Work[Len(functors) + i] = pending[i]
    BY DEF TypeOK, Work
  <1>2. \A i \in 1 .. Len(Work) :
            \/ i \in 1 .. Len(functors)
            \/ i - Len(functors) \in 1 .. Len(pending) /\ Work[i] = pending[i - Len(functors)]
    BY <1>1
  <1>3. ASSUME NEW i \in 1 .. Len(Work), Work[i].op = "add" PROVE Work[i] \in Queued
    BY <1>1, <1>2, <1>3 DEF Queued
  <1>4. ASSUME NEW f \in Queued PROVE \E i \in 1 .. Len(Work) : Work[i] = f /\ f.op = "add"
    <2>1. CASE \E i \in 1 .. Len(functors) : f = functors[i]
      BY <1>1, <2>1 DEF Queued
    <2>2. CASE \E i \in 1 .. Len(pending) : f = pending[i]
      <3>1. PICK i \in 1 .. Len(pending) : f = pending[i]
        BY <2>2
      <3>2. Len(functors) + i \in 1 .. Len(Work)
        BY <1>1
      <3> QED
        BY <1>1, <3>1, <3>2 DEF Queued
    <2> QED
      BY <1>1, <2>1, <2>2 DEF Queued
  <1> QED
    BY <1>3, <1>4 DEF InWork, AddsOf

----------------------------------------------------------------------------
(* Types.                                                                  *)

\* What a live Timer and the entries of the queue hold.
LEMMA TimerType ==
    ASSUME NEW t \in Timer
    PROVE  /\ t # NoTimer
           /\ t.sequence \in Sequences /\ t.expiration \in Time /\ t.interval \in Time
  <1>1. t.sequence \in Sequences /\ t.expiration \in Time /\ t.interval \in {0} \cup Intervals
    BY DEF Timer
  <1>2. {0} \cup Intervals \subseteq Time /\ Time \subseteq Nat /\ Sequences \subseteq Nat
    BY TimeAssumption DEF Sequences, Time
  <1>3. t \in [sequence : Nat, expiration : Nat, interval : Nat]
    BY <1>1, <1>2, Zenon DEF Timer
  <1> QED
    BY <1>1, <1>2, <1>3, TimeAssumption

\* The bounds are numbers.
LEMMA Numbers ==
    /\ MaxTime \in Nat \ {0} /\ MaxTimers \in Nat /\ Time \subseteq Nat /\ Sequences \subseteq Nat
    /\ 0 \in Time /\ 1 \in Time /\ Off \notin Time /\ Off < 0
  BY TimeAssumption DEF Time, Sequences, Off

\* A live Timer is a Timer.
LEMMA AliveType ==
    ASSUME TypeOK, NEW a \in Alive
    PROVE  /\ a \in Addrs /\ heap[a] \in Timer
           /\ EntryOf(heap, a) \in Entry /\ ActiveTimer(heap, a) \in TimerId
  <1>1. a \in Addrs /\ heap[a] \in Timer
    BY DEF TypeOK, Alive
  <1> QED
    BY <1>1, TimerType DEF EntryOf, ActiveTimer, Entry, TimerId

\* resetTimerfd arms for a time in the future.
LEMMA AlarmType ==
    ASSUME NEW when \in Time
    PROVE  resetTimerfd(when) \in Time /\ resetTimerfd(when) = Larger(when, 1)
  BY Numbers DEF resetTimerfd, Larger, Time

\* new Timer puts one with a new sequence at a free address.
LEMMA NewTimerOK ==
    ASSUME TypeOK, NEW a \in Addrs, \E r \in Requests : NewTimer(a, r[1], r[2])
    PROVE  /\ a \notin Alive /\ numCreated' = numCreated + 1 /\ numCreated' \in 0 .. MaxTimers
           /\ heap' \in [Addrs -> Timer \cup {NoTimer}]
           /\ heap'[a] \in Timer /\ heap'[a].sequence = numCreated + 1
           /\ \A b \in Addrs : b # a => heap'[b] = heap[b]
  <1>1. PICK r \in Requests : NewTimer(a, r[1], r[2])
    OBVIOUS
  <1>2. r[1] \in Time /\ r[2] \in {0} \cup Intervals
    <2>1. Delays \subseteq Time /\ Intervals \subseteq Time
      BY TimeAssumption DEF Time
    <2> QED
      BY <2>1 DEF Requests
  <1>3. numCreated \in Nat /\ numCreated < MaxTimers /\ numCreated + 1 \in Sequences
    BY <1>1, Numbers DEF TypeOK, NewTimer, Sequences
  <1> DEFINE t == [sequence |-> numCreated + 1, expiration |-> r[1], interval |-> r[2]]
  <1>4. t \in Timer /\ t.sequence = numCreated + 1
    BY <1>2, <1>3 DEF Timer
  <1>5. heap[a] = NoTimer /\ heap' = [heap EXCEPT ![a] = t] /\ numCreated' = numCreated + 1
    BY <1>1, Zenon DEF NewTimer
  <1>6. numCreated' \in 0 .. MaxTimers
    BY <1>3, <1>5, Numbers
  <1> HIDE DEF t
  <1> QED
    BY <1>4, <1>5, <1>6 DEF TypeOK, Alive

\* addTimerInLoop keeps the queue well typed.
LEMMA AddType ==
    ASSUME TypeOK, NEW a \in Addrs, NEW h, h[a] \in Timer, addTimerInLoop(h, a)
    PROVE  /\ timers' \subseteq Entry /\ activeTimers' \subseteq TimerId
           /\ alarm' \in {Off} \cup Time
  <1>1. h[a].expiration \in Time /\ h[a].sequence \in Sequences
    BY TimerType
  <1>2. EntryOf(h, a) \in Entry /\ ActiveTimer(h, a) \in TimerId
    BY <1>1 DEF EntryOf, ActiveTimer, Entry, TimerId
  <1> QED
    BY <1>1, <1>2, AlarmType DEF TypeOK, addTimerInLoop

\* cancelInLoop does too.
LEMMA CancelType ==
    ASSUME TypeOK, NEW id \in TimerId, cancelInLoop(id)
    PROVE  /\ timers' \subseteq Entry /\ activeTimers' \subseteq TimerId
           /\ cancelingTimers' \subseteq TimerId /\ stopped' \subseteq Sequences
           /\ heap' \in [Addrs -> Timer \cup {NoTimer}] /\ alarm' = alarm
  <1>1. id[1] \in Addrs /\ id[2] \in Sequences
    BY DEF TimerId
  <1> QED
    BY <1>1 DEF TypeOK, cancelInLoop

\* Time that comes closer stays a time.
LEMMA CloserType ==
    ASSUME NEW t \in {Off} \cup Time
    PROVE  /\ Closer(t) \in {Off} \cup Time /\ Closer(t) <= t /\ (t \in Time => Closer(t) \in Time)
           /\ (Closer(t) = Off => t = Off)
  BY Numbers DEF Closer, Time, Off

\* Every step keeps the types.
LEMMA TypeKept ==
    ASSUME IInv, [Next]_vars
    PROVE  TypeOK'
  <1> TypeOK
    BY DEF IInv
  <1>1. CASE UNCHANGED vars
    BY <1>1 DEF TypeOK, vars, queue, batch, loop
  <1>2. CASE Poll \/ CallbackReturns
    BY <1>2 DEF Poll, CallbackReturns, TypeOK, queue, batch
  <1>3. CASE \E e \in toRun : RunCallback(e)
    BY <1>3 DEF RunCallback, TypeOK, queue
  <1>4. CASE HandleRead
    <2>1. getExpired \subseteq Entry /\ 0 \in Time
      BY Numbers DEF getExpired, TypeOK
    <2> QED
      BY <1>4, <2>1 DEF HandleRead, TypeOK
  <1>5. CASE ResetTimers
    <2>1. heap' = [a \in Addrs |-> IF a \in Repeating THEN restart(heap[a])
                                   ELSE IF \E e \in expired : e.timer = a THEN NoTimer
                                   ELSE heap[a]]
      BY <1>5 DEF ResetTimers, reset
    <2>2. ASSUME NEW a \in Repeating
          PROVE  a \in Addrs /\ a \in Alive /\ heap[a] \in Timer /\ restart(heap[a]) \in Timer
      <3>1. a \in Addrs /\ a \in Alive
        BY DEF Repeating, IInv, Homes, InBatch, TypeOK, Entry
      <3>2. heap[a] \in Timer /\ heap[a].interval \in Time /\ late \in Time
        BY <3>1, AliveType, TimerType DEF TypeOK
      <3>3. Larger(heap[a].interval - late, 0) \in Time
        BY <3>2, Numbers DEF Larger, Time
      <3> QED
        BY <3>1, <3>2, <3>3 DEF restart, Timer
    <2>3. heap' \in [Addrs -> Timer \cup {NoTimer}]
      BY <2>1, <2>2 DEF TypeOK
    <2>4. ASSUME NEW a \in Repeating
          PROVE  EntryOf(heap', a) \in Entry /\ ActiveTimer(heap, a) \in TimerId
      <3>1. heap'[a] \in Timer
        BY <2>1, <2>2
      <3> QED
        BY <2>2, <3>1, AliveType, TimerType DEF EntryOf, Entry
    <2>5. timers' \subseteq Entry /\ activeTimers' \subseteq TimerId
      BY <1>5, <2>4, Zenon DEF ResetTimers, reset, TypeOK
    <2>6. alarm' \in {Off} \cup Time
      BY <1>5, <2>5, AlarmType, Zenon DEF ResetTimers, reset, TypeOK, Entry
    <2> QED
      BY <1>5, <2>3, <2>5, <2>6, Numbers, Zenon DEF ResetTimers, TypeOK
  <1>6. CASE SwapFunctors
    BY <1>6 DEF SwapFunctors, TypeOK, queue, batch
  <1>7. CASE RunFunctor
    <2>1. /\ functors # <<>> /\ Head(functors) \in Functor
          /\ functors' \in Seq(Functor) /\ phase' \in {"poll", "functors"}
          /\ UNCHANGED <<numCreated, batch, pending, adding, ids>>
      BY <1>7 DEF RunFunctor, TypeOK
    <2>2. CASE /\ Head(functors).op = "add" /\ addTimerInLoop(heap, Head(functors).timer)
               /\ UNCHANGED <<heap, cancelingTimers, stopped>>
      <3>1. PICK a \in Addrs : a = Head(functors).timer
        BY <2>1, <2>2, FunctorType
      <3>2. a \in Alive
        <4>1. functors \in Seq(Functor) /\ pending \in Seq(Functor)
          BY DEF TypeOK
        <4>2. Work # <<>> /\ Head(Work) = Head(functors)
          BY <2>1, <4>1 DEF Work
        <4> QED
          BY <2>2, <3>1, <4>2, WorkType, AddsTail DEF IInv, Homes, InWork
      <3>3. heap[a] \in Timer /\ addTimerInLoop(heap, a)
        BY <2>2, <3>1, <3>2, AliveType
      <3>4. timers' \subseteq Entry /\ activeTimers' \subseteq TimerId /\ alarm' \in {Off} \cup Time
        BY <3>3, AddType
      <3> QED
        BY <2>1, <2>2, <3>4 DEF TypeOK, batch
    <2>3. CASE Head(functors).op = "cancel" /\ cancelInLoop(Head(functors).id)
      <3>1. PICK id \in TimerId : id = Head(functors).id
        BY <2>1, <2>3, FunctorType
      <3>2. cancelInLoop(id)
        BY <2>3, <3>1
      <3> QED
        BY <2>1, <3>2, CancelType DEF TypeOK, batch
    <2> QED
      BY <1>7, <2>2, <2>3 DEF RunFunctor
  <1>8. ASSUME NEW a \in Addrs, LoopAddTimer(a) PROVE TypeOK'
    <2>1. PICK h : h = heap'
      OBVIOUS
    <2>2. /\ h \in [Addrs -> Timer \cup {NoTimer}] /\ h[a] \in Timer
          /\ numCreated' \in 0 .. MaxTimers
      BY <1>8, <2>1, NewTimerOK DEF LoopAddTimer
    <2>3. addTimerInLoop(h, a)
      BY <1>8, <2>1 DEF LoopAddTimer
    <2>4. timers' \subseteq Entry /\ activeTimers' \subseteq TimerId /\ alarm' \in {Off} \cup Time
      BY <2>2, <2>3, AddType
    <2>5. ActiveTimer(h, a) \in TimerId
      BY <2>2, TimerType DEF ActiveTimer, TimerId
    <2> QED
      BY <1>8, <2>1, <2>2, <2>4, <2>5 DEF LoopAddTimer, TypeOK, batch, loop
  <1>9. ASSUME NEW id \in ids, LoopCancel(id) PROVE TypeOK'
    <2>1. id \in TimerId /\ cancelInLoop(id)
      BY <1>9 DEF LoopCancel, TypeOK
    <2> QED
      BY <1>9, <2>1, CancelType DEF LoopCancel, TypeOK, batch, loop
  <1>10. ASSUME NEW t \in Threads, NEW a \in Addrs, ThreadAddTimer(t, a) PROVE TypeOK'
    <2>1. heap' \in [Addrs -> Timer \cup {NoTimer}] /\ numCreated' \in 0 .. MaxTimers
      BY <1>10, NewTimerOK DEF ThreadAddTimer
    <2>2. [op |-> "add", timer |-> a] \in Functor
      BY DEF Functor
    <2>3. pending' \in Seq(Functor)
      BY <1>10, <2>2 DEF ThreadAddTimer, TypeOK
    <2> QED
      BY <1>10, <2>1, <2>3 DEF ThreadAddTimer, TypeOK, queue, batch
  <1>11. ASSUME NEW t \in Threads, AddTimerReturns(t) PROVE TypeOK'
    <2>1. adding[t] \in Addrs
      BY <1>11 DEF AddTimerReturns, TypeOK
    <2>2. heap[adding[t]] # NoTimer => heap[adding[t]].sequence \in Sequences
      BY <2>1, TimerType DEF TypeOK
    <2>3. ids' \subseteq TimerId
      BY <1>11, <2>1, <2>2 DEF AddTimerReturns, TypeOK, TimerId
    <2> QED
      BY <1>11, <2>3 DEF AddTimerReturns, TypeOK, queue, batch, loop
  <1>12. ASSUME NEW t \in Threads, NEW id \in ids, ThreadCancel(t, id) PROVE TypeOK'
    <2>1. [op |-> "cancel", id |-> id] \in Functor
      BY DEF Functor, TypeOK
    <2>2. pending' \in Seq(Functor)
      BY <1>12, <2>1 DEF ThreadCancel, TypeOK
    <2> QED
      BY <1>12, <2>2 DEF ThreadCancel, TypeOK, queue, batch
  <1>13. CASE Tick
    <2>1. ASSUME NEW a \in Addrs, heap[a] # NoTimer
          PROVE  [heap[a] EXCEPT !.expiration = Closer(@)] \in Timer
      <3>1. heap[a] \in Timer /\ heap[a].expiration \in Time
        BY <2>1, TimerType DEF TypeOK
      <3>2. Closer(heap[a].expiration) \in Time
        BY <3>1, CloserType
      <3> QED
        BY <3>1, <3>2 DEF Timer
    <2>2. heap' \in [Addrs -> Timer \cup {NoTimer}]
      BY <1>13, <2>1 DEF Tick, TypeOK
    <2>3. ASSUME NEW e \in timers PROVE [e EXCEPT !.when = Closer(@)] \in Entry
      BY CloserType DEF TypeOK, Entry
    <2>4. timers' \subseteq Entry
      BY <1>13, <2>3 DEF Tick
    <2>5. alarm' \in {Off} \cup Time
      BY <1>13, CloserType DEF Tick, TypeOK
    <2>6. late' \in Time
      BY <1>13, Numbers DEF Tick, TypeOK, Time
    <2> QED
      BY <1>13, <2>2, <2>4, <2>5, <2>6 DEF Tick, TypeOK, loop
  <1> QED
    BY <1>1, <1>2, <1>3, <1>4, <1>5, <1>6, <1>7, <1>8, <1>9, <1>10, <1>11, <1>12, <1>13
       DEF Next, LoopStep

----------------------------------------------------------------------------
(* Homes, sequences and the timerfd.                                       *)

Placed == Homes /\ Numbered /\ Cancelled

\* The places that the live Timers are in.
LEMMA PlacesType ==
    ASSUME TypeOK, Homes
    PROVE  /\ InQueue \subseteq Alive /\ InBatch \subseteq Alive /\ InWork \subseteq Alive
           /\ Alive \subseteq Addrs
  BY DEF Homes, Alive

\* A queue that holds the entries of certain Timers holds those Timers.
LEMMA QueueIs ==
    ASSUME NEW T, timers' = {EntryOf(heap', a) : a \in T}
    PROVE  InQueue' = T
  <1>1. PICK h : h = heap'
    OBVIOUS
  <1>2. \A a : EntryOf(h, a).timer = a
    BY DEF EntryOf
  <1>3. timers' = {EntryOf(h, a) : a \in T}
    BY <1>1
  <1> QED
    BY <1>2, <1>3 DEF InQueue

\* Steps that move no Timer.
LEMMA QuietKept ==
    ASSUME IInv, UNCHANGED <<heap, numCreated, queue, cancelingTimers, calling, expired, stopped>>,
           InWork' = InWork, OnceIn(Work)'
    PROVE  Placed' /\ Armed'
  <1>1. InQueue' = InQueue /\ InBatch' = InBatch /\ Alive' = Alive
    BY DEF queue, InQueue, InBatch, Alive
  <1>2. Homes'
    BY <1>1 DEF IInv, Homes, queue, EntryOf, ActiveTimer
  <1>3. Numbered'
    BY <1>1 DEF IInv, Numbered
  <1>4. Cancelled'
    BY <1>1 DEF IInv, Cancelled, ActiveTimer
  <1>5. Armed'
    BY DEF IInv, Armed, queue
  <1> QED
    BY <1>2, <1>3, <1>4, <1>5 DEF Placed

\* addTimerInLoop keeps the timerfd armed for the earliest Timer.
LEMMA ArmedAdd ==
    ASSUME IInv, NEW a \in Addrs, NEW h, h[a] \in Timer, addTimerInLoop(h, a), UNCHANGED calling
    PROVE  Armed'
  <1>1. PICK w : w = h[a].expiration
    OBVIOUS
  <1>2. w \in Time /\ \A e \in timers : e.when \in Time
    BY <1>1, TimerType DEF IInv, TypeOK, Entry
  <1>3. timers' = timers \cup {EntryOf(h, a)} /\ EntryOf(h, a).when = w
    BY <1>1 DEF addTimerInLoop, EntryOf
  <1>4. \/ alarm' = resetTimerfd(w) /\ TRUE \in earliestChanged(w)
        \/ alarm' = alarm /\ FALSE \in earliestChanged(w)
    <2>1. earliestChanged(w) \subseteq {TRUE, FALSE}
      BY Zenon DEF earliestChanged
    <2>2. \E changed \in earliestChanged(w) : alarm' = IF changed THEN resetTimerfd(w) ELSE alarm
      BY <1>1 DEF addTimerInLoop
    <2> QED
      BY <2>1, <2>2, Zenon
  <1>5. \/ alarm' = Larger(w, 1) /\ (w = 0 \/ \A e \in timers : w < e.when)
        \/ alarm' = alarm /\ \E e \in timers : ~(w < e.when)
    <2>1. TRUE \in earliestChanged(w) => w = 0 \/ \A e \in timers : w < e.when
      BY Zenon DEF earliestChanged
    <2>2. FALSE \in earliestChanged(w) => \E e \in timers : ~(w < e.when)
      BY Zenon DEF earliestChanged
    <2> QED
      BY <1>2, <1>4, <2>1, <2>2, AlarmType, Zenon
  <1>6. alarm \in {Off} \cup Time
    BY DEF IInv, TypeOK
  <1> SUFFICES ASSUME ~calling, NEW f \in timers'
               PROVE  alarm' # Off /\ alarm' <= Larger(f.when, 1)
    BY DEF Armed
  <1>7. \A e \in timers : alarm # Off /\ alarm <= Larger(e.when, 1)
    BY DEF IInv, Armed
  <1>8. f.when \in Nat /\ w \in Nat
    BY <1>2, <1>3, Numbers, Zenon
  <1>9. CASE alarm' = Larger(w, 1) /\ (w = 0 \/ \A e \in timers : w < e.when)
    <2>1. w = 0 \/ w <= f.when
      BY <1>3, <1>8, <1>9
    <2> QED
      BY <1>8, <1>9, <2>1 DEF Larger, Off
  <1>10. CASE alarm' = alarm /\ \E e \in timers : ~(w < e.when)
    <2>1. PICK e \in timers : ~(w < e.when)
      BY <1>10
    <2>2. e.when \in Nat /\ alarm \in Nat
      BY <1>2, <1>6, <1>7, Numbers, Zenon
    <2>3. alarm # Off /\ alarm <= Larger(w, 1)
      BY <1>7, <1>8, <2>1, <2>2 DEF Larger
    <2> QED
      BY <1>3, <1>7, <1>10, <2>3
  <1> QED
    BY <1>5, <1>9, <1>10

\* A new Timer, put into the queue or into a functor.
LEMMA NewKept ==
    ASSUME IInv, TypeOK', NEW a \in Addrs, \E r \in Requests : NewTimer(a, r[1], r[2]),
           UNCHANGED <<cancelingTimers, expired, stopped>>, OnceIn(Work)',
           \/ /\ timers' = timers \cup {EntryOf(heap', a)} /\ InWork' = InWork
              /\ activeTimers' = activeTimers \cup {ActiveTimer(heap', a)}
           \/ UNCHANGED <<timers, activeTimers>> /\ InWork' = InWork \cup {a}
    PROVE  Placed'
  <1>1. /\ a \notin Alive /\ numCreated' = numCreated + 1 /\ numCreated \in Nat
        /\ heap'[a] # NoTimer /\ heap'[a].sequence = numCreated + 1
        /\ \A b \in Addrs : b # a => heap'[b] = heap[b]
    <2>1. TypeOK
      BY Zenon DEF IInv
    <2>2. numCreated \in Nat
      BY <2>1, Numbers DEF TypeOK
    <2>3. /\ a \notin Alive /\ numCreated' = numCreated + 1
          /\ heap'[a] \in Timer /\ heap'[a].sequence = numCreated + 1
          /\ \A b \in Addrs : b # a => heap'[b] = heap[b]
      BY <2>1, NewTimerOK, Zenon
    <2> QED
      BY <2>2, <2>3, TimerType, Zenon
  <1>2. /\ InQueue \subseteq Alive /\ InBatch \subseteq Alive /\ InWork \subseteq Alive
        /\ Alive \subseteq Addrs
    BY PlacesType DEF IInv
  <1>3. \A b \in Alive : b # a /\ heap'[b] = heap[b]
    BY <1>1, <1>2, Zenon
  <1>4. Alive' = Alive \cup {a}
    BY <1>1 DEF Alive
  <1>5. \A b \in Alive : /\ EntryOf(heap', b) = EntryOf(heap, b)
                         /\ ActiveTimer(heap', b) = ActiveTimer(heap, b)
    BY <1>3 DEF EntryOf, ActiveTimer
  <1>6. /\ timers = {EntryOf(heap', b) : b \in InQueue}
        /\ activeTimers = {ActiveTimer(heap', b) : b \in InQueue}
    BY <1>2, <1>5 DEF IInv, Homes
  <1>7. InBatch' = InBatch
    BY DEF InBatch
  <1>8. \E T, W : /\ timers' = {EntryOf(heap', b) : b \in T}
                  /\ activeTimers' = {ActiveTimer(heap', b) : b \in T} /\ InWork' = W
                  /\ \/ T = InQueue \cup {a} /\ W = InWork
                     \/ T = InQueue /\ W = InWork \cup {a}
    <2>1. CASE timers' = timers \cup {EntryOf(heap', a)} /\ InWork' = InWork
               /\ activeTimers' = activeTimers \cup {ActiveTimer(heap', a)}
      <3>1. /\ timers' = {EntryOf(heap', b) : b \in InQueue \cup {a}}
            /\ activeTimers' = {ActiveTimer(heap', b) : b \in InQueue \cup {a}}
        BY <1>6, <2>1
      <3> QED
        BY <2>1, <3>1, Zenon
    <2>2. CASE UNCHANGED <<timers, activeTimers>> /\ InWork' = InWork \cup {a}
      BY <1>6, <2>2
    <2> QED
      BY <2>1, <2>2
  <1>9. PICK T, W : /\ timers' = {EntryOf(heap', b) : b \in T}
                    /\ activeTimers' = {ActiveTimer(heap', b) : b \in T} /\ InWork' = W
                    /\ \/ T = InQueue \cup {a} /\ W = InWork
                       \/ T = InQueue /\ W = InWork \cup {a}
    BY <1>8
  <1>10. InQueue' = T
    BY <1>9, QueueIs
  <1>11. Homes'
    BY <1>1, <1>2, <1>4, <1>7, <1>9, <1>10 DEF IInv, Homes
  <1>12. Numbered'
    <2>1. /\ \A b \in Alive : heap[b].sequence <= numCreated /\ heap[b].sequence \in Nat
          /\ \A s \in stopped : s <= numCreated /\ s \in Nat
      BY AliveType, TimerType, Numbers, Zenon DEF IInv, Numbered, TypeOK
    <2>2. /\ \A b \in Alive : heap[b].sequence <= numCreated + 1
          /\ \A b \in Alive : heap[b].sequence # numCreated + 1
          /\ \A s \in stopped : s <= numCreated + 1
          /\ numCreated + 1 <= numCreated + 1
      BY <1>1, <2>1
    <2>3. \A b \in Alive' : heap'[b].sequence <= numCreated'
      BY <1>1, <1>3, <1>4, <2>2, Zenon
    <2>4. ASSUME NEW b \in Alive', NEW d \in Alive', heap'[b].sequence = heap'[d].sequence
          PROVE  b = d
      <3>1. CASE b = a \/ d = a
        BY <1>1, <1>3, <1>4, <2>2, <2>4, <3>1, Zenon
      <3>2. CASE b # a /\ d # a
        <4>1. /\ b \in Alive /\ d \in Alive
              /\ heap[b].sequence = heap[d].sequence
          BY <1>3, <1>4, <2>4, <3>2, Zenon
        <4> QED
          BY <4>1, Zenon DEF IInv, Numbered
      <3> QED
        BY <3>1, <3>2, Zenon
    <2> QED
      BY <1>1, <2>2, <2>3, <2>4, Zenon DEF Numbered
  <1>13. Cancelled'
    <2>1. numCreated + 1 \notin stopped
      <3>1. \A q \in stopped : q <= numCreated
        BY Zenon DEF IInv, Numbered
      <3> QED
        BY <1>1, <3>1
    <2> QED
      BY <1>1, <1>2, <1>3, <1>5, <1>7, <1>9, <1>10, <2>1 DEF IInv, Cancelled
  <1> QED
    BY <1>11, <1>12, <1>13 DEF Placed

\* A functor puts its Timer into the queue.
LEMMA FunctorAddKept ==
    ASSUME IInv, TypeOK', NEW a \in InWork, addTimerInLoop(heap, a),
           UNCHANGED <<heap, numCreated, cancelingTimers, expired, stopped>>,
           InWork' = InWork \ {a}, OnceIn(Work)'
    PROVE  Placed'
  <1>1. InQueue \subseteq Alive /\ InBatch \subseteq Alive /\ InWork \subseteq Alive
    BY PlacesType DEF IInv
  <1>2. InBatch' = InBatch /\ Alive' = Alive
    BY DEF InBatch, Alive
  <1>3. /\ timers' = {EntryOf(heap', b) : b \in InQueue \cup {a}}
        /\ activeTimers' = {ActiveTimer(heap', b) : b \in InQueue \cup {a}}
    BY DEF addTimerInLoop, IInv, Homes
  <1>4. InQueue' = InQueue \cup {a}
    <2>1. PICK T : T = InQueue \cup {a}
      BY Zenon
    <2> QED
      BY <1>3, <2>1, QueueIs
  <1>5. Homes'
    BY <1>1, <1>2, <1>3, <1>4 DEF IInv, Homes
  <1>6. Numbered'
    BY <1>2 DEF IInv, Numbered
  <1>7. Cancelled'
    BY <1>2, <1>4 DEF IInv, Cancelled, ActiveTimer
  <1> QED
    BY <1>5, <1>6, <1>7 DEF Placed

\* cancelInLoop: the Timer is in the queue and dies, or is in the batch and is
\* noted, or is not found.
LEMMA CancelKept ==
    ASSUME IInv, TypeOK', NEW id \in TimerId, cancelInLoop(id),
           UNCHANGED <<numCreated, calling, expired>>, InWork' = InWork, OnceIn(Work)'
    PROVE  Placed' /\ Armed'
  <1>1. /\ InQueue \subseteq Alive /\ InBatch \subseteq Alive /\ InWork \subseteq Alive
        /\ Alive \subseteq Addrs /\ InBatch' = InBatch
    BY PlacesType DEF IInv, InBatch
  <1>2. \A b, c \in Alive : heap[b].sequence = heap[c].sequence => b = c
    BY DEF IInv, Numbered
  <1>3. CASE id \in activeTimers
    <2>1. PICK a \in InQueue : id = ActiveTimer(heap, a)
      BY <1>3 DEF IInv, Homes
    <2>2. id[1] = a /\ id[2] = heap[a].sequence
      BY <2>1 DEF ActiveTimer
    <2>3. /\ timers' = timers \ {EntryOf(heap, a)} /\ activeTimers' = activeTimers \ {id}
          /\ heap' = [heap EXCEPT ![a] = NoTimer]
          /\ UNCHANGED <<cancelingTimers, alarm>> /\ stopped' = stopped \cup {heap[a].sequence}
      BY <1>3, <2>2 DEF cancelInLoop
    <2>4. \A b \in Addrs : b # a => heap'[b] = heap[b]
      BY <2>3 DEF IInv, TypeOK
    <2>5. Alive' = Alive \ {a} /\ a \in Alive
      BY <1>1, <2>1, <2>3, <2>4 DEF Alive, IInv, TypeOK
    <2>6. \A b \in Alive : b # a => /\ EntryOf(heap', b) = EntryOf(heap, b)
                                    /\ ActiveTimer(heap', b) = ActiveTimer(heap, b)
      BY <1>1, <2>4, Zenon DEF EntryOf, ActiveTimer
    <2>7. \A b \in Alive : b # a => /\ EntryOf(heap, b) # EntryOf(heap, a)
                                    /\ ActiveTimer(heap, b) # ActiveTimer(heap, a)
      BY DEF EntryOf, ActiveTimer
    <2>8. PICK T : T = InQueue \ {a}
      BY Zenon
    <2>9. timers' = {EntryOf(heap', b) : b \in T}
      <3>1. timers = {EntryOf(heap, b) : b \in InQueue}
        BY DEF IInv, Homes
      <3>2. timers' = {EntryOf(heap, b) : b \in T}
        BY <1>1, <2>3, <2>7, <2>8, <3>1
      <3> QED
        BY <1>1, <2>6, <2>8, <3>2
    <2>10. activeTimers' = {ActiveTimer(heap', b) : b \in T}
      <3>1. activeTimers = {ActiveTimer(heap, b) : b \in InQueue}
        BY DEF IInv, Homes
      <3>2. activeTimers' = {ActiveTimer(heap, b) : b \in T}
        BY <1>1, <2>1, <2>3, <2>7, <2>8, <3>1
      <3> QED
        BY <1>1, <2>6, <2>8, <3>2
    <2>11. InQueue' = T
      BY <2>9, QueueIs
    <2>12. Homes'
      BY <1>1, <2>1, <2>5, <2>8, <2>9, <2>10, <2>11 DEF IInv, Homes
    <2>13. Numbered'
      BY <1>1, <2>3, <2>4, <2>5 DEF IInv, Numbered
    <2>14. Cancelled'
      <3>1. \A b \in InQueue' \cup InWork' \cup InBatch' :
                b \in Alive /\ b # a /\ heap'[b] = heap[b] /\ heap[b].sequence # heap[a].sequence
        BY <1>1, <1>2, <2>1, <2>4, <2>5, <2>8, <2>11 DEF IInv, Homes
      <3>2. \A b \in InQueue' \cup InWork' : heap'[b].sequence \notin stopped'
        <4>1. \A b \in InQueue' \cup InWork' : b \in InQueue \cup InWork
          BY <2>8, <2>11
        <4> QED
          BY <2>3, <3>1, <4>1 DEF IInv, Cancelled
      <3>3. ASSUME NEW b \in InBatch', heap'[b].sequence \in stopped'
            PROVE  ActiveTimer(heap', b) \in cancelingTimers'
        <4>1. b \in InBatch /\ heap[b].sequence \in stopped
          BY <1>1, <2>3, <3>1, <3>3
        <4>2. ActiveTimer(heap, b) \in cancelingTimers
          BY <4>1 DEF IInv, Cancelled
        <4>3. ActiveTimer(heap', b) = ActiveTimer(heap, b)
          BY <2>6, <3>1
        <4> QED
          BY <2>3, <4>2, <4>3
      <3> QED
        BY <3>2, <3>3 DEF Cancelled
    <2>15. Armed'
      BY <2>3 DEF IInv, Armed
    <2> QED
      BY <2>12, <2>13, <2>14, <2>15 DEF Placed
  <1>4. CASE id \notin activeTimers
    <2>1. /\ UNCHANGED <<timers, activeTimers, heap, alarm>>
          /\ cancelingTimers' = IF calling THEN cancelingTimers \cup {id} ELSE cancelingTimers
          /\ stopped' = IF \E e \in expired : id = ActiveTimer(heap, e.timer)
                        THEN stopped \cup {id[2]} ELSE stopped
      BY <1>4 DEF cancelInLoop
    <2>2. InQueue' = InQueue /\ Alive' = Alive
      BY <2>1 DEF InQueue, Alive
    <2>3. Homes'
      BY <1>1, <2>1, <2>2, Zenon DEF IInv, Homes, EntryOf, ActiveTimer
    <2>4. Armed'
      BY <2>1 DEF IInv, Armed
    <2>5. CASE \E e \in expired : id = ActiveTimer(heap, e.timer)
      <3>1. PICK a \in InBatch : id = ActiveTimer(heap, a)
        BY <2>5 DEF InBatch
      <3>2. id[2] = heap[a].sequence /\ a \in Alive
        BY <1>1, <3>1 DEF ActiveTimer
      <3>3. cancelingTimers' = cancelingTimers \cup {id}
        BY <2>1, <3>1, Zenon DEF IInv, Phases, TypeOK, InBatch
      <3>4. stopped' = stopped \cup {heap[a].sequence}
        BY <2>1, <2>5, <3>2
      <3>5. Numbered'
        BY <2>1, <2>2, <3>2, <3>4 DEF IInv, Numbered
      <3>6. \A b \in InQueue \cup InWork : heap[b].sequence # heap[a].sequence
        BY <1>1, <1>2, <3>1, <3>2 DEF IInv, Homes
      <3>7. \A b \in InBatch : heap[b].sequence = heap[a].sequence => b = a
        BY <1>1, <1>2, <3>2
      <3>8. Cancelled'
        BY <1>1, <2>1, <2>2, <3>1, <3>3, <3>4, <3>6, <3>7 DEF IInv, Cancelled, ActiveTimer
      <3> QED
        BY <2>3, <2>4, <3>5, <3>8 DEF Placed
    <2>6. CASE ~ \E e \in expired : id = ActiveTimer(heap, e.timer)
      <3>1. stopped' = stopped /\ cancelingTimers \subseteq cancelingTimers'
        BY <2>1, <2>6
      <3>2. Numbered'
        BY <2>1, <2>2, <3>1 DEF IInv, Numbered
      <3>3. Cancelled'
        BY <1>1, <2>1, <2>2, <3>1 DEF IInv, Cancelled, ActiveTimer
      <3> QED
        BY <2>3, <2>4, <3>2, <3>3 DEF Placed
    <2> QED
      BY <2>5, <2>6
  <1> QED
    BY <1>3, <1>4

\* handleRead takes the expired Timers out of both sets.
LEMMA HandleReadKept ==
    ASSUME IInv, TypeOK', HandleRead
    PROVE  Placed' /\ Armed'
  <1>1. /\ InQueue \subseteq Alive /\ InWork \subseteq Alive /\ InBatch = {}
        /\ Alive = InQueue \cup InWork /\ InQueue \cap InWork = {}
    BY PlacesType, Zenon DEF HandleRead, IInv, Homes, Phases, TypeOK, InBatch
  <1>2. UNCHANGED <<heap, numCreated, stopped>> /\ Alive' = Alive /\ Work' = Work
    BY DEF HandleRead, Alive, Work
  <1>3. InWork' = InWork
    BY <1>2 DEF InWork
  <1>4. PICK E : E = {a \in InQueue : heap[a].expiration = 0}
    BY Zenon
  <1>5. PICK T : T = InQueue \ E
    BY Zenon
  <1>6. getExpired = {EntryOf(heap, a) : a \in E}
    <2>1. timers = {EntryOf(heap, a) : a \in InQueue}
      BY Zenon DEF IInv, Homes
    <2>2. \A a : EntryOf(heap, a).when = heap[a].expiration
      BY Zenon DEF EntryOf
    <2> QED
      BY <1>4, <2>1, <2>2 DEF getExpired
  <1>7. /\ timers = {EntryOf(heap, a) : a \in InQueue}
        /\ activeTimers = {ActiveTimer(heap, a) : a \in InQueue}
    BY DEF IInv, Homes
  <1>8. \A a, b : a # b => /\ EntryOf(heap, a) # EntryOf(heap, b)
                           /\ ActiveTimer(heap, a) # ActiveTimer(heap, b)
    BY DEF EntryOf, ActiveTimer
  <1>9. timers' = {EntryOf(heap, a) : a \in T}
    <2>1. timers' = timers \ getExpired
      BY DEF HandleRead
    <2> QED
      BY <1>5, <1>6, <1>7, <1>8, <2>1
  <1>10. {ActiveTimer(heap, e.timer) : e \in getExpired} = {ActiveTimer(heap, a) : a \in E}
    <2>1. \A a : EntryOf(heap, a).timer = a
      BY DEF EntryOf
    <2> QED
      BY <1>6, <2>1
  <1>11. activeTimers' = {ActiveTimer(heap, a) : a \in T}
    <2>1. activeTimers' = activeTimers \ {ActiveTimer(heap, e.timer) : e \in getExpired}
      BY DEF HandleRead
    <2> QED
      BY <1>4, <1>5, <1>7, <1>8, <1>10, <2>1
  <1>12. /\ timers' = {EntryOf(heap', a) : a \in T}
         /\ activeTimers' = {ActiveTimer(heap', a) : a \in T}
    BY <1>2, <1>9, <1>11
  <1>13. InQueue' = T
    BY <1>12, QueueIs
  <1>14. InBatch' = E
    <2>1. \A a : EntryOf(heap, a).timer = a
      BY DEF EntryOf
    <2> QED
      BY <1>6, <2>1 DEF HandleRead, InBatch
  <1>15. Homes'
    BY <1>1, <1>2, <1>3, <1>4, <1>5, <1>12, <1>13, <1>14, Zenon DEF IInv, Homes
  <1>16. Numbered'
    BY <1>2 DEF IInv, Numbered
  <1>17. Cancelled'
    BY <1>2, <1>3, <1>4, <1>5, <1>13, <1>14 DEF IInv, Cancelled
  <1>18. Armed'
    BY DEF HandleRead, Armed
  <1> QED
    BY <1>15, <1>16, <1>17, <1>18 DEF Placed

\* reset puts the repeating Timers of the batch back and deletes the others.
LEMMA ResetKept ==
    ASSUME IInv, TypeOK', ResetTimers
    PROVE  Placed' /\ Armed'
  <1>1. /\ InQueue \subseteq Alive /\ InWork \subseteq Alive /\ InBatch \subseteq Alive
        /\ Alive \subseteq Addrs
        /\ InQueue \cap InWork = {} /\ InQueue \cap InBatch = {} /\ InBatch \cap InWork = {}
        /\ Alive = InQueue \cup InBatch \cup InWork
    BY PlacesType DEF IInv, Homes
  <1>2. UNCHANGED <<numCreated, stopped, functors, pending, cancelingTimers>> /\ expired' = {}
    BY DEF ResetTimers
  <1>3. InBatch' = {} /\ InWork' = InWork /\ OnceIn(Work)'
    BY <1>2 DEF InBatch, InWork, Work, IInv, Homes
  <1>4. PICK R : R = Repeating
    OBVIOUS
  <1>5. R \subseteq InBatch /\ \A a \in R : ActiveTimer(heap, a) \notin cancelingTimers
    BY <1>4 DEF Repeating, InBatch
  <1>6. heap' = [a \in Addrs |-> IF a \in R THEN restart(heap[a])
                                 ELSE IF a \in InBatch THEN NoTimer ELSE heap[a]]
    BY <1>4 DEF ResetTimers, reset, InBatch
  <1>7. \A a \in Alive : a \notin InBatch => heap'[a] = heap[a]
    BY <1>1, <1>5, <1>6
  <1>8. \A a \in R : heap'[a] # NoTimer /\ heap'[a].sequence = heap[a].sequence
    <2> SUFFICES ASSUME NEW a \in R PROVE heap'[a] # NoTimer /\ heap'[a].sequence = heap[a].sequence
      OBVIOUS
    <2>1. a \in Alive /\ heap[a] \in Timer
      BY <1>1, <1>5, AliveType DEF IInv
    <2>2. restart(heap[a]).sequence = heap[a].sequence
      BY <2>1 DEF restart, Timer
    <2>3. heap'[a] = restart(heap[a])
      BY <1>1, <1>6, <2>1
    <2>4. heap'[a] \in Timer
      <3>1. late \in Time /\ heap[a].interval \in Time
        BY <2>1, TimerType DEF IInv, TypeOK
      <3>2. Larger(heap[a].interval - late, 0) \in Time
        BY <3>1, Numbers DEF Larger, Time
      <3> QED
        BY <2>1, <2>3, <3>2 DEF restart, Timer
    <2> QED
      BY <2>2, <2>3, <2>4, TimerType
  <1>9. Alive' = InQueue \cup R \cup InWork
    <2>1. \A a \in Addrs : a \in InBatch \ R => heap'[a] = NoTimer
      BY <1>6
    <2>2. \A a \in Addrs : a \notin Alive => heap'[a] = NoTimer
      BY <1>1, <1>5, <1>6 DEF Alive
    <2> QED
      BY <1>1, <1>5, <1>7, <1>8, <2>1, <2>2 DEF Alive
  <1>10. \A a \in InQueue : /\ EntryOf(heap', a) = EntryOf(heap, a)
                            /\ ActiveTimer(heap', a) = ActiveTimer(heap, a)
    BY <1>1, <1>7 DEF EntryOf, ActiveTimer
  <1>11. \A a \in R : ActiveTimer(heap', a) = ActiveTimer(heap, a)
    BY <1>8 DEF ActiveTimer
  <1>12. PICK T : T = InQueue \cup R
    BY Zenon
  <1>13. timers' = {EntryOf(heap', a) : a \in T}
    <2>1. timers = {EntryOf(heap', a) : a \in InQueue}
      BY <1>10 DEF IInv, Homes
    <2>2. timers' = timers \cup {EntryOf(heap', a) : a \in R}
      BY <1>4, Zenon DEF ResetTimers, reset
    <2> QED
      BY <1>12, <2>1, <2>2
  <1>14. activeTimers' = {ActiveTimer(heap', a) : a \in T}
    <2>1. activeTimers = {ActiveTimer(heap', a) : a \in InQueue}
      BY <1>10 DEF IInv, Homes
    <2>2. activeTimers' = activeTimers \cup {ActiveTimer(heap, a) : a \in R}
      BY <1>4 DEF ResetTimers, reset
    <2> QED
      BY <1>11, <1>12, <2>1, <2>2
  <1>15. InQueue' = T
    BY <1>13, QueueIs
  <1>16. Homes'
    BY <1>1, <1>3, <1>5, <1>9, <1>12, <1>13, <1>14, <1>15 DEF Homes
  <1>17. \A a \in Alive' : a \in Alive /\ heap'[a].sequence = heap[a].sequence
    BY <1>1, <1>5, <1>7, <1>8, <1>9
  <1>18. Numbered'
    BY <1>2, <1>17 DEF IInv, Numbered
  <1>19. Cancelled'
    <2>1. \A a \in InQueue \cup InWork : heap[a].sequence \notin stopped
      BY DEF IInv, Cancelled
    <2>2. \A a \in R : heap[a].sequence \notin stopped
      BY <1>5 DEF IInv, Cancelled
    <2> QED
      BY <1>2, <1>3, <1>9, <1>12, <1>15, <1>17, <2>1, <2>2 DEF Cancelled
  <1>20. Armed'
    <2> SUFFICES ASSUME NEW f \in timers'
                 PROVE  alarm' # Off /\ alarm' <= Larger(f.when, 1)
      BY DEF Armed
    <2>1. PICK e \in timers' : (\A g \in timers' : e.when <= g.when) /\ alarm' = resetTimerfd(e.when)
      BY Zenon DEF ResetTimers, reset
    <2>2. e.when \in Time /\ f.when \in Time
      BY DEF TypeOK, Entry
    <2>3. e.when \in Nat /\ f.when \in Nat /\ e.when <= f.when /\ alarm' = Larger(e.when, 1)
      BY <2>1, <2>2, Numbers, AlarmType, Zenon
    <2> QED
      BY <2>3 DEF Larger, Off
  <1> QED
    BY <1>16, <1>18, <1>19, <1>20 DEF Placed

\* Time passes for the Timers, their entries and the timerfd alike.
LEMMA TickKept ==
    ASSUME IInv, TypeOK', Tick
    PROVE  Placed' /\ Armed'
  <1>1. /\ InQueue \subseteq Alive /\ InBatch \subseteq Alive /\ InWork \subseteq Alive
        /\ Alive \subseteq Addrs /\ InQueue \cap InBatch = {}
    BY PlacesType DEF IInv, Homes
  <1>2. /\ UNCHANGED <<numCreated, activeTimers, stopped, cancelingTimers>>
        /\ InBatch' = InBatch /\ Work' = Work /\ calling' = calling
    BY DEF Tick, loop, InBatch, Work
  <1>3. InWork' = InWork
    BY <1>2 DEF InWork
  <1>4. heap' = [a \in Addrs |-> IF a \notin Alive \/ a \in InBatch THEN heap[a]
                                 ELSE [heap[a] EXCEPT !.expiration = Closer(@)]]
    BY DEF Tick, Alive, InBatch
  <1>5. ASSUME NEW a \in Alive
        PROVE  /\ heap'[a] # NoTimer /\ heap'[a].sequence = heap[a].sequence
               /\ a \notin InBatch => heap'[a].expiration = Closer(heap[a].expiration)
    <2>1. a \in Addrs /\ heap[a] \in Timer /\ heap[a].expiration \in Time
      BY AliveType, TimerType DEF IInv
    <2>2. CASE a \in InBatch
      BY <1>4, <2>1, <2>2 DEF Alive
    <2>3. CASE a \notin InBatch
      <3>1. heap'[a] = [heap[a] EXCEPT !.expiration = Closer(@)]
        BY <1>4, <2>1, <2>3
      <3>2. Closer(heap[a].expiration) \in Time
        BY <2>1, CloserType
      <3>3. heap'[a] \in Timer
        BY <2>1, <3>1, <3>2 DEF Timer
      <3>4. heap'[a].sequence = heap[a].sequence /\ heap'[a].expiration = Closer(heap[a].expiration)
        BY <2>1, <3>1 DEF Timer
      <3> QED
        BY <3>3, <3>4, TimerType
    <2> QED
      BY <2>2, <2>3
  <1>6. Alive' = Alive
    BY <1>4, <1>5 DEF Alive
  <1>7. \A a \in Alive : ActiveTimer(heap', a) = ActiveTimer(heap, a)
    BY <1>5 DEF ActiveTimer
  <1>8. \A a \in InQueue : [EntryOf(heap, a) EXCEPT !.when = Closer(@)] = EntryOf(heap', a)
    BY <1>1, <1>5 DEF EntryOf
  <1>9. PICK T : T = InQueue
    OBVIOUS
  <1>10. timers' = {EntryOf(heap', a) : a \in T}
    <2>1. timers = {EntryOf(heap, a) : a \in T}
      BY <1>9 DEF IInv, Homes
    <2>2. timers' = {[e EXCEPT !.when = Closer(@)] : e \in timers}
      BY DEF Tick
    <2>3. timers' = {[EntryOf(heap, a) EXCEPT !.when = Closer(@)] : a \in T}
      BY <2>1, <2>2
    <2> QED
      BY <1>8, <1>9, <2>3
  <1>11. InQueue' = InQueue
    BY <1>9, <1>10, QueueIs
  <1>12. activeTimers' = {ActiveTimer(heap', a) : a \in InQueue}
    BY <1>1, <1>2, <1>7 DEF IInv, Homes
  <1>13. Homes'
    BY <1>2, <1>3, <1>6, <1>9, <1>10, <1>11, <1>12, Zenon DEF IInv, Homes
  <1>14. Numbered'
    BY <1>2, <1>5, <1>6 DEF IInv, Numbered
  <1>15. Cancelled'
    BY <1>1, <1>2, <1>3, <1>5, <1>7, <1>11 DEF IInv, Cancelled
  <1>16. Armed'
    <2> SUFFICES ASSUME ~calling, NEW f \in timers'
                 PROVE  alarm' # Off /\ alarm' <= Larger(f.when, 1)
      BY <1>2 DEF Armed
    <2>1. PICK e \in timers : f = [e EXCEPT !.when = Closer(@)]
      BY DEF Tick
    <2>2. e.when \in Time /\ f.when = Closer(e.when)
      BY <2>1 DEF IInv, TypeOK, Entry
    <2>3. alarm # Off /\ alarm <= Larger(e.when, 1) /\ alarm \in Time /\ alarm' = Closer(alarm)
      BY DEF IInv, Armed, TypeOK, Tick
    <2>4. e.when \in Nat /\ alarm \in Nat
      BY <2>2, <2>3, Numbers, Zenon
    <2> QED
      BY <2>2, <2>3, <2>4 DEF Larger, Closer, Off
  <1> QED
    BY <1>13, <1>14, <1>15, <1>16 DEF Placed

\* Steps on the functors: what they leave in InWork.
LEMMA WorkStep ==
    ASSUME IInv
    PROVE  /\ UNCHANGED <<functors, pending>> => InWork' = InWork /\ OnceIn(Work)'
           /\ functors = <<>> /\ functors' = pending /\ pending' = <<>> =>
                 InWork' = InWork /\ OnceIn(Work)'
           /\ \A f \in Functor :
                 /\ f.op = "add" => f.timer \notin InWork
                 /\ functors' = functors /\ pending' = Append(pending, f)
                 => /\ InWork' = IF f.op = "add" THEN InWork \cup {f.timer} ELSE InWork
                    /\ OnceIn(Work)'
           /\ functors # <<>> /\ functors' = Tail(functors) /\ pending' = pending =>
                 /\ InWork' = IF Head(functors).op = "add" THEN InWork \ {Head(functors).timer}
                              ELSE InWork
                 /\ Head(functors).op = "add" => Head(functors).timer \in InWork
                 /\ OnceIn(Work)'
  <1>1. functors \in Seq(Functor) /\ pending \in Seq(Functor) /\ Work \in Seq(Functor) /\ OnceIn(Work)
    BY WorkType DEF IInv, TypeOK, Homes
  <1>2. ASSUME Work' = Work PROVE InWork' = InWork /\ OnceIn(Work)'
    BY <1>1, <1>2 DEF InWork
  <1>3. UNCHANGED <<functors, pending>> => Work' = Work
    BY DEF Work
  <1>4. functors = <<>> /\ functors' = pending /\ pending' = <<>> => Work' = Work
    BY <1>1 DEF Work
  <1>5. ASSUME NEW f \in Functor, f.op = "add" => f.timer \notin InWork,
               functors' = functors, pending' = Append(pending, f)
        PROVE  /\ InWork' = IF f.op = "add" THEN InWork \cup {f.timer} ELSE InWork
               /\ OnceIn(Work)'
    <2>1. Work' = Append(Work, f)
      BY <1>1, <1>5 DEF Work
    <2>2. PICK s \in Seq(Functor) : s = Work
      BY <1>1
    <2> QED
      BY <1>1, <1>5, <2>1, <2>2, AddsAppend DEF InWork
  <1>6. ASSUME functors # <<>>, functors' = Tail(functors), pending' = pending
        PROVE  /\ InWork' = IF Head(functors).op = "add" THEN InWork \ {Head(functors).timer}
                            ELSE InWork
               /\ Head(functors).op = "add" => Head(functors).timer \in InWork
               /\ OnceIn(Work)'
    <2>1. Work # <<>> /\ Head(Work) = Head(functors) /\ Work' = Tail(Work)
      BY <1>1, <1>6 DEF Work
    <2>2. PICK s \in Seq(Functor) : s = Work
      BY <1>1
    <2> QED
      BY <1>1, <2>1, <2>2, AddsTail DEF InWork
  <1> QED
    BY <1>2, <1>3, <1>4, <1>5, <1>6

----------------------------------------------------------------------------
(* The theorems.                                                           *)

\* callingExpiredTimers_ is set exactly inside handleRead.
LEMMA PhasesKept ==
    ASSUME IInv, [Next]_vars
    PROVE  Phases'
  <1> USE DEF Phases
  <1>1. Phases /\ calling \in BOOLEAN
    BY DEF IInv, TypeOK
  <1>2. CASE LoopStep
    BY <1>1, <1>2, Zenon DEF LoopStep, Poll, HandleRead, CallbackReturns, ResetTimers, RunCallback,
                      SwapFunctors, RunFunctor, batch
  <1>3. CASE ~LoopStep
    <2>1. UNCHANGED <<calling, phase, expired>>
      BY <1>3, Zenon DEF Next, LoopAddTimer, LoopCancel, ThreadAddTimer, AddTimerReturns,
                  ThreadCancel, Tick, vars, batch, loop
    <2> QED
      BY <1>1, <2>1
  <1> QED
    BY <1>2, <1>3, Zenon

\* Every step keeps the invariant.
LEMMA StepKept ==
    ASSUME IInv, [Next]_vars
    PROVE  IInv'
  <1>0. TypeOK' /\ Phases'
    BY TypeKept, PhasesKept
  <1> SUFFICES Placed' /\ Armed'
    BY <1>0 DEF IInv, Placed
  <1>1. CASE \/ UNCHANGED vars \/ Poll \/ CallbackReturns \/ \E e \in toRun : RunCallback(e)
             \/ \E t \in Threads : AddTimerReturns(t)
    <2>1. UNCHANGED <<heap, numCreated, queue, cancelingTimers, calling, expired, stopped,
                      functors, pending>>
      BY <1>1, Zenon DEF vars, Poll, CallbackReturns, RunCallback, AddTimerReturns, batch, loop
    <2> QED
      BY <2>1, WorkStep, QuietKept, Zenon
  <1>2. CASE SwapFunctors
    <2>1. UNCHANGED <<heap, numCreated, queue, cancelingTimers, calling, expired, stopped>>
      BY <1>2 DEF SwapFunctors, batch
    <2>2. InWork' = InWork /\ OnceIn(Work)'
      BY <1>2, WorkStep, Zenon DEF SwapFunctors
    <2> QED
      BY <2>1, <2>2, QuietKept
  <1>3. ASSUME NEW t \in Threads, NEW id \in ids, ThreadCancel(t, id) PROVE Placed' /\ Armed'
    <2>1. PICK f \in Functor : f = [op |-> "cancel", id |-> id]
      BY Zenon DEF IInv, TypeOK, Functor
    <2>2. UNCHANGED <<heap, numCreated, queue, cancelingTimers, calling, expired, stopped>>
      BY <1>3 DEF ThreadCancel, batch
    <2>3. f.op # "add" /\ functors' = functors /\ pending' = Append(pending, f)
      BY <1>3, <2>1 DEF ThreadCancel
    <2>4. InWork' = InWork /\ OnceIn(Work)'
      BY <2>3, WorkStep, Zenon
    <2> QED
      BY <2>2, <2>4, QuietKept
  <1>4. CASE HandleRead
    BY <1>0, <1>4, HandleReadKept
  <1>5. CASE ResetTimers
    BY <1>0, <1>5, ResetKept
  <1>6. CASE Tick
    BY <1>0, <1>6, TickKept
  <1>7. CASE RunFunctor
    <2>1. /\ functors # <<>> /\ functors' = Tail(functors) /\ pending' = pending
          /\ UNCHANGED <<numCreated, calling, expired>>
      BY <1>7 DEF RunFunctor, batch
    <2>2. PICK f \in Functor : f = Head(functors)
      BY <2>1 DEF IInv, TypeOK
    <2>3. /\ InWork' = IF f.op = "add" THEN InWork \ {f.timer} ELSE InWork
          /\ f.op = "add" => f.timer \in InWork
          /\ OnceIn(Work)'
      BY <2>1, <2>2, WorkStep, Zenon
    <2>4. CASE /\ f.op = "add" /\ addTimerInLoop(heap, f.timer)
               /\ UNCHANGED <<heap, cancelingTimers, stopped>>
      <3>1. PICK a \in InWork : a = f.timer
        BY <2>3, <2>4
      <3>2. addTimerInLoop(heap, a) /\ InWork' = InWork \ {a}
        BY <2>3, <2>4, <3>1
      <3>3. Placed'
        BY <1>0, <2>1, <2>3, <2>4, <3>2, FunctorAddKept
      <3>4. a \in Addrs /\ heap[a] \in Timer
        BY PlacesType, AliveType DEF IInv
      <3>5. PICK h : h = heap
        OBVIOUS
      <3>6. Armed'
        BY <2>1, <3>2, <3>4, <3>5, ArmedAdd
      <3> QED
        BY <3>3, <3>6
    <2>5. CASE f.op = "cancel" /\ cancelInLoop(f.id)
      <3>1. PICK id \in TimerId : id = f.id
        BY <2>5, FunctorType
      <3>2. cancelInLoop(id) /\ InWork' = InWork
        BY <2>3, <2>5, <3>1
      <3> QED
        BY <1>0, <2>1, <2>3, <3>2, CancelKept, Zenon
    <2> QED
      BY <1>7, <2>2, <2>4, <2>5 DEF RunFunctor
  <1>8. ASSUME NEW a \in Addrs, LoopAddTimer(a) PROVE Placed' /\ Armed'
    <2>1. PICK h : h = heap'
      OBVIOUS
    <2>2. /\ \E r \in Requests : NewTimer(a, r[1], r[2])
          /\ UNCHANGED <<cancelingTimers, expired, calling, stopped, functors, pending>>
          /\ addTimerInLoop(h, a)
      BY <1>8, <2>1 DEF LoopAddTimer, batch, loop
    <2>3. /\ timers' = timers \cup {EntryOf(heap', a)}
          /\ activeTimers' = activeTimers \cup {ActiveTimer(heap', a)}
      BY <2>1, <2>2 DEF addTimerInLoop
    <2>4. InWork' = InWork /\ OnceIn(Work)'
      BY <2>2, WorkStep, Zenon
    <2>5. Placed'
      BY <1>0, <2>2, <2>3, <2>4, NewKept
    <2>6. h[a] \in Timer
      BY <2>1, <2>2, NewTimerOK, Zenon DEF IInv
    <2>7. Armed'
      BY <2>2, <2>6, ArmedAdd
    <2> QED
      BY <2>5, <2>7
  <1>9. ASSUME NEW id \in ids, LoopCancel(id) PROVE Placed' /\ Armed'
    <2>1. id \in TimerId /\ cancelInLoop(id)
      BY <1>9 DEF LoopCancel, IInv, TypeOK
    <2>2. UNCHANGED <<numCreated, calling, expired, functors, pending>>
      BY <1>9 DEF LoopCancel, batch, loop
    <2>3. InWork' = InWork /\ OnceIn(Work)'
      BY <2>2, WorkStep, Zenon
    <2> QED
      BY <1>0, <2>1, <2>2, <2>3, CancelKept
  <1>10. ASSUME NEW t \in Threads, NEW a \in Addrs, ThreadAddTimer(t, a) PROVE Placed' /\ Armed'
    <2>1. PICK f \in Functor : f = [op |-> "add", timer |-> a]
      BY Zenon DEF Functor
    <2>2. /\ \E r \in Requests : NewTimer(a, r[1], r[2])
          /\ functors' = functors /\ pending' = Append(pending, f)
          /\ UNCHANGED <<queue, cancelingTimers, calling, expired, stopped>>
      BY <1>10, <2>1 DEF ThreadAddTimer, batch
    <2>3. a \notin InWork
      BY <2>2, NewTimerOK, PlacesType, Zenon DEF IInv
    <2>4. f.op = "add" /\ f.timer = a
      BY <2>1
    <2>5. InWork' = InWork \cup {a} /\ OnceIn(Work)'
      BY <2>2, <2>3, <2>4, WorkStep, Zenon
    <2>6. UNCHANGED <<timers, activeTimers, alarm>>
      BY <2>2 DEF queue
    <2>7. Placed'
      BY <1>0, <2>2, <2>5, <2>6, NewKept
    <2>8. Armed'
      BY <2>2, <2>6 DEF IInv, Armed
    <2> QED
      BY <2>7, <2>8
  <1> QED
    BY <1>1, <1>2, <1>3, <1>4, <1>5, <1>6, <1>7, <1>8, <1>9, <1>10 DEF Next, LoopStep

\* The invariant holds in every reachable state.
LEMMA Invariant == Spec => []IInv
  <1>1. Init => IInv
    <2> SUFFICES ASSUME Init PROVE IInv
      OBVIOUS
    <2>1. TypeOK
      <3>1. 0 \in 0 .. MaxTimers /\ 0 \in Time
        BY Numbers
      <3>2. <<>> \in Seq(Functor)
        OBVIOUS
      <3> QED
        BY <3>1, <3>2, Zenon DEF Init, TypeOK
    <2>2. Work = <<>> /\ InWork = {} /\ OnceIn(Work)
      <3>1. Work = <<>>
        BY DEF Init, Work
      <3>2. \A i : i \notin 1 .. Len(Work)
        BY <3>1
      <3>3. InWork = {}
        BY <3>2 DEF InWork, AddsOf
      <3> QED
        BY <3>1, <3>2, <3>3, Zenon DEF OnceIn
    <2>3. InQueue = {} /\ InBatch = {} /\ Alive = {}
      BY DEF Init, InQueue, InBatch, Alive
    <2> QED
      BY <2>1, <2>2, <2>3 DEF Init, IInv, Homes, Phases, Numbered, Cancelled, Armed
  <1>2. IInv /\ [Next]_vars => IInv'
    BY StepKept
  <1> QED
    BY <1>1, <1>2, PTL DEF Spec

\* timers_ and activeTimers_ hold the same live Timers, under their own times,
\* and no Timer is lost or in two places, for any number of threads and Timers.
THEOREM TimersSetsAgree == Spec => []SetsAgree
  <1>1. IInv => SetsAgree
    <2> SUFFICES ASSUME IInv PROVE SetsAgree
      OBVIOUS
    <2>1. TypeOK /\ Homes
      BY DEF IInv
    <2>2. InQueue \subseteq Alive /\ InBatch \subseteq Alive /\ InWork \subseteq Alive
      BY <2>1, PlacesType
    <2>3. \A e \in timers : e.timer \in InQueue /\ e = EntryOf(heap, e.timer)
      <3>1. \A a : EntryOf(heap, a).timer = a
        BY DEF EntryOf
      <3> QED
        BY <2>1, <3>1 DEF Homes, InQueue
    <2>4. activeTimers = {ActiveTimer(heap, e.timer) : e \in timers}
      BY <2>1 DEF Homes, InQueue
    <2>5. InWork = {f.timer : f \in Queued}
      BY <2>1, QueuedIsWork
    <2>6. \A a \in InBatch \cup InWork : heap[a] # NoTimer /\ \A e \in timers : e.timer # a
      BY <2>1, <2>2, <2>3 DEF Homes, Alive
    <2>7. \A a \in Addrs : heap[a] # NoTimer => a \in InQueue \cup InBatch \cup InWork
      BY <2>1 DEF Homes, Alive
    <2> QED
      BY <2>1, <2>2, <2>3, <2>4, <2>5, <2>6, <2>7, Zenon DEF SetsAgree, InQueue, InBatch, Alive
  <1> QED
    BY <1>1, Invariant, PTL

\* Outside handleRead the timerfd is armed for no later than any waiting Timer.
THEOREM TimersArmed == Spec => []Armed
  <1>1. IInv => Armed
    BY DEF IInv
  <1> QED
    BY <1>1, Invariant, PTL

\* What a step does to the batch and to activeTimers_.
FinalStep ==
    /\ \A e \in toRun \ toRun' :
          heap[e.timer].sequence \in stopped => ActiveTimer(heap, e.timer) \in cancelingTimers
    /\ \A id \in activeTimers' \ activeTimers : id[2] \notin stopped

\* Only a Timer that no cancel has found goes into activeTimers_.
LEMMA FinalKept ==
    ASSUME IInv, Next
    PROVE  FinalStep
  <1>0. TypeOK /\ toRun \subseteq expired /\ (calling = FALSE => toRun = {})
    BY DEF IInv, TypeOK, Phases
  <1>1. CASE UNCHANGED <<toRun, activeTimers>>
    BY <1>1 DEF FinalStep
  <1>2. CASE HandleRead
    <2>1. toRun = {} /\ activeTimers' \subseteq activeTimers
      BY <1>0, <1>2, Zenon DEF HandleRead, IInv, Phases, TypeOK
    <2> QED
      BY <2>1 DEF FinalStep
  <1>3. ASSUME NEW e \in toRun, RunCallback(e) PROVE FinalStep
    <2>1. toRun' = toRun \ {e} /\ UNCHANGED activeTimers
      BY <1>3 DEF RunCallback, queue
    <2>2. e.timer \in InBatch
      BY <1>0, Zenon DEF InBatch
    <2> QED
      BY <2>1, <2>2, Zenon DEF FinalStep, IInv, Cancelled
  <1>4. CASE ResetTimers
    <2>1. toRun' = toRun
      BY <1>4 DEF ResetTimers
    <2>2. ASSUME NEW a \in Repeating PROVE ActiveTimer(heap, a)[2] \notin stopped
      <3>1. a \in InBatch /\ ActiveTimer(heap, a) \notin cancelingTimers
        BY DEF Repeating, InBatch
      <3> QED
        BY <3>1 DEF IInv, Cancelled, ActiveTimer
    <2>3. activeTimers' = activeTimers \cup {ActiveTimer(heap, a) : a \in Repeating}
      BY <1>4, Zenon DEF ResetTimers, reset
    <2> QED
      BY <2>1, <2>2, <2>3 DEF FinalStep
  <1>5. CASE RunFunctor
    <2>1. /\ functors # <<>> /\ functors' = Tail(functors) /\ pending' = pending /\ toRun' = toRun
      BY <1>5 DEF RunFunctor, batch
    <2>2. CASE Head(functors).op = "add" /\ addTimerInLoop(heap, Head(functors).timer)
      <3>1. PICK a \in InWork : a = Head(functors).timer
        BY <2>1, <2>2, WorkStep
      <3>2. ActiveTimer(heap, a)[2] \notin stopped
        BY DEF IInv, Cancelled, ActiveTimer
      <3>3. activeTimers' = activeTimers \cup {ActiveTimer(heap, a)}
        BY <2>2, <3>1, Zenon DEF addTimerInLoop
      <3> QED
        BY <2>1, <3>2, <3>3 DEF FinalStep
    <2>3. CASE cancelInLoop(Head(functors).id)
      <3>1. activeTimers' \subseteq activeTimers
        BY <2>3, Zenon DEF cancelInLoop
      <3> QED
        BY <2>1, <3>1 DEF FinalStep
    <2> QED
      BY <1>5, <2>2, <2>3, Zenon DEF RunFunctor
  <1>6. ASSUME NEW a \in Addrs, LoopAddTimer(a) PROVE FinalStep
    <2>1. heap'[a].sequence = numCreated + 1 /\ numCreated \in Nat
      <3>1. \E r \in Requests : NewTimer(a, r[1], r[2])
        BY <1>6, Zenon DEF LoopAddTimer
      <3>2. numCreated \in Nat
        BY <1>0, Numbers DEF TypeOK
      <3> QED
        BY <1>0, <3>1, <3>2, NewTimerOK, Zenon
    <2>2. numCreated + 1 \notin stopped
      BY <2>1 DEF IInv, Numbered
    <2>3. ActiveTimer(heap', a)[2] \notin stopped
      BY <2>1, <2>2 DEF ActiveTimer
    <2>4. activeTimers' = activeTimers \cup {ActiveTimer(heap', a)} /\ toRun' = toRun
      BY <1>6 DEF LoopAddTimer, addTimerInLoop, batch
    <2> QED
      BY <2>3, <2>4 DEF FinalStep
  <1>7. ASSUME NEW id \in ids, LoopCancel(id) PROVE FinalStep
    <2>1. activeTimers' \subseteq activeTimers /\ toRun' = toRun
      BY <1>7 DEF LoopCancel, cancelInLoop, batch
    <2> QED
      BY <2>1 DEF FinalStep
  <1>8. CASE Poll \/ CallbackReturns \/ SwapFunctors \/ Tick
    BY <1>1, <1>8 DEF Poll, CallbackReturns, SwapFunctors, Tick, queue, batch
  <1>9. CASE \/ \E t \in Threads, a \in Addrs : ThreadAddTimer(t, a)
             \/ \E t \in Threads : AddTimerReturns(t)
             \/ \E t \in Threads : \E id \in ids : ThreadCancel(t, id)
    BY <1>1, <1>9, Zenon DEF ThreadAddTimer, AddTimerReturns, ThreadCancel, queue, batch
  <1> QED
    BY <1>2, <1>3, <1>4, <1>5, <1>6, <1>7, <1>8, <1>9 DEF Next, LoopStep

\* A cancel that found its Timer is final, whatever runs in between and however
\* often addresses are used again.
THEOREM TimersCancelIsFinal == Spec => CancelIsFinal
  <1>1. IInv /\ [Next]_vars => [FinalStep]_vars
    BY FinalKept
  <1>2. FinalStep <=>
            /\ \A e \in toRun \ toRun' :
                  heap[e.timer].sequence \in stopped =>
                      ActiveTimer(heap, e.timer) \in cancelingTimers
            /\ \A id \in activeTimers' \ activeTimers : id[2] \notin stopped
    BY DEF FinalStep
  <1> QED
    BY <1>1, <1>2, Invariant, PTL DEF Spec, CancelIsFinal

----------------------------------------------------------------------------
(* Pollers, for any set of channels: the two pollers keep their tables in  *)
(* step with the channels, no assertion of theirs fails, and they report   *)
(* the same channels.                                                      *)

PollFdOf(c) == [fd |-> c, ignored |-> events[c] = {}, events |-> events[c]]

\* pollfds_ and the indices are inverse to each other on the added channels.
PollOK ==
    /\ \A c \in pChannels : pIndex[c] \in 1 .. Len(pollfds) /\ pollfds[pIndex[c]] = PollFdOf(c)
    /\ \A i \in 1 .. Len(pollfds) :
          pollfds[i].fd \in pChannels /\ pIndex[pollfds[i].fd] = i
    /\ \A c \in Channels : c \notin pChannels /\ c \notin removed => pIndex[c] = 0

\* The index of a channel tells whether it is in the epoll set, with its events.
EPollOK ==
    /\ eChannels = pChannels
    /\ \A c \in Channels : eIndex[c] = "kNew" <=> c \notin eChannels
    /\ \A c \in Channels : eIndex[c] = "kAdded" <=> c \in added
    /\ \A c \in added : interest[c] = events[c]
    /\ \A c \in eChannels : c \notin added => events[c] = {}

\* The inductive invariant: TypeOK and NoAbort with what the assertions rest on.
PollersInv ==
    /\ PollersTypes /\ pollAborted = FALSE
    /\ PollOK /\ EPollOK
    /\ \A c \in removed : c \notin pChannels
    /\ \A c \in Channels : c \notin pChannels => events[c] = {}

----------------------------------------------------------------------------
\* A vector after push_back, and after an assignment to one of its elements.
LEMMA PushBack ==
    ASSUME NEW S, NEW s \in Seq(S), NEW e \in S, NEW t, t = Append(s, e)
    PROVE  /\ t \in Seq(S) /\ Len(t) = Len(s) + 1 /\ t[Len(s) + 1] = e
           /\ \A i \in 1 .. Len(s) : t[i] = s[i]
  OBVIOUS

LEMMA Assigned ==
    ASSUME NEW S, NEW s \in Seq(S), NEW k \in 1 .. Len(s), NEW e \in S,
           NEW t, t = [s EXCEPT ![k] = e]
    PROVE  /\ t \in Seq(S) /\ Len(t) = Len(s) /\ t[k] = e
           /\ \A i \in 1 .. Len(s) : i # k => t[i] = s[i]
  OBVIOUS

\* The fields of an entry.
LEMMA PollFdFields ==
    \A c : /\ PollFdOf(c).fd = c /\ PollFdOf(c).events = events[c]
           /\ PollFdOf(c).ignored = (events[c] = {})
  BY Zenon DEF PollFdOf

\* updateChannel of PollPoller keeps the table, for a channel that is added or new
\* and, when new, has an event.
LEMMA PollUpdateOK ==
    ASSUME PollersInv, NEW c \in Channels, NEW evs \in SUBSET Event, c \notin removed,
           c \in pChannels \/ evs # {},
           PollUpdate(c, evs), events' = [events EXCEPT ![c] = evs], removed' = removed
    PROVE  /\ PollUpdateAsserts(c) /\ PollOK'
           /\ pIndex' \in [Channels -> Nat] /\ pollfds' \in Seq(PollFd)
           /\ pChannels' = pChannels \cup {c}
  <1>e. /\ events \in [Channels -> SUBSET Event] /\ pIndex \in [Channels -> Nat]
        /\ pollfds \in Seq(PollFd) /\ pChannels \subseteq Channels /\ Len(pollfds) \in Nat
    BY DEF PollersInv, PollersTypes
  <1>r. PICK entry \in PollFd :
            entry = [fd |-> c, ignored |-> evs = {}, events |-> evs]
    <2>1. [fd |-> c, ignored |-> evs = {}, events |-> evs] \in PollFd
      BY Zenon DEF PollFd
    <2> QED
      BY <2>1, Zenon
  <1>d. entry.fd = c
    BY <1>r, Zenon
  <1>p. events'[c] = evs /\ \A d \in Channels : d # c => events'[d] = events[d]
    BY <1>e
  <1>q. PollFdOf(c)' = entry /\ \A d \in Channels : d # c => PollFdOf(d)' = PollFdOf(d)
    BY <1>r, <1>p, Zenon DEF PollFdOf
  <1>o. PollOK
    BY DEF PollersInv
  <1>f. ASSUME NEW i \in 1 .. Len(pollfds)
        PROVE  pollfds[i] \in PollFd
    BY <1>e
  <1>1. CASE c \notin pChannels
    <2>1. pIndex[c] = 0 /\ evs # {}
      BY <1>1, Zenon DEF PollersInv, PollOK
    <2>2. /\ pollfds' = Append(pollfds, [fd |-> c, ignored |-> FALSE, events |-> evs])
          /\ pIndex' = [pIndex EXCEPT ![c] = Len(pollfds) + 1]
          /\ pChannels' = pChannels \cup {c}
      BY <2>1 DEF PollUpdate
    <2>3. pollfds' = Append(pollfds, entry)
      BY <1>r, <2>1, <2>2, Zenon
    <2>4. /\ pollfds' \in Seq(PollFd) /\ Len(pollfds') = Len(pollfds) + 1
          /\ \A i \in 1 .. Len(pollfds) : pollfds'[i] = pollfds[i]
          /\ pollfds'[Len(pollfds) + 1] = entry
      <3>1. PICK s, t, S : s = pollfds /\ t = pollfds' /\ S = PollFd
        OBVIOUS
      <3>2. s \in Seq(S) /\ entry \in S /\ t = Append(s, entry)
        BY <1>e, <2>3, <3>1, Zenon
      <3>3. /\ t \in Seq(S) /\ Len(t) = Len(s) + 1 /\ t[Len(s) + 1] = entry
            /\ \A i \in 1 .. Len(s) : t[i] = s[i]
        BY ONLY <3>2, PushBack
      <3> QED
        BY <3>1, <3>3, Zenon
    <2>i. /\ pIndex'[c] = Len(pollfds) + 1 /\ c \in pChannels'
          /\ \A d \in Channels : d # c => pIndex'[d] = pIndex[d]
      BY <1>e, <2>2
    <2>l. /\ Len(pollfds) + 1 \in 1 .. Len(pollfds')
          /\ \A i \in 1 .. Len(pollfds) : i \in 1 .. Len(pollfds')
          /\ \A i \in 1 .. Len(pollfds') :
                i # Len(pollfds) + 1 => i \in 1 .. Len(pollfds)
      <3>1. PICK m \in Nat : m = Len(pollfds) /\ m + 1 = Len(pollfds')
        BY <1>e, <2>4, Zenon
      <3>2. /\ m + 1 \in 1 .. m + 1 /\ \A i \in 1 .. m : i \in 1 .. m + 1
            /\ \A i \in 1 .. m + 1 : i # m + 1 => i \in 1 .. m
        OBVIOUS
      <3> QED
        BY <3>1, <3>2, Zenon
    <2>5. \A d \in pChannels' : pIndex'[d] \in 1 .. Len(pollfds')
                                /\ pollfds'[pIndex'[d]] = PollFdOf(d)'
      <3> TAKE d \in pChannels'
      <3>1. CASE d = c
        BY <1>q, <2>4, <2>i, <2>l, <3>1, Zenon
      <3>2. CASE d # c
        <4>1. d \in pChannels /\ d \in Channels
          BY <1>e, <2>2, <3>2, Zenon
        <4>2. pIndex[d] \in 1 .. Len(pollfds) /\ pollfds[pIndex[d]] = PollFdOf(d)
          BY <1>o, <4>1, Zenon DEF PollOK
        <4>3. pIndex'[d] = pIndex[d] /\ PollFdOf(d)' = PollFdOf(d)
          BY <1>q, <2>i, <3>2, <4>1, Zenon
        <4> QED
          BY <2>4, <2>l, <4>2, <4>3, Zenon
      <3> QED
        BY <3>1, <3>2, Zenon
    <2>6. \A i \in 1 .. Len(pollfds') :
              pollfds'[i].fd \in pChannels' /\ pIndex'[pollfds'[i].fd] = i
      <3> TAKE i \in 1 .. Len(pollfds')
      <3>1. CASE i = Len(pollfds) + 1
        BY <1>d, <2>4, <2>i, <3>1, Zenon
      <3>2. CASE i # Len(pollfds) + 1
        <4>1. i \in 1 .. Len(pollfds)
          BY <2>l, <3>2, Zenon
        <4>2. PICK d \in pChannels : d = pollfds[i].fd /\ pIndex[d] = i
          BY <1>o, <4>1, Zenon DEF PollOK
        <4>3. pollfds'[i].fd = d /\ d \in Channels /\ d # c /\ d \in pChannels'
          BY <1>e, <1>1, <2>2, <2>4, <4>1, <4>2, Zenon
        <4> QED
          BY <2>i, <4>2, <4>3, Zenon
      <3> QED
        BY <3>1, <3>2, Zenon
    <2>7. \A d \in Channels : d \notin pChannels' /\ d \notin removed' => pIndex'[d] = 0
      BY <1>e, <2>2 DEF PollersInv, PollOK
    <2>8. PollOK'
      BY <2>5, <2>6, <2>7, Zenon DEF PollOK
    <2>9. PollUpdateAsserts(c) /\ pIndex' \in [Channels -> Nat]
      BY <1>e, <1>1, <2>1, <2>2 DEF PollUpdateAsserts
    <2> QED
      BY <2>2, <2>4, <2>8, <2>9, Zenon
  <1>2. CASE c \in pChannels
    <2>0. pIndex[c] \in 1 .. Len(pollfds) /\ pollfds[pIndex[c]] = PollFdOf(c)
      BY <1>o, <1>2, Zenon DEF PollOK
    <2>1. PICK k \in 1 .. Len(pollfds) : k = pIndex[c] /\ k # 0 /\ pollfds[k].fd = c
      <3>1. pIndex[c] # 0
        BY <1>e, <2>0
      <3> QED
        BY <2>0, <3>1, PollFdFields, Zenon
    <2>2. /\ pollfds' = [pollfds EXCEPT ![k] =
                            [fd |-> c, ignored |-> evs = {}, events |-> evs]]
          /\ pIndex' = pIndex /\ pChannels' = pChannels
      BY <2>1, Zenon DEF PollUpdate
    <2>4. /\ pollfds' \in Seq(PollFd) /\ Len(pollfds') = Len(pollfds)
          /\ pollfds'[k] = entry
          /\ \A i \in 1 .. Len(pollfds) : i # k => pollfds'[i] = pollfds[i]
      <3>1. PICK s, t, S : s = pollfds /\ t = pollfds' /\ S = PollFd
        OBVIOUS
      <3>2. s \in Seq(S) /\ entry \in S /\ k \in 1 .. Len(s) /\ t = [s EXCEPT ![k] = entry]
        BY <1>e, <1>r, <2>2, <3>1, Zenon
      <3>3. /\ t \in Seq(S) /\ Len(t) = Len(s) /\ t[k] = entry
            /\ \A i \in 1 .. Len(s) : i # k => t[i] = s[i]
        BY ONLY <3>2, Assigned
      <3> QED
        BY <3>1, <3>3, Zenon
    <2>5. \A d \in pChannels' : pIndex'[d] \in 1 .. Len(pollfds')
                                /\ pollfds'[pIndex'[d]] = PollFdOf(d)'
      <3> TAKE d \in pChannels'
      <3>1. /\ d \in pChannels /\ d \in Channels /\ pIndex'[d] = pIndex[d]
            /\ pIndex[d] \in 1 .. Len(pollfds) /\ pollfds[pIndex[d]] = PollFdOf(d)
        BY <1>e, <1>o, <2>2, Zenon DEF PollOK
      <3>2. CASE d = c
        BY <1>q, <2>1, <2>4, <3>1, <3>2, Zenon
      <3>3. CASE d # c
        <4>1. pIndex[d] # k
          <5>1. pollfds[pIndex[d]].fd = d
            BY <3>1, PollFdFields, Zenon
          <5> QED
            BY <2>1, <3>3, <5>1, Zenon
        <4> QED
          BY <1>q, <2>4, <3>1, <3>3, <4>1, Zenon
      <3> QED
        BY <3>2, <3>3, Zenon
    <2>6. \A i \in 1 .. Len(pollfds') :
              pollfds'[i].fd \in pChannels' /\ pIndex'[pollfds'[i].fd] = i
      <3> TAKE i \in 1 .. Len(pollfds')
      <3>1. i \in 1 .. Len(pollfds)
        BY <2>4, Zenon
      <3>2. pollfds[i].fd \in pChannels /\ pIndex[pollfds[i].fd] = i
        BY <1>o, <3>1, Zenon DEF PollOK
      <3>3. pollfds'[i].fd = pollfds[i].fd
        BY <1>d, <2>1, <2>4, <3>1, Zenon
      <3> QED
        BY <2>2, <3>2, <3>3
    <2>7. \A d \in Channels : d \notin pChannels' /\ d \notin removed' => pIndex'[d] = 0
      BY <2>2 DEF PollersInv, PollOK
    <2>8. PollOK'
      BY <2>5, <2>6, <2>7, Zenon DEF PollOK
    <2>9. PollUpdateAsserts(c)
      BY <1>e, <1>2, <2>1 DEF PollUpdateAsserts
    <2> QED
      BY <1>e, <1>2, <2>2, <2>4, <2>8, <2>9, Zenon
  <1> QED
    BY <1>1, <1>2

\* updateChannel of EPollPoller keeps the table and the epoll set in step.
LEMMA EPollUpdateOK ==
    ASSUME PollersInv, NEW c \in Channels, NEW evs \in SUBSET Event,
           EPollUpdate(c, evs), events' = [events EXCEPT ![c] = evs],
           pChannels' = pChannels \cup {c}
    PROVE  /\ EPollUpdateAsserts(c) /\ EPollOK'
           /\ eIndex' \in [Channels -> {"kNew", "kAdded", "kDeleted"}]
           /\ eChannels' \subseteq Channels /\ added' \subseteq Channels
           /\ interest' \in [Channels -> SUBSET Event]
  <1>e. /\ events \in [Channels -> SUBSET Event]
        /\ eIndex \in [Channels -> {"kNew", "kAdded", "kDeleted"}]
        /\ eChannels \subseteq Channels /\ added \subseteq Channels
        /\ interest \in [Channels -> SUBSET Event]
    BY DEF PollersInv, PollersTypes
  <1>o. EPollOK
    BY DEF PollersInv
  <1>0. EPollUpdateAsserts(c)
    <2>1. (eIndex[c] = "kAdded") = (c \in added)
      BY <1>o DEF EPollOK
    <2> QED
      BY <1>o, <2>1, Zenon DEF EPollOK, EPollUpdateAsserts
  <1>1. CASE eIndex[c] = "kAdded" /\ evs = {}
    <2>1. /\ added' = added \ {c} /\ interest' = interest /\ eChannels' = eChannels
          /\ eIndex' = [eIndex EXCEPT ![c] = "kDeleted"]
      BY <1>1 DEF EPollUpdate
    <2>2. c \in eChannels
      BY <1>1, <1>o, Zenon DEF EPollOK
    <2> QED
      BY <1>e, <1>o, <1>0, <1>1, <2>1, <2>2 DEF EPollOK
  <1>2. CASE eIndex[c] = "kAdded" /\ evs # {}
    <2>1. /\ interest' = [interest EXCEPT ![c] = evs] /\ added' = added
          /\ eIndex' = eIndex /\ eChannels' = eChannels
      BY <1>2 DEF EPollUpdate
    <2>2. c \in eChannels
      BY <1>2, <1>o, Zenon DEF EPollOK
    <2> QED
      BY <1>e, <1>o, <1>0, <1>2, <2>1, <2>2 DEF EPollOK
  <1>3. CASE eIndex[c] # "kAdded"
    <2>1. /\ eChannels' = eChannels \cup {c}
          /\ eIndex' = [eIndex EXCEPT ![c] = "kAdded"]
          /\ added' = added \cup {c} /\ interest' = [interest EXCEPT ![c] = evs]
      BY <1>3, <1>o DEF EPollUpdate, EPollOK
    <2> QED
      BY <1>e, <1>o, <1>0, <1>3, <2>1 DEF EPollOK
  <1> QED
    BY <1>1, <1>2, <1>3

\* A call of Channel::update keeps the invariant.
LEMMA UpdateOK ==
    ASSUME PollersInv, NEW c \in Channels, NEW evs \in SUBSET Event, c \notin removed,
           c \in pChannels \/ evs # {}, Update(c, evs)
    PROVE  PollersInv'
  <1>1. /\ PollUpdate(c, evs) /\ EPollUpdate(c, evs) /\ removed' = removed
        /\ events' = [events EXCEPT ![c] = evs]
    BY DEF Update
  <1>2. /\ PollUpdateAsserts(c) /\ PollOK'
        /\ pIndex' \in [Channels -> Nat] /\ pollfds' \in Seq(PollFd)
        /\ pChannels' = pChannels \cup {c}
    BY <1>1, PollUpdateOK, Zenon
  <1>3. /\ EPollUpdateAsserts(c) /\ EPollOK'
        /\ eIndex' \in [Channels -> {"kNew", "kAdded", "kDeleted"}]
        /\ eChannels' \subseteq Channels /\ added' \subseteq Channels
        /\ interest' \in [Channels -> SUBSET Event]
    BY <1>1, <1>2, EPollUpdateOK, Zenon
  <1>4. pollAborted' = FALSE
    BY <1>2, <1>3, Zenon DEF Update
  <1>5. PollersTypes'
    BY <1>1, <1>2, <1>3, <1>4, Zenon DEF PollersInv, PollersTypes
  <1>6. /\ \A d \in removed' : d \notin pChannels'
        /\ \A d \in Channels : d \notin pChannels' => events'[d] = {}
    BY <1>1, <1>2 DEF PollersInv, PollersTypes
  <1> QED
    BY <1>2, <1>3, <1>4, <1>5, <1>6, Zenon DEF PollersInv

\* Channel::remove keeps the invariant: the entry that takes c's place is found
\* again under its new index.
LEMMA RemoveOK ==
    ASSUME PollersInv, NEW c \in Channels, Remove(c)
    PROVE  PollersInv'
  <1> DEFINE n == Len(pollfds)
             k == pIndex[c]
             last == pollfds[n].fd
  <1>e. /\ events \in [Channels -> SUBSET Event] /\ pIndex \in [Channels -> Nat]
        /\ pollfds \in Seq(PollFd) /\ pChannels \subseteq Channels /\ n \in Nat
        /\ eIndex \in [Channels -> {"kNew", "kAdded", "kDeleted"}]
        /\ eChannels \subseteq Channels /\ added \subseteq Channels
        /\ interest \in [Channels -> SUBSET Event] /\ removed \subseteq Channels
    BY DEF PollersInv, PollersTypes
  <1>o. PollOK /\ EPollOK
    BY Zenon DEF PollersInv
  <1>c. c \in pChannels /\ events[c] = {}
    BY Zenon DEF Remove
  <1>k. /\ k \in 1 .. n /\ n \in 1 .. n /\ n - 1 \in Nat
        /\ pollfds[k] = PollFdOf(c) /\ pollfds[k].fd = c
        /\ last \in pChannels /\ pIndex[last] = n
    <2>1. k \in 1 .. n /\ pollfds[k] = PollFdOf(c)
      BY <1>c, <1>o, Zenon DEF PollOK
    <2>2. n \in 1 .. n /\ n - 1 \in Nat
      BY <1>e, <2>1
    <2>3. last \in pChannels /\ pIndex[last] = n
      BY <1>o, <2>2 DEF PollOK
    <2> QED
      BY <2>1, <2>2, <2>3, PollFdFields, Zenon
  <1>1. PollRemoveAsserts(c)
    <2>1. pollfds[k].ignored = TRUE /\ pollfds[k].events = {}
      BY <1>c, <1>k, PollFdFields, Zenon
    <2> QED
      BY <1>c, <1>k, <2>1, Zenon DEF PollRemoveAsserts
  <1>2. EPollRemoveAsserts(c)
    BY <1>e, <1>c, <1>o DEF EPollRemoveAsserts, EPollOK
  <1>3. pollAborted' = FALSE
    BY <1>1, <1>2, Zenon DEF Remove
  <1>4. /\ pChannels' = pChannels \ {c} /\ removed' = removed \cup {c} /\ events' = events
        /\ pollfds' = [i \in 1 .. n - 1 |-> IF i = k THEN pollfds[n] ELSE pollfds[i]]
        /\ pIndex' = IF k = n THEN pIndex ELSE [pIndex EXCEPT ![last] = k]
    BY DEF Remove, PollRemove
  <1>5. /\ pollfds' \in Seq(PollFd) /\ Len(pollfds') = n - 1
        /\ \A i \in 1 .. n - 1 : pollfds'[i] = IF i = k THEN pollfds[n] ELSE pollfds[i]
    <2>1. \A i \in 1 .. n : pollfds[i] \in PollFd
      BY <1>e
    <2>2. \A i \in 1 .. n - 1 : (IF i = k THEN pollfds[n] ELSE pollfds[i]) \in PollFd
      <3>1. \A i \in 1 .. n - 1 : i \in 1 .. n
        BY <1>e
      <3> QED
        BY <1>k, <2>1, <3>1, Zenon
    <2> HIDE DEF n, k
    <2> QED
      BY <1>k, <1>4, <2>2
  <1>6. /\ pIndex' \in [Channels -> Nat]
        /\ \A d \in Channels : d # last => pIndex'[d] = pIndex[d]
        /\ pIndex'[last] = k
    BY <1>e, <1>k, <1>4, Zenon
  <1> HIDE DEF n, k, last
  <1>7. \A d \in pChannels' : pIndex'[d] \in 1 .. Len(pollfds')
                              /\ pollfds'[pIndex'[d]] = PollFdOf(d)'
    <2> TAKE d \in pChannels'
    <2>1. /\ d \in pChannels /\ d # c /\ d \in Channels
          /\ pIndex[d] \in 1 .. n /\ pollfds[pIndex[d]] = PollFdOf(d)
          /\ PollFdOf(d)' = PollFdOf(d) /\ PollFdOf(d).fd = d
      BY <1>e, <1>4, <1>o, Zenon DEF PollOK, PollFdOf, n
    <2>2. CASE d = last
      <3>1. pIndex[d] = n /\ k # n
        BY <1>k, <2>1, <2>2, Zenon
      <3>2. k \in 1 .. n - 1
        BY <1>e, <1>k, <3>1
      <3>3. pollfds'[k] = pollfds[n] /\ pIndex'[d] = k
        BY <1>5, <1>6, <2>2, <3>2, Zenon
      <3> QED
        BY <1>5, <2>1, <3>1, <3>2, <3>3, Zenon
    <2>3. CASE d # last
      <3>1. pIndex[d] # n /\ pIndex[d] # k
        BY <1>k, <2>1, <2>3, Zenon DEF last
      <3>2. pIndex[d] \in 1 .. n - 1
        BY <1>e, <2>1, <3>1
      <3>3. pollfds'[pIndex[d]] = pollfds[pIndex[d]] /\ pIndex'[d] = pIndex[d]
        BY <1>5, <1>6, <2>1, <2>3, <3>1, <3>2, Zenon
      <3> QED
        BY <1>5, <2>1, <3>2, <3>3, Zenon
    <2> QED
      BY <2>2, <2>3, Zenon
  <1>8. \A i \in 1 .. Len(pollfds') :
            pollfds'[i].fd \in pChannels' /\ pIndex'[pollfds'[i].fd] = i
    <2> TAKE i \in 1 .. Len(pollfds')
    <2>0. i \in 1 .. n - 1 /\ i \in 1 .. n /\ i # n
      <3>1. i \in 1 .. n - 1
        BY <1>5, Zenon
      <3> QED
        BY <1>e, <3>1
    <2>1. PICK d \in pChannels : d = pollfds[i].fd /\ pIndex[d] = i
      BY <2>0, <1>o, Zenon DEF PollOK, n
    <2>2. CASE i = k
      <3>1. pollfds'[i].fd = last
        BY <1>5, <2>0, <2>2, Zenon DEF last
      <3>2. last # c
        BY <1>k, <2>0, <2>2, Zenon DEF k
      <3>3. last \in pChannels' /\ pIndex'[last] = i
        BY <1>k, <1>4, <1>6, <2>2, <3>2, Zenon
      <3> QED
        BY <3>1, <3>3, Zenon
    <2>3. CASE i # k
      <3>1. pollfds'[i].fd = d
        BY <1>5, <2>0, <2>1, <2>3, Zenon
      <3>2. d # last /\ d # c /\ d \in Channels
        BY <1>e, <1>k, <2>0, <2>1, <2>3, Zenon DEF k
      <3>3. d \in pChannels' /\ pIndex'[d] = i
        BY <1>4, <1>6, <2>1, <3>2, Zenon
      <3> QED
        BY <3>1, <3>3, Zenon
    <2> QED
      BY <2>2, <2>3, Zenon
  <1>9. \A d \in Channels : d \notin pChannels' /\ d \notin removed' => pIndex'[d] = 0
    BY <1>k, <1>4, <1>6, <1>o DEF PollOK
  <1>10. PollOK'
    BY <1>7, <1>8, <1>9, Zenon DEF PollOK
  <1>11. /\ eChannels' = eChannels \ {c} /\ interest' = interest
         /\ added' = added \ {c}
         /\ eIndex' = [eIndex EXCEPT ![c] = "kNew"]
    BY <1>o, Zenon DEF Remove, EPollRemove, EPollOK
  <1>12. EPollOK'
    BY <1>e, <1>o, <1>4, <1>11 DEF EPollOK
  <1>13. PollersTypes'
    BY <1>e, <1>3, <1>4, <1>5, <1>6, <1>11, Zenon DEF PollersTypes
  <1>14. /\ \A d \in removed' : d \notin pChannels'
         /\ \A d \in Channels : d \notin pChannels' => events'[d] = {}
    BY <1>c, <1>4, Zenon DEF PollersInv
  <1> QED
    BY <1>3, <1>10, <1>12, <1>13, <1>14, Zenon DEF PollersInv

\* A new Channel on a descriptor whose Channel was removed keeps the invariant.
LEMMA RenewOK ==
    ASSUME PollersInv, NEW c \in Channels, Renew(c)
    PROVE  PollersInv'
  <1>1. c \in removed /\ c \notin pChannels /\ c \notin eChannels /\ c \notin added
    BY Zenon DEF Renew, PollersInv, EPollOK
  <1>2. pollAborted' = FALSE
    <2>1. (c \in pChannels \cup eChannels) = FALSE
      BY <1>1
    <2> QED
      BY <2>1, Zenon DEF Renew
  <1>3. /\ removed' = removed \ {c} /\ events' = [events EXCEPT ![c] = {}]
        /\ pIndex' = [pIndex EXCEPT ![c] = 0] /\ eIndex' = [eIndex EXCEPT ![c] = "kNew"]
        /\ pChannels' = pChannels /\ pollfds' = pollfds /\ eChannels' = eChannels
        /\ added' = added /\ interest' = interest
    BY DEF Renew
  <1>4. PollersTypes'
    BY <1>2, <1>3, Zenon DEF PollersInv, PollersTypes
  <1>5. PollOK'
    <2>1. \A d \in pChannels : pIndex'[d] = pIndex[d] /\ PollFdOf(d)' = PollFdOf(d)
      BY <1>1, <1>3, Zenon DEF PollersInv, PollersTypes, PollFdOf
    <2>2. PollOK
      BY Zenon DEF PollersInv
    <2>3. ASSUME NEW d \in pChannels'
          PROVE  pIndex'[d] \in 1 .. Len(pollfds') /\ pollfds'[pIndex'[d]] = PollFdOf(d)'
      <3>1. d \in pChannels /\ pIndex'[d] = pIndex[d] /\ PollFdOf(d)' = PollFdOf(d)
        BY <1>3, <2>1, <2>3, Zenon
      <3>2. pIndex[d] \in 1 .. Len(pollfds) /\ pollfds[pIndex[d]] = PollFdOf(d)
        BY <2>2, <3>1, Zenon DEF PollOK
      <3> QED
        BY <1>3, <3>1, <3>2, Zenon
    <2>4. ASSUME NEW i \in 1 .. Len(pollfds')
          PROVE  pollfds'[i].fd \in pChannels' /\ pIndex'[pollfds'[i].fd] = i
      <3>1. PICK d \in pChannels : d = pollfds[i].fd /\ pIndex[d] = i
        BY <1>3, <2>2, <2>4, Zenon DEF PollOK
      <3>2. pollfds'[i].fd = d /\ d \in pChannels' /\ pIndex'[d] = i
        BY <1>3, <2>1, <3>1, Zenon
      <3> QED
        BY <3>2, Zenon
    <2>5. \A d \in Channels : d \notin pChannels' /\ d \notin removed' => pIndex'[d] = 0
      BY <1>3, <2>2 DEF PollersInv, PollersTypes, PollOK
    <2> QED
      BY <2>3, <2>4, <2>5, Zenon DEF PollOK
  <1>6. EPollOK'
    BY <1>1, <1>3 DEF PollersInv, PollersTypes, EPollOK
  <1> QED
    BY <1>1, <1>2, <1>3, <1>4, <1>5, <1>6, Zenon DEF PollersInv, PollersTypes

----------------------------------------------------------------------------
\* The inductive invariant holds in every reachable state.
LEMMA PollersInvariant == PollersSpec => []PollersInv
  <1>1. PollersInit => PollersInv
    <2> SUFFICES ASSUME PollersInit PROVE PollersInv
      OBVIOUS
    <2>0. pollfds \in Seq(PollFd)
      BY DEF PollersInit
    <2>1. PollersTypes /\ pollAborted = FALSE
      BY <2>0, Zenon DEF PollersInit, PollersTypes
    <2>2. \A i : i \notin 1 .. Len(pollfds)
      BY DEF PollersInit
    <2>3. PollOK
      BY <2>2, Zenon DEF PollersInit, PollOK
    <2>4. EPollOK
      BY DEF PollersInit, EPollOK
    <2> QED
      BY <2>1, <2>3, <2>4, Zenon DEF PollersInit, PollersInv
  <1>2. PollersInv /\ [PollersNext]_pollersVars => PollersInv'
    <2> SUFFICES ASSUME PollersInv, [PollersNext]_pollersVars PROVE PollersInv'
      OBVIOUS
    <2>1. CASE UNCHANGED pollersVars
      BY <2>1, Zenon DEF PollersInv, PollersTypes, PollOK, EPollOK, PollFdOf, pollersVars,
                         pollVars, epollVars
    <2>2. CASE PollersNext
      <3> PICK c \in Channels :
              \/ \E e \in Event : Enable(c, e) \/ Disable(c, e)
              \/ DisableAll(c) \/ Remove(c) \/ Renew(c)
        BY <2>2 DEF PollersNext
      <3>0. events[c] \in SUBSET Event /\ (c \in pChannels => c \notin removed)
        BY DEF PollersInv, PollersTypes
      <3>1. ASSUME NEW e \in Event, Enable(c, e) PROVE PollersInv'
        BY <3>0, <3>1, UpdateOK, Zenon DEF Enable
      <3>2. ASSUME NEW e \in Event, Disable(c, e) PROVE PollersInv'
        BY <3>0, <3>2, UpdateOK, Zenon DEF Disable
      <3>3. ASSUME DisableAll(c) PROVE PollersInv'
        BY <3>0, <3>3, UpdateOK, Zenon DEF DisableAll
      <3> QED
        BY <3>1, <3>2, <3>3, RemoveOK, RenewOK
    <2> QED
      BY <2>1, <2>2
  <1> QED
    BY <1>1, <1>2, PTL DEF PollersSpec

\* Type correctness of the two pollers (updateChannel and removeChannel of
\* PollPoller and EPollPoller), for any set of channels.
THEOREM PollersTypeOK == PollersSpec => []PollersTypes
  <1>1. PollersInv => PollersTypes
    BY DEF PollersInv
  <1> QED
    BY <1>1, PollersInvariant, PTL

\* No assertion of PollPoller or EPollPoller fails, for any set of channels, as
\* long as a channel's first update enables an event.
THEOREM PollersNoAbort == PollersSpec => []PollersHold
  <1>1. PollersInv => PollersHold
    BY DEF PollersInv, PollersHold
  <1> QED
    BY <1>1, PollersInvariant, PTL

\* PollPoller and EPollPoller report the same channels (fillActiveChannels), for
\* any set of channels and whatever is ready.
THEOREM PollersAgree == PollersSpec => []SameEvents
  <1>1. PollersInv => SameEvents
    <2> SUFFICES ASSUME PollersInv, NEW ready \in [Channels -> SUBSET Ready]
                 PROVE  LET asked == {c \in pChannels :
                                events[c] # {} /\ (events[c] \cup {"error"}) \cap ready[c] # {}}
                        IN  /\ PollActive(ready) = asked
                            /\ {c \in EPollActive(ready) : events[c] # {}} = asked
      BY DEF SameEvents
    <2> DEFINE asked == {c \in pChannels :
                  events[c] # {} /\ (events[c] \cup {"error"}) \cap ready[c] # {}}
    <2>1. ASSUME NEW c \in PollActive(ready)
          PROVE  c \in asked
      <3>1. PICK i \in 1 .. Len(pollfds) :
                /\ pollfds[i].fd = c /\ ~pollfds[i].ignored
                /\ (pollfds[i].events \cup {"error"}) \cap ready[c] # {}
        BY <2>1 DEF PollActive
      <3>2. c \in pChannels /\ pIndex[c] = i /\ pollfds[i] = PollFdOf(c)
        BY <3>1, Zenon DEF PollersInv, PollOK
      <3>3. pollfds[i].events = events[c] /\ pollfds[i].ignored = (events[c] = {})
        BY <3>2, PollFdFields, Zenon
      <3>4. events[c] # {}
        BY <3>1, <3>3, Zenon
      <3> QED
        BY <3>1, <3>2, <3>3, <3>4
    <2>2. ASSUME NEW c \in asked
          PROVE  c \in PollActive(ready)
      <3>1. /\ c \in pChannels /\ c \in Channels /\ events[c] # {}
            /\ pIndex[c] \in 1 .. Len(pollfds) /\ pollfds[pIndex[c]] = PollFdOf(c)
        BY <2>2 DEF PollersInv, PollersTypes, PollOK
      <3>2. /\ pollfds[pIndex[c]].fd = c /\ pollfds[pIndex[c]].events = events[c]
            /\ pollfds[pIndex[c]].ignored = FALSE
        BY <3>1, PollFdFields, Zenon
      <3> QED
        BY <2>2, <3>1, <3>2 DEF PollActive
    <2>3. PollActive(ready) = asked
      BY <2>1, <2>2, Zenon
    <2>4. {c \in EPollActive(ready) : events[c] # {}} = asked
      BY DEF EPollActive, PollersInv, PollersTypes, EPollOK
    <2> QED
      BY <2>3, <2>4
  <1> QED
    BY <1>1, PollersInvariant, PTL
=============================================================================
