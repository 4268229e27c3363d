----------------------------- MODULE TimerQueue -----------------------------
(***************************************************************************)
(* The timers of one EventLoop (net/TimerQueue.cc, net/Timer.cc): two      *)
(* ordered sets over heap-allocated Timers, one timerfd armed for the      *)
(* earliest of them, and a sequence number that tells a Timer from an      *)
(* older one that lived at the same address.                               *)
(*                                                                         *)
(* Times are counted in ticks of 100 microseconds, the least the code arms *)
(* the timerfd for, and are relative to the present: Tick moves all of     *)
(* them one closer, and 0 stands for every time that is not in the future. *)
(***************************************************************************)
EXTENDS Integers, Sequences, FiniteSets

CONSTANTS
    Threads,     \* threads other than the loop's
    Addrs,       \* addresses the allocator hands out for Timers
    Delays,      \* the delays asked for with runAfter
    Intervals,   \* the intervals asked for with runEvery
    MaxTime,     \* bound on delays and intervals
    MaxTimers,   \* bound on the Timers ever created
    MaxPending,  \* bound on the functors queued
    NoTimer

ASSUME TimeAssumption ==
    /\ MaxTime \in Nat \ {0} /\ MaxTimers \in Nat /\ MaxPending \in Nat
    /\ Delays \subseteq 0..MaxTime /\ Intervals \subseteq 1..MaxTime
    /\ NoTimer \notin [sequence : Nat, expiration : Nat, interval : Nat]

VARIABLES
    heap,            \* the Timer at an address, or NoTimer
    numCreated,      \* Timer::s_numCreated_
    timers,          \* timers_, ordered by time
    activeTimers,    \* activeTimers_
    calling,         \* callingExpiredTimers_
    cancelingTimers, \* cancelingTimers_
    expired,         \* the local vector of handleRead
    toRun,           \* the entries of it whose callbacks have not run
    late,            \* ticks since handleRead read the clock
    alarm,           \* ticks until the timerfd is readable, Off if disarmed
    pending,         \* pendingFunctors_ of the loop
    functors,        \* the local vector of doPendingFunctors
    phase,           \* where the loop's thread is
    adding,          \* the Timer a thread has queued and not yet read back
    ids,             \* the TimerIds callers hold
    stopped          \* history: sequences of the Timers a cancel has found

queue == <<timers, activeTimers, alarm>>
batch == <<calling, expired, toRun, late>>
loop  == <<pending, functors, phase>>
vars  == <<heap, numCreated, queue, cancelingTimers, batch, loop, adding,
           ids, stopped>>

Off == -1
Time == 0..MaxTime
Sequences == 1..MaxTimers
Timer == [sequence : Sequences, expiration : Time, interval : {0} \cup Intervals]
Entry == [when : Time, timer : Addrs]
TimerId == Addrs \X Sequences
Functor == [op : {"add"}, timer : Addrs] \cup [op : {"cancel"}, id : TimerId]

\* One invariant on the types of the state.
TypeOK ==
    /\ heap \in [Addrs -> Timer \cup {NoTimer}]
    /\ numCreated \in 0..MaxTimers
    /\ timers \subseteq Entry /\ activeTimers \subseteq TimerId
    /\ calling \in BOOLEAN /\ cancelingTimers \subseteq TimerId
    /\ expired \subseteq Entry /\ toRun \subseteq expired
    /\ late \in Time
    /\ alarm \in {Off} \cup Time
    /\ pending \in Seq(Functor) /\ functors \in Seq(Functor)
    /\ phase \in {"poll", "ready", "calling", "callback", "functors"}
    /\ adding \in [Threads -> Addrs \cup {NoTimer}]
    /\ ids \subseteq TimerId /\ stopped \subseteq Sequences

-----------------------------------------------------------------------------
Closer(t) == IF t > 0 THEN t - 1 ELSE t
Larger(s, t) == IF s > t THEN s ELSE t

\* howMuchTimeFromNow never answers less than one tick.
resetTimerfd(when) == Larger(when, 1)

ActiveTimer(h, a) == <<a, h[a].sequence>>
EntryOf(h, a) == [when |-> h[a].expiration, timer |-> a]

\* Mutant: the first timer of an empty queue is not seen as the earliest.
MutNotFirst(when) == {\E e \in timers : \A f \in timers : e.when <= f.when /\ when < e.when}

(***************************************************************************)
(* insert answers whether the new entry is the earliest.  Between two      *)
(* times that have both passed the relative clock keeps no order, so both  *)
(* answers are possible.                                                   *)
(***************************************************************************)
earliestChanged(when) ==
    IF \A e \in timers : when < e.when THEN {TRUE}
    ELSE IF when = 0 THEN BOOLEAN ELSE {FALSE}

\* addTimerInLoop, for the Timer at address a of heap h.
addTimerInLoop(h, a) ==
    /\ timers' = timers \cup {EntryOf(h, a)}
    /\ activeTimers' = activeTimers \cup {ActiveTimer(h, a)}
    /\ \E changed \in earliestChanged(h[a].expiration) :
          alarm' = IF changed THEN resetTimerfd(h[a].expiration) ELSE alarm

\* Mutant: activeTimers_ keeps the cancelled Timer.
MutEraseOne(id) ==
    /\ IF id \in activeTimers
       THEN /\ timers' = timers \ {EntryOf(heap, id[1])}
            /\ heap' = [heap EXCEPT ![id[1]] = NoTimer]
       ELSE UNCHANGED <<timers, heap>>
    /\ UNCHANGED <<activeTimers, cancelingTimers, stopped, alarm>>

cancelInLoop(id) ==
    /\ IF id \in activeTimers
       THEN /\ timers' = timers \ {EntryOf(heap, id[1])}
            /\ activeTimers' = activeTimers \ {id}
            /\ heap' = [heap EXCEPT ![id[1]] = NoTimer]
            /\ UNCHANGED cancelingTimers
       ELSE /\ cancelingTimers' = IF calling THEN cancelingTimers \cup {id}
                                             ELSE cancelingTimers
            /\ UNCHANGED <<timers, activeTimers, heap>>
    /\ stopped' = IF \/ id \in activeTimers
                     \/ \E e \in expired : id = ActiveTimer(heap, e.timer)
                  THEN stopped \cup {id[2]} ELSE stopped
    /\ UNCHANGED alarm

\* new Timer: the allocator picks any free address.
NewTimer(a, delay, interval) ==
    /\ numCreated < MaxTimers
    /\ heap[a] = NoTimer
    /\ numCreated' = numCreated + 1
    /\ heap' = [heap EXCEPT ![a] = [sequence |-> numCreated + 1,
                                    expiration |-> delay,
                                    interval |-> interval]]

\* What runAfter and runEvery ask addTimer for.
Requests == (Delays \X {0}) \cup {<<i, i>> : i \in Intervals}

-----------------------------------------------------------------------------
(***************************************************************************)
(* The loop's thread.  User code runs on it in the handlers of other       *)
(* channels, before the timerfd's (phase "ready") or with none of it due   *)
(* (phase "functors"), in timer callbacks, and in functors.                *)
(***************************************************************************)
UserCode == phase \in {"ready", "callback", "functors"}

\* addTimer on the loop's thread: runInLoop runs the functor at once.
LoopAddTimer(a) ==
    /\ UserCode
    /\ \E r \in Requests : NewTimer(a, r[1], r[2])
    /\ addTimerInLoop(heap', a)
    /\ ids' = ids \cup {ActiveTimer(heap', a)}
    /\ UNCHANGED <<cancelingTimers, batch, loop, adding, stopped>>

LoopCancel(id) ==
    /\ UserCode
    /\ cancelInLoop(id)
    /\ UNCHANGED <<numCreated, batch, loop, adding, ids>>

\* The poller reports the timerfd, or returns for another channel or after
\* its timeout.
Poll ==
    /\ phase = "poll"
    /\ phase' = IF alarm = 0 THEN "ready" ELSE "functors"
    /\ UNCHANGED <<heap, numCreated, queue, cancelingTimers, batch, pending,
                   functors, adding, ids, stopped>>

getExpired == {e \in timers : e.when = 0}

\* handleRead up to the callbacks.  The timerfd does not block: the read
\* fails when a handler before it has armed the timerfd again.
HandleRead ==
    /\ phase = "ready"
    /\ alarm' = IF alarm = 0 THEN Off ELSE alarm
    /\ expired' = getExpired
    /\ toRun' = getExpired
    /\ timers' = timers \ getExpired
    /\ activeTimers' = activeTimers \ {ActiveTimer(heap, e.timer) : e \in getExpired}
    /\ calling' = TRUE
    /\ cancelingTimers' = {}
    /\ late' = 0
    /\ phase' = "calling"
    /\ UNCHANGED <<heap, numCreated, pending, functors, adding, ids, stopped>>

\* Timer::run of the next entry of the vector; all their times have passed,
\* so the relative clock keeps no order between them.
RunCallback(e) ==
    /\ phase = "calling" /\ e \in toRun
    /\ toRun' = toRun \ {e}
    /\ phase' = "callback"
    /\ UNCHANGED <<heap, numCreated, queue, cancelingTimers, calling, expired,
                   late, pending, functors, adding, ids, stopped>>

CallbackReturns ==
    /\ phase = "callback"
    /\ phase' = "calling"
    /\ UNCHANGED <<heap, numCreated, queue, cancelingTimers, batch, pending,
                   functors, adding, ids, stopped>>

\* Timer::restart with the time handleRead read before the callbacks.
restart(t) == [t EXCEPT !.expiration = Larger(t.interval - late, 0)]

\* Mutant: reset does not look at cancelingTimers_.
MutRepeatAll == {a \in {e.timer : e \in expired} : heap[a].interval > 0}

\* The addresses of the expired Timers that reset inserts again.
Repeating ==
    {a \in {e.timer : e \in expired} :
        heap[a].interval > 0 /\ ActiveTimer(heap, a) \notin cancelingTimers}

\* Mutant: the timerfd is armed again only for a Timer that repeats.
MutNoRearm ==
    /\ heap' = [a \in Addrs |->
                   IF a \in Repeating THEN restart(heap[a])
                   ELSE IF \E e \in expired : e.timer = a THEN NoTimer
                   ELSE heap[a]]
    /\ timers' = timers \cup {EntryOf(heap', a) : a \in Repeating}
    /\ activeTimers' = activeTimers \cup {ActiveTimer(heap, a) : a \in Repeating}
    /\ alarm' = IF Repeating = {} THEN alarm ELSE 1

reset ==
    /\ heap' = [a \in Addrs |->
                   IF a \in Repeating THEN restart(heap[a])
                   ELSE IF \E e \in expired : e.timer = a THEN NoTimer
                   ELSE heap[a]]
    /\ timers' = timers \cup {EntryOf(heap', a) : a \in Repeating}
    /\ activeTimers' = activeTimers \cup {ActiveTimer(heap, a) : a \in Repeating}
    /\ IF timers' = {} THEN UNCHANGED alarm
       ELSE \E e \in timers' : /\ \A f \in timers' : e.when <= f.when
                               /\ alarm' = resetTimerfd(e.when)

\* The rest of handleRead.
ResetTimers ==
    /\ phase = "calling" /\ toRun = {}
    /\ calling' = FALSE
    /\ reset
    /\ expired' = {} /\ late' = 0
    /\ phase' = "functors"
    /\ UNCHANGED <<numCreated, cancelingTimers, toRun, pending, functors,
                   adding, ids, stopped>>

\* doPendingFunctors takes all functors, or finds none and the loop polls.
SwapFunctors ==
    /\ phase = "functors" /\ functors = <<>>
    /\ functors' = pending
    /\ pending' = <<>>
    /\ phase' = IF pending = <<>> THEN "poll" ELSE "functors"
    /\ UNCHANGED <<heap, numCreated, queue, cancelingTimers, batch, adding,
                   ids, stopped>>

RunFunctor ==
    /\ phase = "functors" /\ functors # <<>>
    /\ LET f == Head(functors) IN
          \/ /\ f.op = "add"
             /\ addTimerInLoop(heap, f.timer)
             /\ UNCHANGED <<heap, cancelingTimers, stopped>>
          \/ /\ f.op = "cancel"
             /\ cancelInLoop(f.id)
    /\ functors' = Tail(functors)
    /\ phase' = IF Len(functors) = 1 THEN "poll" ELSE "functors"
    /\ UNCHANGED <<numCreated, batch, pending, adding, ids>>

-----------------------------------------------------------------------------
(***************************************************************************)
(* Other threads.  addTimer queues addTimerInLoop and only then reads the  *)
(* sequence of the Timer for the TimerId it returns; by that time the loop *)
(* may have run and deleted the Timer, and the read finds anything.        *)
(***************************************************************************)
ThreadAddTimer(t, a) ==
    /\ adding[t] = NoTimer
    /\ Len(pending) < MaxPending
    /\ \E r \in Requests : NewTimer(a, r[1], r[2])
    /\ pending' = Append(pending, [op |-> "add", timer |-> a])
    /\ adding' = [adding EXCEPT ![t] = a]
    /\ UNCHANGED <<queue, cancelingTimers, batch, functors, phase, ids, stopped>>

AddTimerReturns(t) ==
    LET a == adding[t] IN
    /\ a # NoTimer
    /\ \E s \in (IF heap[a] = NoTimer THEN Sequences ELSE {heap[a].sequence}) :
          ids' = ids \cup {<<a, s>>}
    /\ adding' = [adding EXCEPT ![t] = NoTimer]
    /\ UNCHANGED <<heap, numCreated, queue, cancelingTimers, batch, loop, stopped>>

ThreadCancel(t, id) ==
    /\ adding[t] = NoTimer
    /\ Len(pending) < MaxPending
    /\ pending' = Append(pending, [op |-> "cancel", id |-> id])
    /\ UNCHANGED <<heap, numCreated, queue, cancelingTimers, batch, functors,
                   phase, adding, ids, stopped>>

\* Time passes.
Tick ==
    /\ heap' = [a \in Addrs |->
                   IF heap[a] = NoTimer \/ \E e \in expired : e.timer = a
                   THEN heap[a]
                   ELSE [heap[a] EXCEPT !.expiration = Closer(@)]]
    /\ timers' = {[e EXCEPT !.when = Closer(@)] : e \in timers}
    /\ alarm' = Closer(alarm)
    /\ late' = IF calling /\ late < MaxTime THEN late + 1 ELSE late
    /\ UNCHANGED <<numCreated, activeTimers, cancelingTimers, calling, expired,
                   toRun, loop, adding, ids, stopped>>

-----------------------------------------------------------------------------
\* Before loop() is called its thread may already add timers.
Init ==
    /\ heap = [a \in Addrs |-> NoTimer] /\ numCreated = 0
    /\ timers = {} /\ activeTimers = {} /\ alarm = Off
    /\ calling = FALSE /\ cancelingTimers = {}
    /\ expired = {} /\ toRun = {} /\ late = 0
    /\ pending = <<>> /\ functors = <<>> /\ phase = "functors"
    /\ adding = [t \in Threads |-> NoTimer]
    /\ ids = {} /\ stopped = {}

LoopStep ==
    \/ Poll \/ HandleRead \/ CallbackReturns \/ ResetTimers
    \/ \E e \in toRun : RunCallback(e)
    \/ SwapFunctors \/ RunFunctor

Next ==
    \/ LoopStep
    \/ \E a \in Addrs : LoopAddTimer(a)
    \/ \E id \in ids : LoopCancel(id)
    \/ \E t \in Threads, a \in Addrs : ThreadAddTimer(t, a)
    \/ \E t \in Threads : AddTimerReturns(t)
    \/ \E t \in Threads : \E id \in ids : ThreadCancel(t, id)
    \/ Tick

\* The loop's thread keeps running, callbacks return, and time passes.
Spec == Init /\ [][Next]_vars /\ WF_vars(LoopStep) /\ WF_vars(Tick)

-----------------------------------------------------------------------------
Queued == {f \in {pending[i] : i \in DOMAIN pending}
                 \cup {functors[i] : i \in DOMAIN functors} : f.op = "add"}

\* The assertions of TimerQueue.cc, at every step: timers_ and activeTimers_ hold
\* the same live Timers, each once and under the time the Timer itself has, so
\* that every erase finds exactly one; expired and queued Timers are live and in
\* neither set; and no Timer is leaked: one that is neither in timers_, nor in
\* the vector of handleRead, nor in a queued functor has been deleted.
SetsAgree ==
    /\ TypeOK
    /\ \A e \in timers : heap[e.timer] # NoTimer /\ e = EntryOf(heap, e.timer)
    /\ activeTimers = {ActiveTimer(heap, e.timer) : e \in timers}
    /\ \A a \in {e.timer : e \in expired} \cup {f.timer : f \in Queued} :
          heap[a] # NoTimer /\ \A e \in timers : e.timer # a
    /\ \A a \in Addrs : heap[a] # NoTimer =>
          a \in {e.timer : e \in timers} \cup {e.timer : e \in expired}
                \cup {f.timer : f \in Queued}

\* Outside handleRead the timerfd is armed whenever a Timer waits, and for no
\* later than that Timer's time, or one tick when it has passed: whatever was
\* added, cancelled or expired in between, no Timer is forgotten.
Armed ==
    ~calling => \A e \in timers : alarm # Off /\ alarm <= Larger(e.when, 1)

\* A cancel that found its Timer is final: it runs no more, except for the
\* callback of a batch in which it had expired when it was cancelled, and a
\* repeating Timer cancelled by a callback is not inserted again by reset.
CancelIsFinal ==
    [][/\ \A e \in toRun \ toRun' :
             heap[e.timer].sequence \in stopped =>
                 ActiveTimer(heap, e.timer) \in cancelingTimers
       /\ \A id \in activeTimers' \ activeTimers : id[2] \notin stopped]_vars

\* Every Timer in the queue leaves it, to have its callback run or because it
\* is cancelled; a repeating one that is inserted again does so again.
Waiting(s) == \E id \in activeTimers : id[2] = s
TimerFires == \A s \in Sequences : Waiting(s) ~> ~Waiting(s)
=============================================================================
