------------------------ MODULE EventLoopThreadPool ------------------------
(***************************************************************************)
(* net/EventLoopThreadPool.cc, net/EventLoopThread.cc and the part of      *)
(* net/EventLoop.cc that runs a loop in a thread of its own: functors are  *)
(* queued from the base thread and from the loop itself, the eventfd wakes *)
(* the poller, and stop() ends the threads.                                *)
(*                                                                         *)
(* A loop lives on the stack of its thread.  A thread that touches a loop, *)
(* or an EventLoopThread, that no longer exists has undefined behaviour:   *)
(* nothing is claimed after such a step.                                   *)
(***************************************************************************)
EXTENDS Integers, Sequences, Functions

CONSTANTS
    NumThreads,       \* numThreads_
    MaxFunctors       \* bound: functors queued, the ones of stop() aside

ASSUME LoopsAssumption ==
    NumThreads \in Nat \ {0} /\ MaxFunctors \in Nat

Loops == 1 .. NumThreads
Quit == 0               \* the functor that stop() queues
Functor == 0 .. MaxFunctors

VARIABLES
    \* EventLoopThreadPool, and the base thread in it
    base,         \* "start", "wait", "up", "wakeup", "queue", "queued", "delete",
                  \* "quit", "wake", "join" or "stopped"
    cur,          \* the loop it works on
    next,         \* next_
    \* EventLoopThread
    loopPtr,      \* loop_ # nullptr
    deleted,      \* the EventLoopThread has been destroyed
    \* EventLoop, and its thread
    loopAt,       \* where the thread is
    quit, pending, functors, calling,    \* quit_, pendingFunctors_, the functors
                  \* that doPendingFunctors runs, callingPendingFunctors_
    wakeupFd,     \* the eventfd is readable
    \* histories
    issued,       \* number of functors queued
    queued, ran,  \* functors queued and run, for each loop
    initial,      \* functors its init callback has queued
    undefined     \* a destroyed object has been touched

poolVars == <<base, cur, next>>
threadVars == <<loopPtr, deleted>>
loopVars == <<quit, pending, functors, calling, wakeupFd>>
loopsVars == <<poolVars, threadVars, loopAt, loopVars, issued, queued, ran, initial, undefined>>

Exists(l) == loopAt[l] \notin {"none", "create", "gone"}
Touches(ok) == undefined' = ~ok

\* The part of queueInLoop under mutex_.
PushFunctor(l, f) ==
    /\ pending' = [pending EXCEPT ![l] = Append(@, f)]
    /\ queued' = [queued EXCEPT ![l] = Append(@, f)]

----------------------------------------------------------------------------
(* EventLoopThreadPool::start, getNextLoop and stop, on the base thread.   *)

\* Thread::start for the next EventLoopThread.
StartThread ==
    /\ base = "start"
    /\ base' = "wait"
    /\ loopAt' = [loopAt EXCEPT ![cur] = "create"]
    /\ UNCHANGED <<initial, cur, next, threadVars, loopVars, issued, queued, ran,
                   undefined>>

\* The wait of startLoop for loop_ ends.
StartLoop ==
    /\ base = "wait" /\ loopPtr[cur]
    /\ base' = IF cur = NumThreads THEN "up" ELSE "start"
    /\ cur' = IF cur = NumThreads THEN 1 ELSE cur + 1
    /\ UNCHANGED <<initial, next, threadVars, loopAt, loopVars, issued, queued, ran,
                   undefined>>

\* getNextLoop and queueInLoop, as TcpServer::newConnection does.
QueueInLoop ==
    /\ base = "up" /\ issued < MaxFunctors
    /\ issued' = issued + 1
    /\ PushFunctor(next, issued + 1)
    /\ Touches(Exists(next))
    /\ cur' = next
    /\ next' = IF next + 1 > NumThreads THEN 1 ELSE next + 1
    /\ base' = "wakeup"
    /\ UNCHANGED <<initial, threadVars, loopAt, quit, functors, calling, wakeupFd, ran>>

\* wakeup at the end of queueInLoop: this is not the loop's thread.
Wakeup ==
    /\ base = "wakeup"
    /\ wakeupFd' = [wakeupFd EXCEPT ![cur] = TRUE]
    /\ Touches(Exists(cur))
    /\ base' = "up" /\ cur' = 1
    /\ UNCHANGED <<initial, next, threadVars, loopAt, quit, pending, functors, calling, issued,
                   queued, ran>>

\* stop(): it queues a functor that quits the loop, on one loop after the other.
StopLoops ==
    /\ base = "up"
    /\ base' = "queue"
    /\ UNCHANGED <<initial, cur, next, threadVars, loopAt, loopVars, issued, queued, ran,
                   undefined>>

\* Mutant: stop() relies on the destructors.
MutQueueQuit ==
    /\ base = "queue"
    /\ base' = "queued"
    /\ UNCHANGED <<initial, cur, next, threadVars, loopAt, loopVars, issued, queued, ran,
                   undefined>>

QueueQuit ==
    /\ base = "queue"
    /\ PushFunctor(cur, Quit)
    /\ Touches(Exists(cur))
    /\ base' = "queued"
    /\ UNCHANGED <<initial, cur, next, threadVars, loopAt, quit, functors, calling,
                   wakeupFd, issued, ran>>

WakeupQuit ==
    /\ base = "queued"
    /\ wakeupFd' = [wakeupFd EXCEPT ![cur] = TRUE]
    /\ Touches(Exists(cur))
    /\ base' = IF cur = NumThreads THEN "delete" ELSE "queue"
    /\ cur' = IF cur = NumThreads THEN 1 ELSE cur + 1
    /\ UNCHANGED <<initial, next, threadVars, loopAt, quit, pending, functors, calling, issued,
                   queued, ran>>

\* threads_.clear(): ~EventLoopThread reads loop_ without the mutex.
Deleted(l) ==
    /\ deleted' = [deleted EXCEPT ![l] = TRUE]
    /\ base' = IF l = NumThreads THEN "stopped" ELSE "delete"
    /\ cur' = IF l = NumThreads THEN 1 ELSE l + 1

DeleteThread ==
    /\ base = "delete"
    /\ IF loopPtr[cur] THEN base' = "quit" /\ UNCHANGED <<cur, deleted>>
       ELSE Deleted(cur)
    /\ UNCHANGED <<initial, next, loopPtr, loopAt, loopVars, issued, queued, ran,
                   undefined>>

\* loop_->quit(), which stores quit_ and then wakes the loop up.
CallQuit ==
    /\ base = "quit"
    /\ quit' = [quit EXCEPT ![cur] = TRUE]
    /\ Touches(Exists(cur))
    /\ base' = "wake"
    /\ UNCHANGED <<initial, cur, next, threadVars, loopAt, pending, functors, calling, wakeupFd,
                   issued, queued, ran>>

WakeupForQuit ==
    /\ base = "wake"
    /\ wakeupFd' = [wakeupFd EXCEPT ![cur] = TRUE]
    /\ Touches(Exists(cur))
    /\ base' = "join"
    /\ UNCHANGED <<initial, cur, next, threadVars, loopAt, quit, pending, functors, calling,
                   issued, queued, ran>>

JoinLoop ==
    /\ base = "join" /\ loopAt[cur] = "gone"
    /\ Deleted(cur)
    /\ UNCHANGED <<initial, next, loopPtr, loopAt, loopVars, issued, queued, ran,
                   undefined>>

----------------------------------------------------------------------------
(* EventLoopThread::threadFunc and EventLoop::loop, on the loop's thread.  *)

Moves(l, here, there) == loopAt[l] = here /\ loopAt' = [loopAt EXCEPT ![l] = there]

\* The EventLoop is constructed and the init callback runs.  It may queue a
\* functor: no wakeup, this is the loop's thread and it calls no functors yet.
Construct(l) ==
    /\ Moves(l, "create", "publish")
    /\ \/ UNCHANGED <<pending, issued, queued>>
       \/ issued < MaxFunctors /\ issued' = issued + 1 /\ PushFunctor(l, issued + 1)
    /\ initial' = [initial EXCEPT ![l] = pending'[l]]
    /\ UNCHANGED <<poolVars, threadVars, quit, functors, calling, wakeupFd, ran, undefined>>

\* loop_ = &loop, and notify_one.
Publish(l) ==
    /\ Moves(l, "publish", "enter")
    /\ loopPtr' = [loopPtr EXCEPT ![l] = TRUE]
    /\ UNCHANGED <<initial, poolVars, deleted, loopVars, issued, queued, ran, undefined>>

\* loop() clears quit_, whoever has set it.
Enter(l) ==
    /\ Moves(l, "enter", "while")
    /\ quit' = [quit EXCEPT ![l] = FALSE]
    /\ UNCHANGED <<initial, poolVars, threadVars, pending, functors, calling, wakeupFd,
                   issued, queued, ran, undefined>>

LoopWhile(l) ==
    /\ Moves(l, "while", IF quit[l] THEN "clear" ELSE "poll")
    /\ UNCHANGED <<initial, poolVars, threadVars, loopVars, issued, queued, ran, undefined>>

\* poll returns because the eventfd is readable, or after kPollTimeMs.
Poll(l) ==
    /\ Moves(l, "poll", IF wakeupFd[l] THEN "handleRead" ELSE "events")
    /\ UNCHANGED <<initial, poolVars, threadVars, loopVars, issued, queued, ran, undefined>>

handleRead(l) ==
    /\ Moves(l, "handleRead", "events")
    /\ wakeupFd' = [wakeupFd EXCEPT ![l] = FALSE]
    /\ UNCHANGED <<initial, poolVars, threadVars, quit, pending, functors, calling, issued,
                   queued, ran, undefined>>

\* A channel's handler may queue a functor: no wakeup, doPendingFunctors comes
\* next.
HandleEvents(l) ==
    /\ Moves(l, "events", "swap")
    /\ \/ UNCHANGED <<pending, issued, queued>>
       \/ issued < MaxFunctors /\ issued' = issued + 1 /\ PushFunctor(l, issued + 1)
    /\ UNCHANGED <<initial, poolVars, threadVars, quit, functors, calling, wakeupFd, ran,
                   undefined>>

\* doPendingFunctors takes the functors queued so far.
SwapFunctors(l) ==
    /\ Moves(l, "swap", "run")
    /\ functors' = [functors EXCEPT ![l] = pending[l]]
    /\ pending' = [pending EXCEPT ![l] = <<>>]
    /\ calling' = [calling EXCEPT ![l] = TRUE]
    /\ UNCHANGED <<initial, poolVars, threadVars, quit, wakeupFd, issued, queued, ran,
                   undefined>>

\* Mutants: a functor that queues a functor does not wake the loop; functors run
\* from the back.
MutRunFunctor(l) ==
    /\ Moves(l, "run", "run") /\ functors[l] # <<>>
    /\ functors' = [functors EXCEPT ![l] = Tail(@)]
    /\ ran' = [ran EXCEPT ![l] = Append(@, Head(functors[l]))]
    /\ quit' = [quit EXCEPT ![l] = @ \/ Head(functors[l]) = Quit]
    /\ \/ UNCHANGED <<pending, issued, queued>>
       \/ issued < MaxFunctors /\ issued' = issued + 1 /\ PushFunctor(l, issued + 1)
    /\ UNCHANGED <<initial, poolVars, threadVars, calling, wakeupFd, undefined>>
MutRunBack(l) ==
    /\ Moves(l, "run", "run") /\ functors[l] # <<>>
    /\ functors' = [functors EXCEPT ![l] = SubSeq(@, 1, Len(@) - 1)]
    /\ ran' = [ran EXCEPT ![l] = Append(@, functors[l][Len(functors[l])])]
    /\ quit' = [quit EXCEPT ![l] = @ \/ functors[l][Len(functors[l])] = Quit]
    /\ UNCHANGED <<initial, poolVars, threadVars, calling, pending, issued, queued, wakeupFd,
                   undefined>>

\* A functor runs; it may queue another one, which wakes the loop up because
\* callingPendingFunctors_ is set.
RunFunctor(l) ==
    /\ Moves(l, "run", "run") /\ functors[l] # <<>>
    /\ functors' = [functors EXCEPT ![l] = Tail(@)]
    /\ ran' = [ran EXCEPT ![l] = Append(@, Head(functors[l]))]
    /\ quit' = [quit EXCEPT ![l] = @ \/ Head(functors[l]) = Quit]
    /\ \/ UNCHANGED <<pending, issued, queued, wakeupFd>>
       \/ /\ issued < MaxFunctors /\ issued' = issued + 1
          /\ PushFunctor(l, issued + 1)
          /\ wakeupFd' = [wakeupFd EXCEPT ![l] = @ \/ calling[l]]
    /\ UNCHANGED <<initial, poolVars, threadVars, calling, undefined>>

FunctorsDone(l) ==
    /\ Moves(l, "run", "while") /\ functors[l] = <<>>
    /\ calling' = [calling EXCEPT ![l] = FALSE]
    /\ UNCHANGED <<initial, poolVars, threadVars, quit, pending, functors, wakeupFd, issued,
                   queued, ran, undefined>>

\* The loop has ended: loop_ is cleared under the mutex of the EventLoopThread,
\* which is then unlocked; the EventLoop is destroyed.
Clear(l) ==
    /\ Moves(l, "clear", "unlock")
    /\ loopPtr' = [loopPtr EXCEPT ![l] = FALSE]
    /\ Touches(~deleted[l])
    /\ UNCHANGED <<initial, poolVars, deleted, loopVars, issued, queued, ran>>

Destroy(l) ==
    /\ Moves(l, "unlock", "gone")
    /\ Touches(~deleted[l])
    /\ UNCHANGED <<initial, poolVars, threadVars, loopVars, issued, queued, ran>>

----------------------------------------------------------------------------
LoopsInit ==
    /\ base = "start" /\ cur = 1 /\ next = 1
    /\ loopPtr = [l \in Loops |-> FALSE] /\ deleted = [l \in Loops |-> FALSE]
    /\ loopAt = [l \in Loops |-> "none"]
    /\ quit = [l \in Loops |-> FALSE] /\ calling = [l \in Loops |-> FALSE]
    /\ pending = [l \in Loops |-> <<>>] /\ functors = [l \in Loops |-> <<>>]
    /\ wakeupFd = [l \in Loops |-> FALSE]
    /\ issued = 0
    /\ queued = [l \in Loops |-> <<>>] /\ ran = [l \in Loops |-> <<>>]
    /\ initial = [l \in Loops |-> <<>>]
    /\ undefined = FALSE

\* What the base thread does once it is in start(), queueInLoop or stop().
Base ==
    \/ StartThread \/ StartLoop \/ Wakeup
    \/ QueueQuit \/ WakeupQuit \/ DeleteThread \/ CallQuit \/ WakeupForQuit \/ JoinLoop

Thread(l) ==
    \/ Construct(l) \/ Publish(l) \/ Enter(l) \/ LoopWhile(l) \/ Poll(l) \/ handleRead(l)
    \/ HandleEvents(l) \/ SwapFunctors(l) \/ RunFunctor(l) \/ FunctorsDone(l)
    \/ Clear(l) \/ Destroy(l)

LoopsNext ==
    /\ ~undefined
    /\ Base \/ QueueInLoop \/ StopLoops \/ \E l \in Loops : Thread(l)

\* The threads run, poll returns, functors return.
LoopsSpec ==
    /\ LoopsInit /\ [][LoopsNext]_loopsVars
    /\ WF_loopsVars(~undefined /\ Base)
    /\ \A l \in Loops : WF_loopsVars(~undefined /\ Thread(l))

----------------------------------------------------------------------------
(* Properties.                                                             *)

Stopping == base \in {"queue", "queued", "delete", "quit", "wake", "join", "stopped"}

\* Every loop runs its functors in the order in which they were queued, each
\* once, whichever thread queued them and whatever they queue in turn.
FunctorsInOrder ==
    \A l \in Loops : ran[l] \o functors[l] \o pending[l] = queued[l]

\* A loop sleeps on queued functors for the whole poll timeout only if they are
\* those of the init callback and no others: any other poll that begins with
\* functors pending finds the eventfd readable, or the thread that queued them is
\* about to write to it.  queueInLoop skips the write on the loop's own thread
\* outside of doPendingFunctors, which a channel's handler can rely on and the
\* init callback cannot.
NoSleepWithWork ==
    \A l \in Loops :
        loopAt[l] = "poll" /\ pending[l] # <<>> =>
            \/ wakeupFd[l] \/ (cur = l /\ base \in {"wakeup", "queued"})
            \/ pending[l] = initial[l]

\* A loop that startLoop has returned is constructed and initialised: nobody
\* queues a functor on a loop that does not exist yet.
ReadyWhenReturned ==
    \A l \in Loops :
        base \notin {"start", "wait"} \/ l < cur => loopAt[l] \notin {"none", "create"}

\* A queued functor is run, unless the pool is stopped first, and stop() returns.
\* A loop that has not yet entered loop() forgets the quit() of ~EventLoopThread;
\* the functor that stop() queued first ends it all the same.
CallsComplete ==
    /\ \A l \in Loops, f \in 1 .. MaxFunctors :
          (f \in Range(queued[l])) ~> (f \in Range(ran[l]) \/ Stopping)
    /\ Stopping ~> (base = "stopped" \/ undefined)
=============================================================================
