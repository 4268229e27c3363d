----------------------------- MODULE ThreadPool -----------------------------
(***************************************************************************)
(* base/ThreadPool.cc over base/Thread.cc, base/CountDownLatch.cc and      *)
(* base/Condition.h: an owner that starts and stops the pool, worker       *)
(* threads, and the threads that call run(): producers outside the pool,   *)
(* and workers, from the task they are in.  What a thread does between     *)
(* locking and unlocking mutex_ is one step; a wait gives the mutex back   *)
(* and may end without a notify.                                           *)
(***************************************************************************)
EXTENDS Integers, Sequences, FiniteSets, Functions

CONSTANTS
    Workers,          \* worker threads
    Producers,        \* other threads, which call run()
    MaxQueueSizes,    \* values of maxQueueSize_; 0 for no limit
    NoTask,
    MaxTasks          \* bound: calls of run()

ASSUME PoolAssumption ==
    /\ IsFiniteSet(Workers) /\ MaxQueueSizes \subseteq Nat /\ MaxTasks \in Nat
    /\ NoTask \notin 1 .. MaxTasks

VARIABLES
    threads,         \* threads_: the workers that start() creates
    maxQueueSize,    \* maxQueueSize_
    running,         \* running_
    queue,           \* queue_
    latch,           \* Thread::latch_ of each worker
    owner,           \* where the owner is: "start", "up", "join", "stopped"
    workerAt,        \* where a worker is: "none", "born", "while", "take",
                     \* "waiting", "task", "exited"
    task,            \* the task a worker runs
    caller,          \* where a thread that calls run() is: "idle", "run", "waiting"
    offer,           \* the task it passes to run()
    submitted,       \* number of calls of run()
    accepted,        \* history: tasks pushed onto queue_
    taken            \* history: tasks taken from it

\* The threads that may call run().
Callers == Producers \cup Workers

pool == <<threads, maxQueueSize>>
workVars == <<pool, running, queue, latch, owner, workerAt, task, caller, offer, submitted,
          accepted, taken>>

isFull == maxQueueSize > 0 /\ Len(queue) >= maxQueueSize

\* Condition::notify and notifyAll on the threads that wait in pc.
notify(pc, next) ==
    LET waiting == {x \in DOMAIN pc : pc[x] = "waiting"}
    IN  IF waiting = {} THEN {pc} ELSE {[pc EXCEPT ![x] = next] : x \in waiting}
notifyAll(pc, next) ==
    [x \in DOMAIN pc |-> IF pc[x] = "waiting" THEN next ELSE pc[x]]

\* CountDownLatch, of count 1.
countDown(w) == latch' = [latch EXCEPT ![w] = 0]
waited(w) == latch[w] = 0

----------------------------------------------------------------------------
(* The owner.                                                              *)

\* start() calls Thread::start for one thread after the other; each call waits
\* for the latch.
StartWorker(w) ==
    /\ owner = "start" /\ w \in threads /\ workerAt[w] = "none"
    /\ \A v \in threads : workerAt[v] # "none" => waited(v)
    /\ running' = TRUE
    /\ workerAt' = [workerAt EXCEPT ![w] = "born"]
    /\ UNCHANGED <<pool, queue, latch, owner, task, caller, offer, submitted,
                   accepted, taken>>

Started ==
    /\ owner = "start"
    /\ \A v \in threads : workerAt[v] # "none" /\ waited(v)
    /\ owner' = "up"
    /\ running' = TRUE
    /\ UNCHANGED <<pool, queue, latch, workerAt, task, caller, offer, submitted,
                   accepted, taken>>

\* stop(), or the destructor of a pool that runs.
Stop ==
    /\ owner = "up"
    /\ owner' = "join"
    /\ running' = FALSE
    /\ workerAt' = notifyAll(workerAt, "take")
    /\ caller' = notifyAll(caller, "run")
    /\ UNCHANGED <<pool, queue, latch, task, offer, submitted, accepted, taken>>

\* Thread::join for every thread.
Join ==
    /\ owner = "join"
    /\ \A w \in threads : workerAt[w] = "exited"
    /\ owner' = "stopped"
    /\ UNCHANGED <<pool, running, queue, latch, workerAt, task, caller, offer, submitted,
                   accepted, taken>>

----------------------------------------------------------------------------
(* The workers.                                                            *)

\* ThreadData::runInThread counts down and calls ThreadPool::runInThread.
Born(w) ==
    /\ workerAt[w] = "born"
    /\ countDown(w)
    /\ workerAt' = [workerAt EXCEPT ![w] = "while"]
    /\ UNCHANGED <<pool, running, queue, owner, task, caller, offer, submitted,
                   accepted, taken>>

\* while (running_), read without the mutex.
While(w) ==
    /\ workerAt[w] = "while"
    /\ workerAt' = [workerAt EXCEPT ![w] = IF running THEN "take" ELSE "exited"]
    /\ UNCHANGED <<pool, running, queue, latch, owner, task, caller, offer,
                   submitted, accepted, taken>>

\* Mutants: take forgets to notify the producers; takes the newest task.
MutTakeSilent(w) ==
    /\ workerAt[w] = "take" /\ queue # <<>>
    /\ task' = [task EXCEPT ![w] = Head(queue)]
    /\ queue' = Tail(queue)
    /\ taken' = Append(taken, Head(queue))
    /\ workerAt' = [workerAt EXCEPT ![w] = "task"]
    /\ UNCHANGED <<pool, running, latch, owner, caller, offer, submitted, accepted>>
MutTakeBack(w) ==
    /\ workerAt[w] = "take" /\ queue # <<>>
    /\ task' = [task EXCEPT ![w] = queue[Len(queue)]]
    /\ queue' = SubSeq(queue, 1, Len(queue) - 1)
    /\ taken' = Append(taken, queue[Len(queue)])
    /\ workerAt' = [workerAt EXCEPT ![w] = "task"]
    /\ caller' \in IF maxQueueSize > 0 THEN notify(caller, "run") ELSE {caller}
    /\ UNCHANGED <<pool, running, latch, owner, offer, submitted, accepted>>

\* take() with a task in the queue.
Take(w) ==
    /\ workerAt[w] = "take" /\ queue # <<>>
    /\ task' = [task EXCEPT ![w] = Head(queue)]
    /\ queue' = Tail(queue)
    /\ taken' = Append(taken, Head(queue))
    /\ workerAt' = [workerAt EXCEPT ![w] = "task"]
    /\ caller' \in IF maxQueueSize > 0 THEN notify(caller, "run") ELSE {caller}
    /\ UNCHANGED <<pool, running, latch, owner, offer, submitted, accepted>>

\* take() with an empty queue: wait, or return no task once the pool stops.
TakeNothing(w) ==
    /\ workerAt[w] = "take" /\ queue = <<>>
    /\ workerAt' = [workerAt EXCEPT ![w] = IF running THEN "waiting" ELSE "while"]
    /\ UNCHANGED <<pool, running, queue, latch, owner, task, caller, offer,
                   submitted, accepted, taken>>

\* The task returns, once a run() that it called has.
TaskDone(w) ==
    /\ workerAt[w] = "task" /\ caller[w] = "idle"
    /\ task' = [task EXCEPT ![w] = NoTask]
    /\ workerAt' = [workerAt EXCEPT ![w] = "while"]
    /\ UNCHANGED <<pool, running, queue, latch, owner, caller, offer, submitted,
                   accepted, taken>>

----------------------------------------------------------------------------
(* run().                                                                  *)

\* A producer, or the task of a worker, calls run(); without threads the task
\* runs at once.
CallRun(p) ==
    /\ caller[p] = "idle" /\ submitted < MaxTasks
    /\ (p \in Producers /\ owner # "start") \/ (p \in Workers /\ workerAt[p] = "task")
    /\ submitted' = submitted + 1
    /\ IF threads = {}
       THEN /\ accepted' = Append(accepted, submitted + 1)
            /\ taken' = Append(taken, submitted + 1)
            /\ UNCHANGED <<caller, offer>>
       ELSE /\ caller' = [caller EXCEPT ![p] = "run"]
            /\ offer' = [offer EXCEPT ![p] = submitted + 1]
            /\ UNCHANGED <<accepted, taken>>
    /\ UNCHANGED <<pool, running, queue, latch, owner, workerAt, task>>

\* Mutant: no worker is notified.
MutPushSilent(p) ==
    /\ caller[p] = "run" /\ running /\ ~isFull
    /\ queue' = Append(queue, offer[p])
    /\ accepted' = Append(accepted, offer[p])
    /\ caller' = [caller EXCEPT ![p] = "idle"]
    /\ offer' = [offer EXCEPT ![p] = NoTask]
    /\ UNCHANGED <<pool, running, latch, owner, workerAt, task, submitted, taken>>

\* run() holds the mutex, and there is room.
Push(p) ==
    /\ caller[p] = "run" /\ running /\ ~isFull
    /\ queue' = Append(queue, offer[p])
    /\ accepted' = Append(accepted, offer[p])
    /\ workerAt' \in notify(workerAt, "take")
    /\ caller' = [caller EXCEPT ![p] = "idle"]
    /\ offer' = [offer EXCEPT ![p] = NoTask]
    /\ UNCHANGED <<pool, running, latch, owner, task, submitted, taken>>

\* ... there is none, and it waits.
AwaitRoom(p) ==
    /\ caller[p] = "run" /\ running /\ isFull
    /\ caller' = [caller EXCEPT ![p] = "waiting"]
    /\ UNCHANGED <<pool, running, queue, latch, owner, workerAt, task, offer, submitted,
                   accepted, taken>>

\* ... the pool stops: the task is dropped.
Refused(p) ==
    /\ caller[p] = "run" /\ ~running
    /\ caller' = [caller EXCEPT ![p] = "idle"]
    /\ offer' = [offer EXCEPT ![p] = NoTask]
    /\ UNCHANGED <<pool, running, queue, latch, owner, workerAt, task, submitted,
                   accepted, taken>>

\* A wait ends although nobody notified.
Spurious ==
    /\ \/ /\ \E w \in Workers : /\ workerAt[w] = "waiting"
                                /\ workerAt' = [workerAt EXCEPT ![w] = "take"]
          /\ UNCHANGED caller
       \/ /\ \E p \in Callers :
                caller[p] = "waiting" /\ caller' = [caller EXCEPT ![p] = "run"]
          /\ UNCHANGED workerAt
    /\ UNCHANGED <<pool, running, queue, latch, owner, task, offer, submitted,
                   accepted, taken>>

----------------------------------------------------------------------------
PoolInit ==
    /\ threads \in {{}, Workers} /\ maxQueueSize \in MaxQueueSizes
    /\ running = FALSE /\ queue = <<>>
    /\ latch = [w \in Workers |-> 1] /\ owner = "start"
    /\ workerAt = [w \in Workers |-> "none"] /\ task = [w \in Workers |-> NoTask]
    /\ caller = [p \in Callers |-> "idle"] /\ offer = [p \in Callers |-> NoTask]
    /\ submitted = 0 /\ accepted = <<>> /\ taken = <<>>

Starting == (\E w \in Workers : StartWorker(w)) \/ Started
Working(w) == Born(w) \/ While(w) \/ Take(w) \/ TakeNothing(w) \/ TaskDone(w)
Running(p) == Push(p) \/ AwaitRoom(p) \/ Refused(p)

PoolNext ==
    \/ Starting \/ Stop \/ Join
    \/ \E w \in Workers : Working(w)
    \/ \E p \in Callers : CallRun(p) \/ Running(p)
    \/ Spurious

\* Every thread that can run does: tasks return, or wait in run(), and a thread
\* that waits for the mutex gets it.  Nobody has to call run() or stop().
Fairness ==
    /\ WF_workVars(Starting) /\ WF_workVars(Join)
    /\ \A w \in Workers : WF_workVars(Working(w))
    /\ \A p \in Callers : WF_workVars(Running(p))

PoolSpec == PoolInit /\ [][PoolNext]_workVars /\ Fairness

----------------------------------------------------------------------------
(* Properties.                                                             *)

\* Types of the pool's fields and of the threads' positions.
PoolTypeOK ==
    /\ threads \in SUBSET Workers /\ maxQueueSize \in MaxQueueSizes
    /\ running \in BOOLEAN /\ queue \in Seq(1 .. MaxTasks)
    /\ latch \in [Workers -> 0 .. 1]
    /\ owner \in {"start", "up", "join", "stopped"}
    /\ workerAt \in [Workers -> {"none", "born", "while", "take", "waiting", "task", "exited"}]
    /\ task \in [Workers -> 1 .. MaxTasks \cup {NoTask}]
    /\ caller \in [Callers -> {"idle", "run", "waiting"}]
    /\ offer \in [Callers -> 1 .. MaxTasks \cup {NoTask}]
    /\ submitted \in 0 .. MaxTasks
    /\ accepted \in Seq(1 .. MaxTasks) /\ taken \in Seq(1 .. MaxTasks)

\* Tasks are taken in the order in which run() accepted them, each once, and
\* an accepted task that no worker has taken is still queued; the queue stays
\* within setMaxQueueSize whichever waits of run() end when.
TasksInOrder ==
    /\ PoolTypeOK
    /\ taken \o queue = accepted
    /\ maxQueueSize > 0 => Len(queue) <= maxQueueSize
    /\ \A i, j \in 1 .. Len(accepted) : accepted[i] = accepted[j] => i = j

\* The queue is full and every worker is in run() itself, waiting for room that
\* only a worker makes: stop() alone ends that.
Jammed == isFull /\ \A w \in threads : caller[w] # "idle"

\* A task that run() accepted is taken by a worker, unless the pool is stopped
\* first or its workers are jammed in run(): one notify for each push is
\* enough, however many workers wait.
TaskStarts ==
    \A t \in 1 .. MaxTasks :
        (t \in Range(accepted)) ~> (t \in Range(taken) \/ ~running \/ Jammed)

\* Every call of run() returns when finitely many are made, unless the workers are
\* jammed in it: take() wakes a caller for every place it frees, and stop() wakes
\* them all.  stop() returns: each worker leaves its loop, from whatever wait or
\* task, a jam included.
CallsReturn ==
    /\ \A p \in Callers : (caller[p] # "idle") ~> (caller[p] = "idle" \/ Jammed)
    /\ (owner = "join") ~> (owner = "stopped")
=============================================================================
