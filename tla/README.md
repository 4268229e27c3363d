# A verification project for the MyMuduo file manager

The repository has a reactor network library in the style of muduo (`base/`,
`net/`) and, built on it, a web file manager (`application/http_upload.cc`) that
keeps its data in MySQL (`file_manager.sql`) and its files in a directory. This
directory holds TLA+ models of it, the TLC runs that check them, and proofs that
TLAPS checks.

## 1. The system

| Part | State | Operations | What makes it hard |
|---|---|---|---|
| `EventLoop`, `Channel`, pollers | pending functors, active events, interest sets | poll, dispatch, `runInLoop`, `queueInLoop`, `quit` | functors from other threads; events of one poll that invalidate each other |
| `TcpConnection` | `state_`, output buffer, callbacks, channel | `send`, `shutdown`, `forceClose`, the four event handlers, `connectEstablished`, `connectDestroyed` | partial writes; peer closes and resets; check-then-act on `state_` from other threads; who holds the last reference |
| `TcpServer`, `Acceptor` | map of connections, listening socket | new connection, remove connection, destructor | removal crosses from the io loop to the base loop and back |
| `EventLoopThread(Pool)` | threads and their loops | start, stop, next loop | start and stop against each other |
| `TimerQueue`, `Connector`, `TcpClient` | timers; connect state, back-off | add, cancel, expire; connect, retry, stop | cancelling from inside a callback; stop against a retry |
| `HttpServer`, `HttpContext` | parser state, request, custom context | `onMessage`, `onRequest`, `parseRequest`, `reset` | a request arrives in arbitrary pieces |
| Upload | `FileUploadContext`, file, row | `handleFileUpload`, many calls for one request | boundaries cut in two; sessions that end; writes that fail |
| Download | `FileDownContext`, write-complete callback | `handleDownload`, `handleShareDownload` | driven by a chain of callbacks; a second request in between |
| Accounts, sharing | tables `users`, `sessions`, `files`, `file_shares` | register, login, logout, list, delete, share, access, info | expiry; statements that fail; kills between two statements |
| `ThreadPool`, `BlockingQueue`s, `CountDownLatch`, `AsyncLogging` | queues under a mutex | put, take, stop, append, flush | waiting on conditions; stop |

`main()` calls `setThreadNum(0)`: one thread runs the acceptor, every connection
and every handler, so two handlers never overlap. The library supports one io
loop per thread and calls from any thread, and `TcpConnection` is modelled with
both. `PROJECT.json` lists every part with its status, and the hazards with the
lines where they bite.

## 2. Modules

| Module | Models |
|---|---|
| `TcpConnection` | one connection with its channel, the poller's record of it, its loop and its server; other threads; the kernel socket and the peer (external) |
| `TcpConnectionProofs` | theorems about it |
| `HttpDownload` | extends `TcpConnection`: the user callbacks are the file manager's, answering requests and sending a file chunk by chunk |
| `HttpDownloadProofs` | extends `TcpConnectionProofs`: theorems about `HttpDownload` |
| `Upload` | one multipart upload: parser, `onMessage`, `handleFileUpload`, fed by reads that end at any of a set of cuts |
| `FileStore` | accounts, sessions, uploads, downloads, deletion and sharing over the tables and the directory |
| `Access` | abstract: who may get which file |
| `TimerQueue` | the timers of one loop: both sets, the timerfd, callbacks, other threads, the allocator (external) |
| `EventLoopThreadPool` | loop threads: start, queued functors, the eventfd, quit, stop and destruction |
| `TcpClient` | a client with its `Connector`, retry timers and connections, on one loop |
| `Pollers` | `PollPoller` and `EPollPoller` side by side under the same channels |
| `Buffer` | the vector with two indices, byte by byte |
| `ByteQueue` | abstract: a queue of bytes |
| `ThreadPool` | a pool with its owner, producers and workers |
| `LogFile` | operators: rolling and flushing of a log file |
| `AsyncLogging` | extends `LogFile`: threads that log, the one that writes, its owner |
| `UploadProofs`, `FileStoreProofs`, `TcpClientProofs`, `AsyncLoggingProofs` | theorems about these |
| `ReactorProofs` | theorems about `TimerQueue` and `Pollers` |
| `NetProofs` | theorems about `Buffer`, `EventLoopThreadPool` and `ThreadPool`; it extends all three, and `ReactorProofs` both of its modules, so each has names of its own for its variables and its specification (`PollersSpec`, `LoopsSpec`, `PoolSpec`) |
| `MCHttpDownload`, `MCUpload`, `MCFileStore` | constants for the runs |

### TcpConnection

`state`, `events` and `index` are `state_`, the channel's interest and its mark in
`EPollPoller`; `out` is the output buffer; `pending` and `batch` are the queued
functors and the ones `doPendingFunctors` has swapped out; `phase` is where
`EventLoop::loop` is. Each event handler and each functor is one action. Two
points are finer:

* `sendInLoop` ends in a call of `handleWrite`, which is the step `Flush`. No
  other step of the loop thread comes between (`InUser` and `Running` require
  `~flush`).
* A call from another thread tests `state_` in one step and acts in later ones.
  `state_` is atomic; the test and the store are not one operation.

A byte is the pair of its caller and its number, so lost, repeated and reordered
bytes differ. A write takes any number of bytes that fit. `Alive` is the
reference count: the server's map, functors bound to `shared_from_this()`,
threads, and a callback that captures the connection it is stored in. Functors
bound to the raw `this` do not count and fail on a destroyed connection. An
assertion that fails sets `abort` and the system stops; so does a `removeConnection`
functor that runs after the end of the server it is bound to. The high-water mark is
left out: nothing installs its callback.

### HttpDownload

A handler is what it leaves behind: a write-complete callback and, for a
download, a `FileDownContext`. A response header is one byte. `label` records
for each byte sent which byte of the file it is. The end of a range is left out:
the code parses and announces it, and sends on to the end of the file. Its run
is also the one with one loop, as `main()` has it; `FileManager` says so of the
constants of `TcpConnection`.

### Upload

The request is a sequence of tokens; CRLF, the halves of the boundary and the
closing `--` are tokens, so that a cut can separate them. Each turn of
`parseRequest`'s loop is an action. `FirstPart` and `NextPart` say what a call of
`handleFileUpload` writes; `Leaves` is what it leaves in the `HttpContext`, reset
after a whole request. A write that throws stores any part of what it was given,
short of all of it, and counts nothing; one that succeeds is counted, and any part of
it may be lost in the flush, whose result the code does not look at. After either the
stream stays failed: it refuses later writes and writes nothing of what its buffer
still holds.
The 1 MB threshold is `MinChunk`. A request has one part; `kExpectContent`, which
needs a second part, is translated and not reached. A `Scenario` says where reads
may end and whether writes and INSERT may fail; `sc` is chosen in the initial
state and never changes.

### FileStore and Access

A table is a set of records and a query a set. One thread runs all handlers, so one
never comes between the steps of another; but time passes, and the process may be
killed, between the two statements of `validateSession`. A handler with a session check
is therefore two steps: the SELECT, which leaves its result in `caller`, and the UPDATE
with the rest of the handler (`Validated`). A handler without one is one step and runs
only when no check is under way (`Unchecked`). `handleDelete` takes the number of statements done when
the process is killed. `handleFileUpload` is one call of an upload that spans
several; Upload shows what the calls store. A `Scenario` holds the bounds and says
whether the process may be killed and whether statements may fail (`mayFail`),
with the effect the code gives a failure; `sc` is chosen in the initial state.
Server file names, session ids and share codes are random in the code and fresh
here. `handleShareInfo` reads a row
it has freed: it may find the value, something else, or die. `Access` knows files
with owners and grants that stand; `FileStore` implements it with the mapping of
the instance `A` (a grant is a share that has not expired). A reply is the
operation and its status; a SELECT that fails ends in a refusal, except where the
code goes on (the duplicate check of `handleShareFile`).

### TimerQueue

`timers`, `activeTimers`, `calling` and `cancelingTimers` are the members of those
names; `expired` and `toRun` are the local vector of `handleRead` and the part of
it still to be called; `alarm` is the timerfd. Times are relative to the present,
in ticks of the 100 microseconds that `howMuchTimeFromNow` asks for at least, and
0 is every time that has passed: this keeps the state space finite without an end
of time, so that a repeating timer repeats for ever. Two past times have no order
between them; where the code compares such times, both outcomes are possible.
`handleRead` is one step up to the callbacks, one per callback, and one for
`reset`; user code in a callback adds and cancels timers. An address is free again
once its Timer is deleted, and the sequence number tells the old id from the new
Timer. `addTimer` from another thread reads the sequence after it has queued the
Timer; if the loop has deleted it by then, the id holds any number.

### EventLoopThreadPool

`base` is where the thread that calls `start`, `getNextLoop`, `queueInLoop` and
`stop` is, `cur` the loop it is busy with; `loopAt[l]` is where the thread of loop `l`
is, from `EventLoopThread::threadFunc` through `EventLoop::loop`. `queueInLoop` is
two steps, the push under the mutex and the write to the eventfd, and `quit()` is
two as well. The init callback of a new loop may queue functors, which `initial`
records. Functors are numbers, in the order of their queueing; 0 is the one
that `stop` queues. The loop is an object on its thread's stack: a step of one
thread that uses a loop or an `EventLoopThread` after its end sets `undefined`, and
nothing is claimed after it (section 5).

### TcpClient

`wanted`, `state`, `channel` and `delay` are the `Connector`'s members; `connect_`,
`retry_` and `connection` the client's. A dispatch of the loop and a batch of
functors alternate, because `resetChannel` is always queued while the channel's
handler is on the stack; `polled` is what the poll of this round has seen. Of a
`TcpConnection` only its being up and its close callback are kept, since
`TcpConnection` has the rest. `retryTimers` and `guardTimer` stand for entries of
the `TimerQueue`. `ConnectorLives` is the reference count of the `Connector`.
`connect()` is called once: a second call fails an assertion (section 5). Time passes
at any moment, in the middle of a round of the loop too, so a timer may be due before
the functors queued with it have run.

### Pollers

`EventLoop` uses one of the two; the model gives every call to both, each with its
own table and its own `index_`. `pollfds` holds the descriptor and whether it is
stored as `-fd-1`. `added` and `interest` are the kernel's epoll set; that
`epoll_ctl` would fail counts as a failed assertion.

### Buffer and ByteQueue

A Buffer is a record of the vector and its indices, and every method an operator
on it, so that `shrink` and `readFd` are composed as in the code. The mapping to
`ByteQueue` is `Contents`, the bytes between the indices. Preconditions that the
code asserts of its caller guard the actions; assertions on its own arithmetic set
`aborted`.

### ThreadPool

What happens between locking and unlocking is one step. A wait puts a thread into
`"waiting"`, out of which `notify` takes one thread, `notifyAll` all, and
`Spurious` any. The callers of `run` are the producers and the workers, from inside a
task; a worker whose `run` waits for room is not available to make any, and when all
are in that position and the queue is full the pool is `Jammed`. `accepted` and
`taken` are histories. The file manager starts and
stops a pool and gives it no tasks.

### LogFile and AsyncLogging

A buffer is the sequence of its lines, and of an empty spare one only the presence
matters. `WriteBuffer` is one `LogFile::append`, of which a prefix may be written.
`size` is what is in the file, `written` is `writtenBytes_`, which leaves out what a
failed write has put there, and `stray` is the difference; `fflush` is taken to succeed.
`running_` is read and written without the mutex, so `stop` is two steps. The
clock jumps as it likes, forwards and backwards.

## 3. Runs

| Run | Result | Question |
|---|---|---|
| `conn_lifecycle` | pass | base loop and io loop: no failed assertion (`NoAbort`), up/down protocol (`CallbackProtocol`), destruction last (`DestroyedLast`); shutdown and peer close finish |
| `conn_threads` | pass | with another thread and a dying server: byte order, write interest, FIN after data |
| `download` | pass | one or two requests of any kinds on a connection, at any time: a file goes out whole, no request meets an old context, the connection closes and is reclaimed |
| `store` | pass | the access policy (`AccessPolicy`), rows and files (`RowHasFile`), shares (`SharesSound`) and ended sessions (`SessionStaysEnded`: no request is admitted on one, and it comes back only through the renewal of a request admitted before), in two scenarios: kills and failing statements; several files and shares |
| `upload` | pass | one whole file and one row for any division of the content into calls (`RowIsWholeFile`); nothing twice or out of order for any cut with failing writes (`InOrder`); the parser returns and the request is answered (`Answered`) |
| `timers` | pass | sets agree and nothing is leaked (`SetsAgree`), the timerfd is armed, a cancel is final, every timer fires |
| `client` | pass | no failed assertion while the client lives, but for a retry timer that overtakes `resetChannel`, and no call back after its end (`NoFault`), one attempt at a time and every socket accounted for (`FdsAccounted`); it reconnects, and a stop is final |
| `loops` | pass | functors once and in order, no sleep on queued work other than the init callback's (`NoSleepWithWork`); functors run and `stop` returns (`CallsComplete`) |
| `pool` | pass | tasks once and in order within the limit; tasks are taken and `run` returns unless the pool is `Jammed`, and `stop` returns (`CallsReturn`) |
| `logging` | pass | no failed assertion, lines once and in order, files roll by size however writes fail (`RollsBySize`); lines are written and flushed and `stop` returns (`CallsComplete`) |
| `buffer` | pass | refines `ByteQueue`, call by call |
| `pollers` | pass | both pollers report what was asked for |

The type invariant of a module is the first conjunct of one of its invariants
(`DownloadComplete`, `RowHasFile`, `InOrder`, `SetsAgree`, `FdsAccounted`,
`TasksInOrder`, `LinesInOrder`), and is proved with it; for `TcpConnection`, `Buffer`
and `Pollers` it is proved by itself, and for `EventLoopThreadPool` it is `Types` in
the proofs.

**Bounds.** A send buffer of one or two bytes and up to four bytes sent make every
kind of write happen: whole, partial, refused, append behind waiting data. One
message waiting is enough because a read takes all there is. `MaxPending` bounds
only what callers add. `MaxCallbacks` stops threads from closing a connection
again and again. A file of two or three bytes in chunks of one or two has whole
and short chunks and an end. Two users, two sessions and a clock of three ticks
let sessions and shares run out in every order around one file and one share; the
scenario `Sharing` drops time, kills and failures to afford two files and two shares.
The run's `VIEW` leaves out `reply` and `act`, which record what the last step did and
which no handler reads; every step is still taken and checked from every other state. Fifteen tokens of content with a
threshold of six give up to three calls for one upload. Three timers at two
addresses make an id outlive its Timer; a delay of two and an interval of one put
a later timer before an earlier one, and callbacks may take longer than both.
Three connections of a client, with the real delays of 500 ms to 30 s, make it
reconnect after a reconnect and reach the longest delay. Two loops and two functors
beside those of `stop` let a functor meet each phase of a loop and of the other
loop's end. Five tasks, two workers and limits of none, one and two fill the queue
behind waiting workers and waiting producers. Six lines in buffers of two
and a batch limit of two make batches with full and half-full buffers, some of which
are dropped, and writes that fail after one line of two; a file rolls at three lines. A vector of seven bytes with two in front and
two to begin with grows, moves its bytes and shrinks. Three descriptors put a
channel at the front, in the middle and at the end of `pollfds_`.

**Fairness.** The loop thread goes on with what it has to do; a user callback
returns; the base loop runs what was queued; a peer that has not reset the
connection reads what was sent (liveness of sending needs it). Nothing is assumed
of other threads, of what a peer sends or of when it closes. In `Upload` only the
loop thread is fair. In `TimerQueue` the loop thread is fair and time passes. In
`ThreadPool`, `AsyncLogging` and `EventLoopThreadPool` every thread that can take a
step does, tasks and functors return (a task may first wait in `run`), a poll and a timed wait end; nobody has to
call `run`, `append`, `queueInLoop` or `stop`. In `TcpClient` the loop, its timers
and the end of an attempt are weakly fair. Its `Reconnects` needs two strong
assumptions on the outside: a server that is tried for ever accepts at last, and
the addresses of an established connection can at last be read.

**Deadlock** is checked where the system cannot stop; in `buffer` and `pollers`,
where a failed assertion stops it, this also shows that none fails. It is off for `conn_threads`,
where a failed assertion is in reach, and for an upload, a client, a pool, loop
threads and a logger, which all come to an end.

## 4. Proofs

`TcpConnectionProofs` proves, for any threads, callbacks and bounds, and with or
without a dying server:

* `TypeCorrect`: `Spec => []TypeOK`
* `DeliveryCorrect`: `Spec => []DeliveredInOrder`
* `InterestCorrect`: `Spec => []WriteInterest`
* `FinCorrect`: `Spec => []FinAfterData`

They assume `ConnAssumption` only. None of the last three is inductive: that the
buffer holds the rest of what was sent depends on the write interest being on
exactly when the buffer is not empty, which depends on the channel having been
enabled, which depends on how the connection started and went down. `IInv`
conjoins `TypeOK`, the facts about data and interest (`DataInv`) and the fact that
a connection that has not started has done nothing (`Started`). The proof goes by
the pieces of the handlers (`HandleClose`, `HandleWrite`, `SendInLoop`), then by
the actions.

Its second part is the life of a connection. With other threads, or a server that
dies first, these properties are false (section 5), so the theorems assume
`OwnLoopOnly`: `Threads = {}` and `~ServerMayDie`, with one loop or two and any
callbacks.

* `LifeNoAbort`: `Spec => []NoAbort`
* `LifeDestroyedLast`: `Spec => []DestroyedLast`
* `LifeCallbackProtocol`: `Spec => CallbackProtocol`

The invariant `Life` says where the loop is and what it has left to do there
(`Rounds`), that no functor of another thread is queued (`NoCalls`), and in which
of three stages the connection is (`Stages`): not yet established, up, or closed.
Each stage fixes the channel's mark, the callbacks already made, and the one place
(`OnePlace`) where `connectEstablished`, `removeConnection`'s functor or
`connectDestroyed` waits. That at most one `connectDestroyed` exists is what the
assertions of the poller need.

`HttpDownloadProofs` is about the file manager on its connection, under
`FileManager` and `DownloadAssumption`, for any requests and any sizes of file,
chunk and kernel buffer:

* `ManagerImplementsUser`: `AppSpec => Spec`, so that what is proved of the
  connection holds under the file manager
* `ManagerNoAbort`: `AppSpec => []NoAbort`
* `ManagerFreshContext`: `AppSpec => []FreshContext`
* `ManagerDownloadComplete`: `AppSpec => []DownloadComplete`

`AppInv` adds to `IInv` and `Life`: where `onMessage` and the callbacks are
(`Turns`), the contexts opened (`Opened`), that only callbacks which a request has
installed are installed, queued or running (`Uses(Users)`), that a FIN went out
behind everything sent (`Finished`), and, for a single download, that what has been
sent is the header and the file up to the context's position for as long as the
connection takes it (`Chain`). The last needs `Uses(Users)`: while there is only
the download, nothing else can call `shutdown`.

`UploadProofs` (from `UploadAssumption`: any content that has no token of the
boundary or of the head in it, any threshold not below the part's head, any set of
scenarios):

* `UploadInOrder`: `Spec => []InOrder`, assuming also that the tokens of the content
  differ from each other and from CRLF, so that a token names a place
* `UploadRowIsWholeFile`: `Spec => []RowIsWholeFile`

`UploadInv` ties the pieces to the request: `inputBuffer_` is the part of it between
what `parseRequest` has consumed and what was read, and the body is the part between
what calls have taken (`Kept`) and what was received; a `FileUploadContext` has the
last file, with its size, and no row stands for that file yet. `OrderInv` adds that
nothing stored lies behind `Kept`, or, once a write has thrown and left the body in
place, behind what was received (`Reach`); the bytes of such a body are not written
again because the stream stays failed. `ThrowInv` says what the context of such an
upload can still record: nothing counted, or a write to come that throws again. `SmoothInv` says how a smooth upload stands between two calls:
either nothing is stored, or the one file holds the content up to `Kept` and the
context awaits the boundary. The lemmas below these say what the searches for a
boundary and for its end find in any part of the request: the first match lies in the
content or is the boundary itself (`FirstAt`, `FirstPair`, `FirstEnd`).

`NetProofs`, first part (from `BufferAssumption`, for any sizes, bytes and bounds):
`BufferNoAbort`, `BufferEachCall` (`Spec => EachCall`) and `BufferIsQueue`
(`Spec => ImplementsQueue`, the refinement of `ByteQueue`). Each method has a lemma
saying what it does to a well-formed Buffer: that the result is well formed, what
its contents are, and that its assertions hold. `makeSpace` is the hard one: the
move to the front must find the bytes behind `kCheapPrepend`, which follows from
there being no room at the end.

`AsyncLoggingProofs` (from `LoggingAssumption` and `LogFileAssumption`), for any
sizes of lines, buffers, batches and files, failing writes and jumps of the clock:

* `LoggingNoAbort`. `nextBuffer_` is missing only if a full buffer has been pushed
  since the last swap, so a batch that leaves two spare buffers missing has at least
  two buffers, and cutting it to two leaves enough.
* `LoggingRollsBySize`, from what `rollFile`, `flush` and `append_unlocked` do to a
  file, and the balance `size = written + stray` that every operation on it keeps.
* `LoggingLinesInOrder`. The buffers on their way to the file are one sequence of
  buffers (`OnTheWay`): the file, the rest of the batch, the full buffers, the one
  being filled. Order and uniqueness are stated over pairs of positions in it, which
  needs no flattening and so no induction; each step appends to the last buffer,
  moves the borders, joins a prefix of the second buffer to the first, or cuts out
  the buffers dropped.

`NetProofs`, second part (from `LoopsAssumption`, any number of
loops and functors): `LoopFunctorsInOrder`, `LoopNoSleepWithWork`, `LoopReadyWhenReturned`.
`NoSleepWithWork` speaks of a poll; the inductive `Awake` says of every position of
a loop's thread between its last swap and its next poll that pending functors have
a wake-up, in the eventfd or in the hands of the thread that queues, or are still just
those of the init callback (`initial`). `Calling`
(`callingPendingFunctors_` is set exactly inside `doPendingFunctors`) is what makes
the skipped wake-up sound.

`NetProofs`, third part (from `PoolAssumption`, any number of workers
and producers, tasks that call `run`, any limits): `PoolTasksInOrder` (`PoolSpec => []TasksInOrder`). What was
accepted is what was taken followed by the queue, and `Offers` adds that a task is a
number given out before, that every call of `run` under way has a task that no other
call has and that was not accepted before, and that a pool without threads, where `run`
calls the task itself, has an empty queue and no caller inside `run`.

`FileStoreProofs` (from `StoreAssumption`, any users and scenarios):
`StoreRowHasFile`, `StoreSharesSound`, `StoreSessionStaysEnded` and
`StoreAccessPolicy` (`Spec => AccessPolicy`, the refinement of `Access`). The
invariant adds that keys are unique, that two uploads never write one file
(`Unique`), and that every row and every upload in progress has used up a name
(`Counted`), so that a new row's number never passes the names given out. For
`StoreSessionStaysEnded` it adds that a handler between the two statements of its check
has a session of its user (`Admitted`), which no other handler can delete meanwhile. Every
handler has a lemma that maps it to a step of `Access`, most of them to shares that
run out or to none.

`ReactorProofs`, first part (from `TimeAssumption`, any threads, addresses, delays and
intervals): `TimersSetsAgree`, `TimersArmed`, `TimersCancelIsFinal`. The invariant
gives every live Timer one home (`Homes`): the queue, the batch of `handleRead`, or
a functor that will add it. `Numbered` says that sequence numbers tell Timers apart
although addresses come back, and `Cancelled` that a Timer some cancel has found is
dead or in `cancelingTimers_`, where `reset` will find it.

`ReactorProofs`, second part (no assumption, any set of channels): `PollersNoAbort` and
`PollersAgree` (`PollersSpec => []SameEvents`). The invariant says that `pollfds_` and the
indices of the added channels are inverse to each other, that every entry has its
channel's events, and what each `index_` of `EPollPoller` says about the epoll set.
The case that needs it is the swap in `removeChannel`.

`TcpClientProofs` (from `ClientAssumption`, any number of connections and stops):
`ClientNoFault`, `ClientFdsAccounted`, and `ClientRedials`, the safety part of
`Reconnects`. The invariant counts functors: `resetChannel` is queued once from the
end of an attempt until the channel is gone (`Channels`), no attempt can start
before it has run (`Later`), and the sockets open are those of the attempt, of the
connection and of queued `connectDestroyed`, and the ones lost (`Sockets`). `Overtaken`
is the state after the one assertion that can fail, from which no step is left.

**Assumptions.** Each names what the proofs need of the constants: sizes and bounds
are natural numbers and positive where the code divides or fills by them, the
markers for "none" are not among the values they stand beside (`NoCallback`,
`NoTimer`, `NoContext`, `Nobody`, the names `"none"`, `"up"` and `"message"` of what
a loop may be running), and there are as many download contexts as requests. TLC
evaluates them in the runs.

**Only model-checked.** Every safety property of the runs is proved. What is left to
TLC is liveness under fairness, which is out of the prover's reach: `ShutdownFinishes`
and `PeerCloseFinishes` of a connection, `DownloadFinishes` and `Reclaimed` of the
file manager, `Answered` of an upload, `TimerFires`, the leads-to part of `Reconnects`
and `StopsForGood` of a client, `CallsComplete` of loop threads and of the logger,
`TaskStarts` and `CallsReturn` of a pool.

## 5. Disagreements

The models or the reading behind them show places where the code does something
its callers, comments or documentation do not expect. No run checks them: where a
property would be refuted by one, it is stated so that it speaks of the rest. The
first four were found as counterexamples of TLC to these models.

| Where | What the code does |
|---|---|
| `net/TcpConnection.cc:161` | `forceClose` from another thread tests `state_` and stores `kDisconnecting` in two steps. If the loop runs `handleClose` in between, the connection is closed again, and the second `connectDestroyed` fails `assert(channels_.find(fd) != channels_.end())`, `net/poller/EPollPoller.cc:126` |
| `net/HttpServer.cc:110` | with `Connection: close`, `onRequest` shuts the connection down before the first chunk of a download; `send` then does nothing. `application/http_upload.cc:1022` says "下载完成，关闭连接" (complete, then close) |
| `application/http_upload.cc:1930` | opening a public share link applies `std::stoi` to column 13, the owner's user name, and fails unless it starts with a digit; `:1941` says "完全公开，任何人都可以访问" (anyone may open it) |
| `net/HttpContext.cc:141` | `processHeaders` returns true without a complete line and without progress: a read that ends between two header lines keeps `parseRequest` in its loop for ever. `net/HttpContext.h:28` has "kNeedMore" for this case. `Answered` excepts it |
| `application/http_upload.cc:1979` | the reply to an opened share link applies `std::stoull` to column 10, the original file name, and fails unless that starts with a digit |
| `net/TcpConnection.cc:73` | `send(StringPiece)` from another thread queues the view, not the bytes: what is sent is what the memory holds later |
| `net/TcpConnection.cc:186` | `connectDestroyed` disables only a connected channel; `~TcpServer` with a connection shutting down fails the assertion in `net/Channel.cc:40` |
| `net/TcpConnection.cc:148` | `shutdown` from another thread stores `kDisconnecting` before the thread's own queued send has run; a `handleWrite` that drains the buffer meanwhile sends the FIN, and the queued data is refused by the kernel |
| `net/TcpServer.cc:120` | `removeConnection` queues a functor with the raw `this`; `~TcpServer` before it runs leaves it a server that is gone |
| `net/TimerQueue.cc:99` | `addTimer` from another thread reads a Timer the loop may have deleted, though `net/TimerQueue.h` says it must be thread safe |
| `net/TimerQueue.cc:103` | a cancel on the loop's thread of a timer whose queued `addTimerInLoop` has not run is forgotten |
| `net/EventLoop.cc:77` | `loop()` clears `quit_`: a `quit()` that came before is lost. `EventLoopThreadPool::stop` is saved by the functor it also queues |
| `net/EventLoop.cc:118` | `queueInLoop` skips the wake-up on the loop's own thread, and `net/EventLoopThread.cc:46` calls the init callback there before `loop()`: a functor queued by it waits for the first poll to time out |
| `net/EventLoopThreadPool.cc:55` | says "确保所有pending的回调都被执行" (all pending callbacks are run), and `net/EventLoopThreadPool.h:65` "等待所有任务完成后再关闭": functors queued behind the quit functor are not |
| `net/EventLoopThread.cc:19` | the destructor reads `loop_` without the mutex, while the loop that `stop` has told to quit clears it and ends: it may call `quit()` on a loop that is gone, or end before the thread does (`undefined` in the model) |
| `net/TcpClient.cc:26` | the timer of `~TcpClient` calls `Connector::stop`, which queues a functor with a raw `this`, and then drops the last reference |
| `net/TcpClient.cc:61` | `~TcpClient` with a connection made in the same turn of the loop destroys the `Connector` while `resetChannel` is queued on it |
| `net/TcpClient.cc:80` | a second `connect()` after a connection has closed or an attempt is under way fails the assertion of `startInLoop` |
| `net/TcpClient.cc:106`, `:120` | a failing `getpeername` or `getsockname` leaves the socket open and the client without a retry |
| `net/Connector.cc:107` | some errors of `connect(2)` end the attempts for good, without telling the client |
| `net/Connector.cc:121` | `assert(!channel_)` fails in a retry timer that is due in the same turn of the loop in which the attempt failed, before the queued `resetChannel`: a turn that takes longer than the delay |
| `net/poller/PollPoller.cc:93` | the erasure from `channels_` is inside an `assert`: a build with NDEBUG does not erase |
| `net/poller/EPollPoller.cc:93` | a second `disableAll` puts the channel back into the epoll set with no events, and errors are then reported for it |
| `base/ThreadPool.h:23` | "支持优雅关闭" (graceful shutdown): tasks still queued at `stop` are not run |
| `base/ThreadPool.cc:85` | tasks that call `run` on their own pool wait in it for room; when all workers do, only `stop` ends the wait |
| `base/FileUtil.cc:41` | what a failed write has put into the file is not added to `writtenBytes_`, so the file rolls later than `rollSize_` |
| `base/AsyncLogging.h:66` | lines appended after the last swap before a `stop` are not written |
| `application/http_upload.cc:955` | the end of a range bounds nothing |
| `application/http_upload.cc:1460` | the renewal in `validateSession` goes by the session's id alone: a session that ran out behind the SELECT is live again |
| `application/http_upload.cc:1158` | the write-complete callback of an error reply captures the connection that holds it, which is never reclaimed |
| `application/http_upload.cc:1797`, `:699` | a share that has run out blocks sharing again and stays listed; `README.md:116` promises triggers that clean up, and `file_manager.sql` has none |
| `application/http_upload.cc:1840`, `:1860` | a share without a user is inserted and then reported as failed |
| `application/http_upload.cc:1431`, `:641` | a failed INSERT is answered as a success |
| `application/http_upload.cc:566` | a read that ends between the last boundary and its `--` loses the content |
| `application/http_upload.cc:624` | a read that ends right behind the last boundary makes a second file and row |
| `application/http_upload.cc:517` | the CRLF before the boundary is stored with the content |
| `application/http_upload.cc:81` | a write lost in the flush is reported as stored |
| `application/http_upload.cc:77` | a write that throws has stored a part that is not counted: a later call of the same upload may end it with a row of size 0 over a file that is not empty, and answer 200 |

## 6. Not modelled

* Log formatting, addresses, dates, process information, wrappers over system calls
  and the HTML pages: no state of their own.
* `Acceptor`: one `accept` for each event, and a spare descriptor that is given up
  and taken back when descriptors run out. Its state is the process's descriptor
  table, which no module has; connections arrive in `TcpConnection`.
* `BlockingQueue` and `BoundedBlockingQueue`, which nothing instantiates, and
  `RouteTrie`, which is not built.
* Routing and the filename map, which do not change after the start.
* The conversion of Content-Length by `atoi`: lengths are exact in `Upload`.
* A second part in an upload and chunked transfer encoding; the high-water mark; the
  growth of the poller's event array; the destructor of `TimerQueue`.
* `TcpClient` and `Connector` used from several threads, although `net/Connector.h:54`
  allows `start` and `stop` from any: the calls are those of the loop's thread.
* A failing `fflush` of the log file.
* Names that collide: server file names, session ids and share codes are fresh.
