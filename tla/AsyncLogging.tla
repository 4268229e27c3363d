---------------------------- MODULE AsyncLogging ----------------------------
(***************************************************************************)
(* base/AsyncLogging: threads append lines to a buffer in memory, and a    *)
(* background thread swaps the full buffers out and writes them to a       *)
(* LogFile.  A Buffer is the sequence of its lines; of an empty spare one  *)
(* (nextBuffer_, newBuffer1, newBuffer2) only its presence matters.        *)
(***************************************************************************)
EXTENDS LogFile, Sequences, Functions

CONSTANTS
    BufferSize,    \* kLargeBuffer; a line has size 1
    MaxBatch,      \* 25: a larger batch is dropped
    MayFail,       \* fwrite may fail
    MaxLines,      \* bound: lines appended
    MaxTime        \* bound: clock, in seconds

ASSUME LoggingAssumption ==
    /\ BufferSize \in Nat /\ BufferSize >= 2
    /\ MaxBatch \in Nat /\ MaxBatch >= 2
    /\ MayFail \in BOOLEAN /\ MaxLines \in Nat /\ MaxTime \in Nat

VARIABLES
    running,              \* running_
    latch,                \* latch_
    currentBuffer, nextBuffer, buffers,        \* under mutex_
    newBuffer1, newBuffer2, buffersToWrite,    \* locals of threadFunc
    written,              \* buffers of buffersToWrite that have been written
    pc,                   \* where threadFunc is
    owner,                \* where the thread that calls start() and stop() is
    output, now,          \* the LogFile, the clock
    log,                  \* history: lines appended
    file, lost            \* history: lines written; lines dropped

shared == <<currentBuffer, nextBuffer, buffers>>
local == <<newBuffer1, newBuffer2, buffersToWrite, written>>
history == <<file, lost>>
vars == <<running, latch, shared, local, pc, owner, output, now, log, history>>

\* The lines of a sequence of buffers.
Lines(bs) == UNION {Range(bs[i]) : i \in 1 .. Len(bs)}

----------------------------------------------------------------------------
(* The threads that log.                                                   *)

\* append; the new buffer is nextBuffer_, or an allocated one.
AppendLine ==
    /\ Len(log) < MaxLines
    /\ log' = Append(log, Len(log) + 1)
    /\ IF BufferSize - Len(currentBuffer) > 1
       THEN /\ currentBuffer' = Append(currentBuffer, Len(log) + 1)
            /\ UNCHANGED <<nextBuffer, buffers, pc>>
       ELSE /\ buffers' = Append(buffers, currentBuffer)
            /\ currentBuffer' = <<Len(log) + 1>>
            /\ nextBuffer' = FALSE
            /\ pc' = IF pc = "waiting" THEN "woken" ELSE pc
    /\ UNCHANGED <<running, latch, local, owner, output, now, history>>

----------------------------------------------------------------------------
(* The owner.                                                              *)

\* start(): the thread is created; then wait for the latch.
Start ==
    /\ owner = "new"
    /\ running' = TRUE /\ owner' = "latch" /\ pc' = "born"
    /\ UNCHANGED <<latch, shared, local, output, now, log, history>>

Started ==
    /\ owner = "latch" /\ latch = 0
    /\ owner' = "up"
    /\ UNCHANGED <<running, latch, shared, local, pc, output, now, log, history>>

\* stop(), or the destructor: running_ is cleared and cond_ notified without
\* the mutex, then the thread is joined.
Stop ==
    /\ owner = "up"
    /\ running' = FALSE /\ owner' = "notify"
    /\ UNCHANGED <<latch, shared, local, pc, output, now, log, history>>

StopNotify ==
    /\ owner = "notify"
    /\ pc' = IF pc = "waiting" THEN "woken" ELSE pc
    /\ owner' = "join"
    /\ UNCHANGED <<running, latch, shared, local, output, now, log, history>>

Join ==
    /\ owner = "join" /\ pc = "exited"
    /\ owner' = "stopped"
    /\ UNCHANGED <<running, latch, shared, local, pc, output, now, log, history>>

----------------------------------------------------------------------------
(* threadFunc.                                                             *)

\* An assertion stops the process.
Goes(next, asserts) == pc' = IF asserts THEN next ELSE "aborted"

Begin ==
    /\ pc = "born"
    /\ latch' = 0 /\ output' = Open(now)
    /\ newBuffer1' = TRUE /\ newBuffer2' = TRUE
    /\ Goes("while", running)
    /\ UNCHANGED <<running, shared, buffersToWrite, written, owner, now, log, history>>

\* while (running_) with the assertions at the head of the loop, or the flush
\* after it.
While ==
    /\ pc = "while"
    /\ IF running
       THEN /\ Goes("lock", newBuffer1 /\ newBuffer2 /\ buffersToWrite = <<>>)
            /\ UNCHANGED output
       ELSE /\ Goes("exited", TRUE)
            /\ output' = flush(output)
    /\ UNCHANGED <<running, latch, shared, local, owner, now, log, history>>

\* buffers_ is empty: one waitForSeconds, without a loop.
Wait ==
    /\ pc = "lock" /\ buffers = <<>>
    /\ Goes("waiting", TRUE)
    /\ UNCHANGED <<running, latch, shared, local, owner, output, now, log, history>>

\* The wait times out, or ends by itself.
WaitEnds ==
    /\ pc = "waiting"
    /\ Goes("woken", TRUE)
    /\ UNCHANGED <<running, latch, shared, local, owner, output, now, log, history>>

\* Mutant: the buffer being filled goes in front of the full ones.
MutSwap ==
    /\ pc = "woken" \/ (pc = "lock" /\ buffers # <<>>)
    /\ buffersToWrite' = <<currentBuffer>> \o buffers
    /\ buffers' = <<>>
    /\ currentBuffer' = <<>> /\ newBuffer1' = FALSE
    /\ nextBuffer' = TRUE /\ newBuffer2' = nextBuffer
    /\ Goes("batch", TRUE)
    /\ UNCHANGED <<running, latch, written, owner, output, now, log, history>>

\* The rest of the critical section.
Swap ==
    /\ pc = "woken" \/ (pc = "lock" /\ buffers # <<>>)
    /\ buffersToWrite' = Append(buffers, currentBuffer)
    /\ buffers' = <<>>
    /\ currentBuffer' = <<>> /\ newBuffer1' = FALSE
    /\ nextBuffer' = TRUE /\ newBuffer2' = nextBuffer
    /\ Goes("batch", TRUE)
    /\ UNCHANGED <<running, latch, written, owner, output, now, log, history>>

\* How many of n lines AppendFile::append writes: it gives up on an error.
Written(n) == IF MayFail THEN 0 .. n ELSE {n}

\* A batch of more than MaxBatch buffers is cut to keep buffers; the LogFile
\* gets a line that says so.
Cut(keep) ==
    LET n == Len(buffersToWrite)
    IN  /\ pc = "batch"
        /\ IF n > MaxBatch
           THEN /\ \E k \in Written(1) : output' = append(output, 1, k, now)
                /\ buffersToWrite' = SubSeq(buffersToWrite, 1, keep)
                /\ lost' = lost \cup Lines(SubSeq(buffersToWrite, keep + 1, n))
           ELSE UNCHANGED <<output, buffersToWrite, lost>>
        /\ Goes("write", buffersToWrite # <<>>)
        /\ UNCHANGED <<running, latch, shared, newBuffer1, newBuffer2, written, owner,
                       now, log, file>>

\* Mutant: one buffer is kept.
MutBatch == Cut(1)

Batch == Cut(2)

\* LogFile::append for one buffer.
WriteBuffer ==
    LET x == buffersToWrite[written + 1]
    IN  /\ pc = "write" /\ written < Len(buffersToWrite)
        /\ \E k \in Written(Len(x)) :
              /\ file' = file \o SubSeq(x, 1, k)
              /\ lost' = lost \cup Range(SubSeq(x, k + 1, Len(x)))
              /\ output' = append(output, Len(x), k, now)
        /\ written' = written + 1
        /\ UNCHANGED <<running, latch, shared, newBuffer1, newBuffer2, buffersToWrite,
                       pc, owner, now, log>>

\* Mutant: no flush at the end of a round.
MutNoFlush ==
    /\ pc = "write" /\ written = Len(buffersToWrite)
    /\ newBuffer1' = TRUE /\ newBuffer2' = TRUE
    /\ buffersToWrite' = <<>> /\ written' = 0
    /\ Goes("while", TRUE)
    /\ UNCHANGED <<running, latch, shared, output, owner, now, log, history>>

\* The spare buffers are refilled from the last two of the batch; an assertion
\* wants one for each that is missing.
Refill ==
    LET kept == IF Len(buffersToWrite) > 2 THEN 2 ELSE Len(buffersToWrite)
        missing == (IF newBuffer1 THEN 0 ELSE 1) + (IF newBuffer2 THEN 0 ELSE 1)
    IN  /\ pc = "write" /\ written = Len(buffersToWrite)
        /\ newBuffer1' = TRUE /\ newBuffer2' = TRUE
        /\ buffersToWrite' = <<>> /\ written' = 0
        /\ output' = flush(output)
        /\ Goes("while", kept >= missing)
        /\ UNCHANGED <<running, latch, shared, owner, now, log, history>>

----------------------------------------------------------------------------
\* time() may jump either way.
Clock ==
    /\ now' \in 1 .. MaxTime
    /\ UNCHANGED <<running, latch, shared, local, pc, owner, output, log, history>>

Init ==
    /\ running = FALSE /\ latch = 1
    /\ currentBuffer = <<>> /\ nextBuffer = TRUE /\ buffers = <<>>
    /\ newBuffer1 = FALSE /\ newBuffer2 = FALSE /\ buffersToWrite = <<>>
    /\ written = 0
    /\ pc = "none" /\ owner = "new"
    /\ now = 1 /\ output = Open(0)
    /\ log = <<>> /\ file = <<>> /\ lost = {}

threadFunc ==
    Begin \/ While \/ Wait \/ WaitEnds \/ Swap \/ Batch \/ WriteBuffer \/ Refill

Owner == Started \/ StopNotify \/ Join

Next == threadFunc \/ Owner \/ Start \/ Stop \/ AppendLine \/ Clock

\* The logging thread and the owner, once in start() or stop(), carry on; the
\* wait of flushInterval_ seconds ends.
Spec == Init /\ [][Next]_vars /\ WF_vars(threadFunc) /\ WF_vars(Owner)

----------------------------------------------------------------------------
(* Properties.                                                             *)

Line == 1 .. MaxLines

\* Types of the buffers, the thread's locals and the LogFile.
TypeOK ==
    /\ running \in BOOLEAN /\ latch \in {0, 1}
    /\ currentBuffer \in Seq(Line) /\ Len(currentBuffer) < BufferSize
    /\ buffers \in Seq(Seq(Line)) /\ buffersToWrite \in Seq(Seq(Line))
    /\ nextBuffer \in BOOLEAN /\ newBuffer1 \in BOOLEAN /\ newBuffer2 \in BOOLEAN
    /\ written \in 0 .. Len(buffersToWrite)
    /\ pc \in {"none", "born", "while", "lock", "waiting", "woken", "batch", "write",
               "exited", "aborted"}
    /\ owner \in {"new", "latch", "up", "notify", "join", "stopped"}
    /\ now \in Nat /\ output.buffered \in Nat /\ output.count \in 0 .. checkEveryN
    /\ log \in Seq(Line) /\ file \in Seq(Line) /\ lost \subseteq Line

\* No assertion of threadFunc fails: a batch always leaves enough buffers to
\* refill newBuffer1 and newBuffer2, whatever append() took meanwhile and
\* however many buffers were dropped.
NoAbort == pc # "aborted"

\* What has been written and what still will be, as one sequence of buffers.
OnTheWay ==
    <<file>> \o SubSeq(buffersToWrite, written + 1, Len(buffersToWrite)) \o buffers
    \o <<currentBuffer>>

\* Each line comes before those that follow it, in its buffer and in later ones.
Ordered(bs) ==
    \A b, c \in 1 .. Len(bs) : \A i \in 1 .. Len(bs[b]), j \in 1 .. Len(bs[c]) :
        b < c \/ (b = c /\ i < j) => bs[b][i] < bs[c][j]

\* Lines reach the file in the order of append(), each once, and a line that is
\* neither in the file nor dropped is still in a buffer that will be written,
\* across every swap of the three groups of buffers.
LinesInOrder ==
    /\ TypeOK
    /\ Ordered(OnTheWay)
    /\ Lines(OnTheWay) = (1 .. Len(log)) \ lost

\* What failed writes left in the file apart, it grows past rollSize_ only within
\* the second it was opened in (or while the clock is behind it), when rollFile()
\* has no new name for it.
RollsBySize ==
    [][output'.size > rollSize + output'.stray /\ output'.size # output.size
         => now <= output'.lastRoll]_vars

\* A line that was appended while the thread runs is dropped, or is written and
\* has left the stream of the file, unless stop() comes first, however few lines
\* follow it: the timed wait sees to it.  stop() returns, with nothing left in
\* the stream, although it notifies without the mutex and the thread may be
\* about to wait.
CallsComplete ==
    /\ \A l \in Line :
          (owner = "up" /\ l \in Range(log)) ~>
              (l \in lost \/ (l \in Range(file) /\ output.buffered = 0) \/ ~running)
    /\ (owner = "notify") ~> (owner = "stopped" /\ output.buffered = 0)
=============================================================================
