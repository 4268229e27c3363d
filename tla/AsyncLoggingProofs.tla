------------------------- MODULE AsyncLoggingProofs -------------------------
(***************************************************************************)
(* The assertions of AsyncLogging::threadFunc, for every buffer size, batch*)
(* limit and number of lines.                                              *)
(***************************************************************************)
EXTENDS AsyncLogging, TLAPS

\* Where the owner and the thread are before and while the thread starts.
Starting ==
    /\ owner = "new" => pc = "none" /\ latch = 1
    /\ pc = "born" => owner = "latch" /\ running = TRUE /\ latch = 1

\* The buffers under the mutex: nextBuffer_ is taken only when a full buffer is
\* pushed, and given back when the full buffers are swapped out.
Spare ==
    /\ nextBuffer \in BOOLEAN /\ DOMAIN buffers = 1 .. Len(buffers) /\ Len(buffers) \in Nat
    /\ nextBuffer = FALSE => Len(buffers) >= 1

\* The locals of threadFunc: full at the head of the loop, and the batch has a
\* buffer for each one that is missing.
Locals ==
    /\ newBuffer1 \in BOOLEAN /\ newBuffer2 \in BOOLEAN /\ Len(buffersToWrite) \in Nat
    /\ pc \in {"none", "born", "while", "lock", "waiting", "woken"} => buffersToWrite = <<>>
    /\ pc \in {"while", "lock", "waiting", "woken"} => newBuffer1 = TRUE /\ newBuffer2 = TRUE
    /\ pc \in {"batch", "write"} =>
          /\ Len(buffersToWrite) >= 1
          /\ newBuffer2 = FALSE => Len(buffersToWrite) >= 2

\* The inductive invariant: NoAbort, and what the assertions rest on.
IInv ==
    /\ pc \in {"none", "born", "while", "lock", "waiting", "woken", "batch", "write",
               "exited"}
    /\ buffers \in Seq(Seq(Nat)) /\ buffersToWrite \in Seq(Seq(Nat))
    /\ currentBuffer \in Seq(Nat) /\ log \in Seq(Nat)
    /\ Starting /\ Spare /\ Locals

----------------------------------------------------------------------------
\* append() keeps the invariant.
LEMMA AppendLineOK == IInv /\ AppendLine => IInv'
  <1> SUFFICES ASSUME IInv, AppendLine PROVE IInv'
    OBVIOUS
  <1>0. /\ log' \in Seq(Nat) /\ Len(log) + 1 \in Nat
        /\ UNCHANGED <<running, latch, newBuffer1, newBuffer2, buffersToWrite, owner>>
    BY DEF IInv, AppendLine, local
  <1>1. CASE BufferSize - Len(currentBuffer) > 1
    <2>1. /\ currentBuffer' = Append(currentBuffer, Len(log) + 1)
          /\ UNCHANGED <<nextBuffer, buffers, pc>>
      BY <1>1 DEF AppendLine
    <2>2. currentBuffer' \in Seq(Nat)
      BY <1>0, <2>1 DEF IInv
    <2> QED
      BY <1>0, <2>1, <2>2 DEF IInv, Starting, Spare, Locals
  <1>2. CASE ~(BufferSize - Len(currentBuffer) > 1)
    <2>1. /\ buffers' = Append(buffers, currentBuffer)
          /\ currentBuffer' = <<Len(log) + 1>> /\ nextBuffer' = FALSE
          /\ pc' = IF pc = "waiting" THEN "woken" ELSE pc
      BY <1>2 DEF AppendLine
    <2>2. /\ currentBuffer' \in Seq(Nat) /\ buffers' \in Seq(Seq(Nat))
          /\ Len(buffers') \in Nat /\ Len(buffers') >= 1
          /\ DOMAIN buffers' = 1 .. Len(buffers')
      BY <1>0, <2>1 DEF IInv
    <2> QED
      BY <1>0, <2>1, <2>2, Zenon DEF IInv, Starting, Spare, Locals
  <1> QED
    BY <1>1, <1>2

\* start() and stop() keep the invariant.
LEMMA OwnerOK == IInv /\ (Start \/ Stop \/ Owner) => IInv'
  <1> SUFFICES ASSUME IInv, Start \/ Stop \/ Owner PROVE IInv'
    OBVIOUS
  <1>0. UNCHANGED <<currentBuffer, nextBuffer, buffers, newBuffer1, newBuffer2,
                    buffersToWrite, log, latch>>
    BY DEF Start, Stop, Owner, Started, StopNotify, Join, shared, local
  <1>1. pc' \in {"none", "born", "while", "lock", "waiting", "woken", "batch", "write",
                 "exited"}
    BY DEF IInv, Start, Stop, Owner, Started, StopNotify, Join
  <1>2. Starting'
    BY DEF IInv, Starting, Start, Stop, Owner, Started, StopNotify, Join
  <1>3. Locals'
    BY <1>0 DEF IInv, Starting, Locals, Start, Stop, Owner, Started, StopNotify, Join
  <1> QED
    BY <1>0, <1>1, <1>2, <1>3 DEF IInv, Spare

\* The steps of threadFunc outside the critical section's end keep the invariant.
LEMMA LoopOK == IInv /\ (Begin \/ While \/ Wait \/ WaitEnds) => IInv'
  <1> SUFFICES ASSUME IInv, Begin \/ While \/ Wait \/ WaitEnds PROVE IInv'
    OBVIOUS
  <1>0. UNCHANGED <<currentBuffer, nextBuffer, buffers, buffersToWrite, log, owner, running>>
    BY Zenon DEF Begin, While, Wait, WaitEnds, shared, local
  <1>1. CASE Begin
    <2>1. /\ pc = "born" /\ running = TRUE /\ newBuffer1' = TRUE /\ newBuffer2' = TRUE
      BY <1>1 DEF Begin, IInv, Starting
    <2>2. pc' = "while"
      BY <1>1, <2>1 DEF Begin, Goes
    <2> QED
      BY <1>0, <2>1, <2>2 DEF IInv, Starting, Spare, Locals
  <1>2. CASE While
    <2>1. /\ pc = "while" /\ newBuffer1 = TRUE /\ newBuffer2 = TRUE /\ buffersToWrite = <<>>
          /\ UNCHANGED <<newBuffer1, newBuffer2, latch>>
      BY <1>2 DEF While, IInv, Locals, local
    <2>2. pc' \in {"lock", "exited"}
      BY <1>2, <2>1 DEF While, Goes
    <2> QED
      BY <1>0, <2>1, <2>2 DEF IInv, Starting, Spare, Locals
  <1>3. CASE Wait \/ WaitEnds
    <2>1. /\ pc \in {"lock", "waiting"} /\ pc' \in {"waiting", "woken"}
          /\ UNCHANGED <<newBuffer1, newBuffer2, latch>>
      BY <1>3 DEF Wait, WaitEnds, Goes, local
    <2> QED
      BY <1>0, <2>1 DEF IInv, Starting, Spare, Locals
  <1> QED
    BY <1>1, <1>2, <1>3

\* The swap keeps the invariant: nextBuffer_ is missing only if there is a full
\* buffer besides the current one.
LEMMA SwapOK == IInv /\ Swap => IInv'
  <1> SUFFICES ASSUME IInv, Swap PROVE IInv'
    OBVIOUS
  <1>1. /\ buffersToWrite' = Append(buffers, currentBuffer) /\ buffers' = <<>>
        /\ currentBuffer' = <<>> /\ newBuffer1' = FALSE /\ nextBuffer' = TRUE
        /\ newBuffer2' = nextBuffer /\ pc' = "batch" /\ pc \in {"woken", "lock"}
        /\ UNCHANGED <<running, latch, owner, log>>
    BY DEF Swap, Goes
  <1>2. /\ buffersToWrite' \in Seq(Seq(Nat)) /\ Len(buffersToWrite') = Len(buffers) + 1
        /\ buffers' \in Seq(Seq(Nat)) /\ currentBuffer' \in Seq(Nat)
        /\ Len(buffers') = 0 /\ DOMAIN buffers' = 1 .. 0
    BY <1>1 DEF IInv
  <1>3. Len(buffers) \in Nat /\ (nextBuffer = FALSE => Len(buffers) >= 1)
        /\ nextBuffer \in BOOLEAN
    BY DEF IInv, Spare
  <1>4. newBuffer2' = FALSE => Len(buffersToWrite') >= 2
    BY <1>1, <1>2, <1>3
  <1>5. Locals'
    <2>1. Len(buffersToWrite') \in Nat /\ Len(buffersToWrite') >= 1
      BY <1>2, <1>3
    <2>2. newBuffer1' \in BOOLEAN /\ newBuffer2' \in BOOLEAN
      BY <1>1, <1>3, Zenon
    <2> QED
      BY <1>1, <1>4, <2>1, <2>2, Zenon DEF Locals
  <1>6. Spare'
    BY <1>1, <1>2 DEF Spare
  <1>7. Starting'
    BY <1>1 DEF IInv, Starting
  <1> QED
    BY <1>1, <1>2, <1>5, <1>6, <1>7 DEF IInv

\* Cutting a batch that is too large leaves two buffers.
LEMMA BatchOK == IInv /\ Batch => IInv'
  <1> SUFFICES ASSUME IInv, Batch PROVE IInv'
    OBVIOUS
  <1> DEFINE n == Len(buffersToWrite)
  <1>1. /\ pc = "batch" /\ n \in Nat /\ n >= 1 /\ (newBuffer2 = FALSE => n >= 2)
        /\ UNCHANGED <<running, latch, currentBuffer, nextBuffer, buffers, newBuffer1,
                       newBuffer2, owner, log>>
    BY DEF Batch, Cut, shared, IInv, Locals
  <1>2. /\ buffersToWrite' \in Seq(Seq(Nat)) /\ Len(buffersToWrite') \in Nat
        /\ Len(buffersToWrite') >= 1
        /\ newBuffer2 = FALSE => Len(buffersToWrite') >= 2
    <2>1. CASE n > MaxBatch
      <3>1. buffersToWrite' = SubSeq(buffersToWrite, 1, 2)
        BY <2>1 DEF Batch, Cut
      <3>2. n >= 2 /\ MaxBatch \in Nat
        BY <1>1, <2>1, LoggingAssumption
      <3>3. Len(SubSeq(buffersToWrite, 1, 2)) = 2
            /\ SubSeq(buffersToWrite, 1, 2) \in Seq(Seq(Nat))
        BY <3>2 DEF IInv
      <3> QED
        BY <3>1, <3>3
    <2>2. CASE ~(n > MaxBatch)
      BY <1>1, <2>2 DEF Batch, Cut, IInv
    <2> QED
      BY <2>1, <2>2, Zenon
  <1>3. pc' = "write"
    BY <1>1 DEF Batch, Cut, Goes
  <1> QED
    BY <1>1, <1>2, <1>3 DEF IInv, Starting, Spare, Locals

\* Writing a batch and refilling the spare buffers keep the invariant.
LEMMA WriteOK == IInv /\ (WriteBuffer \/ Refill) => IInv'
  <1> SUFFICES ASSUME IInv, WriteBuffer \/ Refill PROVE IInv'
    OBVIOUS
  <1>1. CASE WriteBuffer
    <2>1. UNCHANGED <<running, latch, currentBuffer, nextBuffer, buffers, newBuffer1,
                      newBuffer2, buffersToWrite, pc, owner, log>>
      BY <1>1 DEF WriteBuffer, shared
    <2> QED
      BY <2>1 DEF IInv, Starting, Spare, Locals
  <1>2. CASE Refill
    <2>1. /\ pc = "write" /\ Len(buffersToWrite) >= 1 /\ Len(buffersToWrite) \in Nat
          /\ newBuffer2 = FALSE => Len(buffersToWrite) >= 2
          /\ newBuffer1 \in BOOLEAN /\ newBuffer2 \in BOOLEAN
      BY <1>2 DEF Refill, IInv, Locals
    <2>2. /\ UNCHANGED <<running, latch, currentBuffer, nextBuffer, buffers, owner, log>>
          /\ newBuffer1' = TRUE /\ newBuffer2' = TRUE /\ buffersToWrite' = <<>>
      BY <1>2 DEF Refill, shared
    <2>3. pc' = "while"
      BY <1>2, <2>1 DEF Refill, Goes
    <2>4. buffersToWrite' \in Seq(Seq(Nat)) /\ Len(buffersToWrite') \in Nat
      BY <2>2
    <2> QED
      BY <2>1, <2>2, <2>3, <2>4 DEF IInv, Starting, Spare, Locals
  <1> QED
    BY <1>1, <1>2

----------------------------------------------------------------------------
\* The inductive invariant holds in every reachable state.
LEMMA Invariant == Spec => []IInv
  <1>1. Init => IInv
    <2> SUFFICES ASSUME Init PROVE IInv
      OBVIOUS
    <2>1. /\ buffers \in Seq(Seq(Nat)) /\ buffersToWrite \in Seq(Seq(Nat))
          /\ currentBuffer \in Seq(Nat) /\ log \in Seq(Nat) /\ Len(buffers) = 0
          /\ DOMAIN buffers = 1 .. 0 /\ Len(buffersToWrite) = 0
      BY DEF Init
    <2> QED
      BY <2>1, Zenon DEF Init, IInv, Starting, Spare, Locals
  <1>2. IInv /\ [Next]_vars => IInv'
    <2> SUFFICES ASSUME IInv, [Next]_vars PROVE IInv'
      OBVIOUS
    <2>1. CASE UNCHANGED vars
      BY <2>1 DEF vars, shared, local, IInv, Starting, Spare, Locals
    <2>2. CASE Clock
      BY <2>2 DEF Clock, shared, local, IInv, Starting, Spare, Locals
    <2> QED
      BY <2>1, <2>2, AppendLineOK, OwnerOK, LoopOK, SwapOK, BatchOK, WriteOK
         DEF Next, threadFunc
  <1> QED
    BY <1>1, <1>2, PTL DEF Spec

\* No assertion of threadFunc fails: newBuffer1 and newBuffer2 can always be
\* refilled from the batch, however many lines are appended meanwhile and however
\* large the batch that is cut.
THEOREM LoggingNoAbort == Spec => []NoAbort
  <1>1. IInv => NoAbort
    BY DEF IInv, NoAbort
  <1> QED
    BY <1>1, Invariant, PTL

----------------------------------------------------------------------------
(* The LogFile.                                                            *)

Records == [lastRoll : Nat, lastFlush : Nat, startOfPeriod : Int, count : 0 .. checkEveryN,
            written : Nat, size : Nat, stray : Nat, buffered : Nat]

\* The file holds what was counted and what failed writes left.
LogFiles == {f \in Records : f.size = f.written + f.stray}

LEMMA PeriodType == ASSUME NEW t \in Nat PROVE StartOfPeriod(t) \in Int
  BY LogFileAssumption DEF StartOfPeriod

\* rollFile keeps the size of the file only if it is too early for a new name.
LEMMA RollFileOK ==
    ASSUME NEW f \in LogFiles, NEW t \in Nat
    PROVE  /\ rollFile(f, t) \in LogFiles
           /\ rollFile(f, t).written # 0 => rollFile(f, t) = f /\ t <= f.lastRoll
  <1>0. f \in Records
    BY Zenon DEF LogFiles
  <1>1. CASE t > f.lastRoll
    <2> DEFINE g == [f EXCEPT !.lastRoll = t, !.lastFlush = t,
                              !.startOfPeriod = StartOfPeriod(t),
                              !.written = 0, !.size = 0, !.stray = 0, !.buffered = 0]
    <2>1. g \in Records
      BY <1>0, PeriodType, Zenon DEF Records
    <2>2. g.written = 0 /\ g.size = 0 /\ g.stray = 0
      BY <1>0 DEF Records
    <2>3. rollFile(f, t) = g
      BY <1>1 DEF rollFile
    <2> HIDE DEF g
    <2>4. g \in LogFiles
      BY <2>1, <2>2 DEF LogFiles
    <2> QED
      BY <2>2, <2>3, <2>4
  <1>2. CASE ~(t > f.lastRoll)
    <2>1. f.lastRoll \in Nat
      BY <1>0 DEF Records
    <2> QED
      BY <1>2, <2>1 DEF rollFile
  <1> QED
    BY <1>1, <1>2

LEMMA OpenOK == ASSUME NEW t \in Nat PROVE Open(t) \in LogFiles /\ Open(t).written = 0
  <1> DEFINE f == [lastRoll |-> 0, lastFlush |-> 0, startOfPeriod |-> 0, count |-> 0,
                   written |-> 0, size |-> 0, stray |-> 0, buffered |-> 0]
  <1>1. f \in LogFiles /\ f.written = 0
    BY LogFileAssumption DEF LogFiles, Records
  <1> HIDE DEF f
  <1>2. /\ rollFile(f, t) \in LogFiles
        /\ rollFile(f, t).written # 0 => rollFile(f, t) = f
    BY <1>1, RollFileOK
  <1>3. Open(t) = rollFile(f, t)
    BY DEF Open, f
  <1> QED
    BY <1>1, <1>2, <1>3

\* Changing other fields leaves what is known of the sizes.
LEMMA SameSizes ==
    ASSUME NEW f \in LogFiles, NEW g \in Records, g.written = f.written, g.size = f.size,
           g.stray = f.stray
    PROVE  g \in LogFiles
  BY DEF LogFiles

LEMMA FlushOK ==
    ASSUME NEW f \in LogFiles
    PROVE  flush(f) \in LogFiles /\ flush(f).written = f.written /\ flush(f).size = f.size
  <1>1. f \in Records
    BY Zenon DEF LogFiles
  <1>2. /\ flush(f) \in Records /\ flush(f).written = f.written /\ flush(f).size = f.size
        /\ flush(f).stray = f.stray
    BY <1>1 DEF Records, flush
  <1> QED
    BY <1>2, SameSizes

\* AppendFile::append keeps the balance: what it stored and did not count is
\* stray.
LEMMA AppendFileOK ==
    ASSUME NEW f \in LogFiles, NEW n \in Nat, NEW k \in 0 .. n
    PROVE  AppendFile(f, n, k) \in LogFiles
  <1>1. f \in Records /\ f.size = f.written + f.stray
    BY Zenon DEF LogFiles
  <1>2. f.written \in Nat /\ f.size \in Nat /\ f.stray \in Nat /\ f.buffered \in Nat
    BY <1>1 DEF Records
  <1>3. PICK w \in Nat : w = f.written + (IF k = n THEN n ELSE 0)
    BY <1>2
  <1>4. PICK y \in Nat : y = f.stray + (IF k = n THEN 0 ELSE k)
    BY <1>2
  <1>5. PICK z \in Nat : z = f.size + k
    BY <1>2
  <1>6. PICK b \in Nat : b = f.buffered + k
    BY <1>2
  <1>7. AppendFile(f, n, k) = [f EXCEPT !.written = w, !.stray = y, !.size = z, !.buffered = b]
    BY <1>3, <1>4, <1>5, <1>6, Zenon DEF AppendFile
  <1>8. z = w + y
    BY <1>1, <1>2, <1>3, <1>4, <1>5
  <1> DEFINE g == [f EXCEPT !.written = w, !.stray = y, !.size = z, !.buffered = b]
  <1>9. g \in Records
    BY <1>1, Zenon DEF Records
  <1>10. g.written = w /\ g.stray = y /\ g.size = z
    BY <1>1 DEF Records
  <1> HIDE DEF g
  <1>11. g \in LogFiles
    BY <1>8, <1>9, <1>10 DEF LogFiles
  <1> QED
    BY <1>7, <1>11 DEF g

\* append leaves the file larger than rollSize_ only where rollFile has no new
\* name for it.
LEMMA AppendOK ==
    ASSUME NEW f \in LogFiles, NEW n \in Nat, NEW k \in 0 .. n, NEW t \in Nat
    PROVE  /\ append(f, n, k, t) \in LogFiles
           /\ append(f, n, k, t).written > rollSize => t <= append(f, n, k, t).lastRoll
  <1> DEFINE a == AppendFile(f, n, k)
             z == [a EXCEPT !.count = 0]
             c == [a EXCEPT !.count = a.count + 1]
             y == flush([z EXCEPT !.lastFlush = t])
  <1>1. a \in LogFiles /\ rollSize \in Nat /\ checkEveryN \in Nat
    BY AppendFileOK, LogFileAssumption
  <1> HIDE DEF a
  <1>0. a \in Records
    BY <1>1, Zenon DEF LogFiles
  <1>2. z \in LogFiles /\ z.written = a.written
    <2>1. z \in Records /\ z.written = a.written /\ z.size = a.size /\ z.stray = a.stray
      BY <1>0, <1>1 DEF Records
    <2> QED
      BY <1>1, <2>1, SameSizes, Zenon
  <1>3. a.count + 1 < checkEveryN => c \in LogFiles /\ c.written = a.written
    <2>1. a.count + 1 < checkEveryN
             => c \in Records /\ c.written = a.written /\ c.size = a.size /\ c.stray = a.stray
      BY <1>0, <1>1 DEF Records
    <2> HIDE DEF c
    <2> QED
      BY <1>1, <2>1, SameSizes
  <1> HIDE DEF z, c
  <1>4. y \in LogFiles /\ y.written = a.written
    <2> DEFINE x == [z EXCEPT !.lastFlush = t]
    <2>1. z \in Records
      BY <1>2, Zenon DEF LogFiles
    <2>2. x \in Records /\ x.written = z.written /\ x.size = z.size /\ x.stray = z.stray
      BY <2>1 DEF Records
    <2>3. x \in LogFiles
      BY <1>2, <2>2, SameSizes, Zenon
    <2>4. y = flush(x)
      OBVIOUS
    <2> HIDE DEF x, y
    <2> QED
      BY <1>2, <2>2, <2>3, <2>4, FlushOK, Zenon
  <1> HIDE DEF y
  <1>5. a.written \in Nat
    BY <1>0 DEF Records
  <1>6. append(f, n, k, t) = IF a.written > rollSize THEN rollFile(a, t)
                          ELSE IF a.count + 1 < checkEveryN THEN c
                          ELSE IF StartOfPeriod(t) # z.startOfPeriod THEN rollFile(z, t)
                          ELSE IF t - z.lastFlush > flushInterval THEN y
                          ELSE z
    BY DEF append, a, z, c, y
  <1>7. CASE a.written > rollSize
    <2>1. append(f, n, k, t) = rollFile(a, t)
      BY <1>6, <1>7
    <2>2. /\ rollFile(a, t) \in LogFiles
          /\ rollFile(a, t).written # 0 => rollFile(a, t) = a /\ t <= a.lastRoll
      BY <1>1, RollFileOK
    <2> QED
      BY <1>1, <2>1, <2>2
  <1>8. CASE ~(a.written > rollSize)
    <2>1. /\ rollFile(z, t) \in LogFiles
          /\ rollFile(z, t).written # 0 => rollFile(z, t) = z
      BY <1>2, RollFileOK
    <2>2. ~(rollFile(z, t).written > rollSize)
      BY <1>1, <1>2, <1>5, <1>8, <2>1
    <2>3. append(f, n, k, t) \in LogFiles /\ ~(append(f, n, k, t).written > rollSize)
      BY <1>2, <1>3, <1>4, <1>6, <1>8, <2>1, <2>2
    <2> QED
      BY <2>3
  <1> QED
    BY <1>7, <1>8

----------------------------------------------------------------------------
(* Types, and the file's size.                                             *)

Types ==
    /\ TypeOK /\ output \in LogFiles
    /\ pc # "write" => written = 0

LEMMA OutputTypes ==
    ASSUME NEW f \in LogFiles
    PROVE  f.buffered \in Nat /\ f.count \in 0 .. checkEveryN
  BY DEF LogFiles, Records

LEMMA InitTypes == Init => Types
  <1> SUFFICES ASSUME Init PROVE Types
    OBVIOUS
  <1>1. output \in LogFiles
    BY OpenOK DEF Init
  <1>2. output.buffered \in Nat /\ output.count \in 0 .. checkEveryN
    BY <1>1, OutputTypes
  <1>3. /\ currentBuffer \in Seq(Line) /\ Len(currentBuffer) = 0 /\ buffers \in Seq(Seq(Line))
        /\ buffersToWrite \in Seq(Seq(Line)) /\ Len(buffersToWrite) = 0
        /\ log \in Seq(Line) /\ file \in Seq(Line)
    BY DEF Init
  <1>4. Len(currentBuffer) < BufferSize /\ written \in 0 .. Len(buffersToWrite)
    BY <1>3, LoggingAssumption DEF Init
  <1> QED
    BY <1>1, <1>2, <1>3, <1>4, Zenon DEF Init, Types, TypeOK

LEMMA AppendLineTypes ==
    ASSUME IInv, Types, AppendLine
    PROVE  /\ Types' /\ Len(log) \in Nat /\ Len(log') = Len(log) + 1
           /\ UNCHANGED <<buffersToWrite, written, file, lost, output>>
  <1> USE DEF Types
  <1>1. /\ Len(log) \in Nat /\ Len(log) < MaxLines /\ log' = Append(log, Len(log) + 1)
        /\ UNCHANGED <<running, latch, newBuffer1, newBuffer2, buffersToWrite, written>>
        /\ UNCHANGED <<owner, output, now, file, lost>>
    BY DEF AppendLine, TypeOK, local, history
  <1>2. Len(log) + 1 \in Line
    BY <1>1, LoggingAssumption DEF Line
  <1>3. log' \in Seq(Line) /\ Len(log') = Len(log) + 1
    BY <1>1, <1>2 DEF TypeOK
  <1>4. /\ currentBuffer' \in Seq(Line) /\ Len(currentBuffer') < BufferSize
        /\ buffers' \in Seq(Seq(Line)) /\ nextBuffer' \in BOOLEAN
    <2>0. currentBuffer \in Seq(Line) /\ Len(currentBuffer) \in Nat /\ buffers \in Seq(Seq(Line))
      BY DEF TypeOK
    <2>1. CASE BufferSize - Len(currentBuffer) > 1
      <3>1. /\ currentBuffer' = Append(currentBuffer, Len(log) + 1)
            /\ UNCHANGED <<nextBuffer, buffers>>
        BY <2>1 DEF AppendLine
      <3>2. currentBuffer' \in Seq(Line) /\ Len(currentBuffer') = Len(currentBuffer) + 1
        BY <1>2, <2>0, <3>1
      <3> QED
        BY <2>0, <2>1, <3>1, <3>2, LoggingAssumption DEF TypeOK
    <2>2. CASE ~(BufferSize - Len(currentBuffer) > 1)
      <3>1. /\ buffers' = Append(buffers, currentBuffer)
            /\ currentBuffer' = <<Len(log) + 1>> /\ nextBuffer' = FALSE
        BY <2>2 DEF AppendLine
      <3>2. currentBuffer' \in Seq(Line) /\ Len(currentBuffer') = 1 /\ buffers' \in Seq(Seq(Line))
        BY <1>2, <2>0, <3>1
      <3>3. Len(currentBuffer') < BufferSize
        BY <3>2, LoggingAssumption
      <3>4. nextBuffer' \in BOOLEAN
        BY <3>1, Zenon
      <3> QED
        BY <3>2, <3>3, <3>4
    <2> QED
      BY <2>1, <2>2
  <1>5. /\ pc' \in {"none", "born", "while", "lock", "waiting", "woken", "batch", "write",
                    "exited", "aborted"}
        /\ pc' # "write" => pc # "write"
    BY DEF AppendLine, TypeOK
  <1>6. TypeOK'
    BY <1>1, <1>3, <1>4, <1>5 DEF TypeOK
  <1> QED
    BY <1>1, <1>3, <1>5, <1>6

LEMMA OwnerTypes == ASSUME IInv, Types, Start \/ Stop \/ Owner PROVE Types'
  <1>1. /\ UNCHANGED <<currentBuffer, nextBuffer, buffers, newBuffer1, newBuffer2>>
        /\ UNCHANGED <<buffersToWrite, written, output, now, log, file, lost, latch>>
    BY DEF Start, Stop, Owner, Started, StopNotify, Join, shared, local, history
  <1>2. /\ pc' \in {"none", "born", "while", "lock", "waiting", "woken", "batch", "write",
                    "exited", "aborted"}
        /\ pc' # "write" => pc # "write"
        /\ owner' \in {"new", "latch", "up", "notify", "join", "stopped"}
    BY DEF Start, Stop, Owner, Started, StopNotify, Join, Types, TypeOK, IInv, Starting
  <1>3. running' \in BOOLEAN
    BY Zenon DEF Start, Stop, Owner, Started, StopNotify, Join, Types, TypeOK
  <1> QED
    BY <1>1, <1>2, <1>3 DEF Types, TypeOK

LEMMA LoopTypes ==
    ASSUME IInv, Types, Begin \/ While \/ Wait \/ WaitEnds
    PROVE  Types'
  <1>1. /\ UNCHANGED <<currentBuffer, nextBuffer, buffers, buffersToWrite, written>>
        /\ UNCHANGED <<running, owner, now, log, file, lost>>
        /\ pc # "write"
    BY Zenon DEF Begin, While, Wait, WaitEnds, shared, local, history
  <1>2. /\ pc' \in {"none", "born", "while", "lock", "waiting", "woken", "batch", "write",
                    "exited", "aborted"}
        /\ latch' \in {0, 1}
    BY DEF Begin, While, Wait, WaitEnds, Goes, Types, TypeOK
  <1>3. newBuffer1' \in BOOLEAN /\ newBuffer2' \in BOOLEAN
    BY Zenon DEF Begin, While, Wait, WaitEnds, local, Types, TypeOK
  <1>4. output' \in LogFiles
    <2>1. now \in Nat /\ output \in LogFiles
      BY DEF Types, TypeOK
    <2>2. Open(now) \in LogFiles /\ flush(output) \in LogFiles
      BY <2>1, OpenOK, FlushOK
    <2> QED
      BY <2>1, <2>2, Zenon DEF Begin, While, Wait, WaitEnds
  <1>5. output'.buffered \in Nat /\ output'.count \in 0 .. checkEveryN
    BY <1>4, OutputTypes
  <1> QED
    BY <1>1, <1>2, <1>3, <1>4, <1>5 DEF Types, TypeOK

LEMMA SwapTypes ==
    ASSUME IInv, Types, Swap
    PROVE  /\ Types' /\ buffersToWrite = <<>> /\ written = 0
           /\ UNCHANGED <<written, log, file, lost, output>>
           /\ buffersToWrite' = Append(buffers, currentBuffer) /\ buffers' = <<>>
           /\ currentBuffer' = <<>>
  <1>1. /\ buffersToWrite' = Append(buffers, currentBuffer) /\ buffers' = <<>>
        /\ currentBuffer' = <<>> /\ pc' = "batch" /\ pc \in {"woken", "lock"}
        /\ UNCHANGED <<running, latch, written, owner, output, now, log, file, lost>>
    BY DEF Swap, Goes, history
  <1>2. newBuffer1' \in BOOLEAN /\ newBuffer2' \in BOOLEAN /\ nextBuffer' \in BOOLEAN
    BY Zenon DEF Swap, Types, TypeOK
  <1>3. buffersToWrite = <<>> /\ written = 0
    BY <1>1 DEF IInv, Locals, Types
  <1>4. /\ buffersToWrite' \in Seq(Seq(Line)) /\ Len(buffersToWrite') \in Nat
        /\ buffers' \in Seq(Seq(Line)) /\ currentBuffer' \in Seq(Line)
        /\ Len(currentBuffer') = 0
    BY <1>1 DEF Types, TypeOK
  <1>5. Len(currentBuffer') < BufferSize /\ written' \in 0 .. Len(buffersToWrite')
    BY <1>1, <1>3, <1>4, LoggingAssumption
  <1>6. Types'
    BY <1>1, <1>2, <1>3, <1>4, <1>5 DEF Types, TypeOK
  <1> QED
    BY <1>1, <1>3, <1>6

\* The lines of a buffer, and of several.
LEMMA RangeType == ASSUME NEW b \in Seq(Line) PROVE Range(b) \subseteq Line
  BY DEF Range

LEMMA LinesType == ASSUME NEW bs \in Seq(Seq(Line)) PROVE Lines(bs) \subseteq Line
  <1>1. ASSUME NEW i \in 1 .. Len(bs) PROVE Range(bs[i]) \subseteq Line
    <2>1. bs[i] \in Seq(Line)
      OBVIOUS
    <2> QED
      BY <2>1, RangeType
  <1> QED
    BY <1>1 DEF Lines

\* The batch is cut, or is small enough.
LEMMA BatchTypes ==
    ASSUME IInv, Types, Batch
    PROVE  /\ Types' /\ written = 0
           /\ UNCHANGED <<currentBuffer, buffers, written, log, file>>
           /\ \/ UNCHANGED <<buffersToWrite, lost>>
              \/ /\ Len(buffersToWrite) > 2
                 /\ buffersToWrite' = SubSeq(buffersToWrite, 1, 2)
                 /\ lost' = lost \cup Lines(SubSeq(buffersToWrite, 3, Len(buffersToWrite)))
  <1> USE DEF Types
  <1> DEFINE n == Len(buffersToWrite)
  <1>1. /\ pc = "batch" /\ n \in Nat /\ buffersToWrite \in Seq(Seq(Line)) /\ written = 0
        /\ UNCHANGED <<running, latch, currentBuffer, nextBuffer, buffers, newBuffer1>>
        /\ UNCHANGED <<newBuffer2, written, owner, now, log, file>>
        /\ pc' \in {"write", "aborted"}
    BY DEF Batch, Cut, Goes, shared, TypeOK
  <1>2. CASE n > MaxBatch
    <2>0. PICK k \in 0 .. 1 : output' = append(output, 1, k, now)
      BY <1>2 DEF Batch, Cut, Written
    <2>1. /\ buffersToWrite' = SubSeq(buffersToWrite, 1, 2)
          /\ lost' = lost \cup Lines(SubSeq(buffersToWrite, 3, n))
      BY <1>2 DEF Batch, Cut
    <2>2. n > 2 /\ n \in Nat
      BY <1>1, <1>2, LoggingAssumption
    <2>3. /\ buffersToWrite' \in Seq(Seq(Line)) /\ Len(buffersToWrite') = 2
          /\ SubSeq(buffersToWrite, 3, n) \in Seq(Seq(Line))
      BY <1>1, <2>1, <2>2
    <2>4. lost' \subseteq Line
      BY <2>1, <2>3, LinesType, Zenon DEF TypeOK
    <2>5. output' \in LogFiles
      BY <2>0, AppendOK, Zenon DEF TypeOK
    <2>6. output'.buffered \in Nat /\ output'.count \in 0 .. checkEveryN
      BY <2>5, OutputTypes
    <2>7. written' \in 0 .. Len(buffersToWrite')
      BY <1>1, <2>3
    <2>8. Types'
      BY <1>1, <2>3, <2>4, <2>5, <2>6, <2>7 DEF TypeOK
    <2> QED
      BY <1>1, <2>1, <2>2, <2>8
  <1>3. CASE ~(n > MaxBatch)
    <2>1. UNCHANGED <<output, buffersToWrite, lost>>
      BY <1>3 DEF Batch, Cut
    <2>2. Types'
      BY <1>1, <2>1 DEF TypeOK
    <2> QED
      BY <1>1, <2>1, <2>2
  <1> QED
    BY <1>2, <1>3

\* Part of a buffer is written, the rest of it dropped.
LEMMA WriteTypes ==
    ASSUME IInv, Types, WriteBuffer
    PROVE  /\ Types' /\ written \in Nat /\ written + 1 \in 1 .. Len(buffersToWrite)
           /\ UNCHANGED <<currentBuffer, buffers, buffersToWrite, log>> /\ written' = written + 1
           /\ \E k \in 0 .. Len(buffersToWrite[written + 1]) :
                 LET x == buffersToWrite[written + 1]
                 IN  /\ file' = file \o SubSeq(x, 1, k)
                     /\ lost' = lost \cup Range(SubSeq(x, k + 1, Len(x)))
                     /\ output' = append(output, Len(x), k, now)
  <1> USE DEF Types
  <1>1. /\ pc = "write" /\ written < Len(buffersToWrite) /\ written' = written + 1
        /\ UNCHANGED <<running, latch, currentBuffer, nextBuffer, buffers, newBuffer1>>
        /\ UNCHANGED <<newBuffer2, buffersToWrite, pc, owner, now, log>>
    BY DEF WriteBuffer, shared
  <1>2. /\ written \in Nat /\ Len(buffersToWrite) \in Nat /\ buffersToWrite \in Seq(Seq(Line))
    BY DEF TypeOK
  <1>3. written + 1 \in 1 .. Len(buffersToWrite) /\ written' \in 0 .. Len(buffersToWrite')
    BY <1>1, <1>2
  <1>4. PICK x : x = buffersToWrite[written + 1]
    OBVIOUS
  <1>5. x \in Seq(Line) /\ Len(x) \in Nat
    BY <1>2, <1>3, <1>4
  <1>6. PICK k \in Written(Len(x)) : /\ file' = file \o SubSeq(x, 1, k)
                                     /\ lost' = lost \cup Range(SubSeq(x, k + 1, Len(x)))
                                     /\ output' = append(output, Len(x), k, now)
    BY <1>4, Zenon DEF WriteBuffer
  <1>7. k \in 0 .. Len(x)
    BY <1>5 DEF Written
  <1>8. SubSeq(x, 1, k) \in Seq(Line) /\ SubSeq(x, k + 1, Len(x)) \in Seq(Line)
    BY <1>5, <1>7
  <1>9. file' \in Seq(Line)
    BY <1>6, <1>8 DEF TypeOK
  <1>10. lost' \subseteq Line
    <2>1. Range(SubSeq(x, k + 1, Len(x))) \subseteq Line
      BY <1>8, RangeType, Zenon
    <2> QED
      BY <1>6, <2>1 DEF TypeOK
  <1>11. output' \in LogFiles
    BY <1>5, <1>6, <1>7, AppendOK DEF TypeOK
  <1>12. output'.buffered \in Nat /\ output'.count \in 0 .. checkEveryN
    BY <1>11, OutputTypes
  <1>13. Types'
    BY <1>1, <1>3, <1>9, <1>10, <1>11, <1>12 DEF TypeOK
  <1> QED
    BY <1>1, <1>2, <1>3, <1>4, <1>6, <1>7, <1>13, Zenon

LEMMA RefillTypes ==
    ASSUME IInv, Types, Refill
    PROVE  /\ Types' /\ written = Len(buffersToWrite) /\ written' = 0 /\ buffersToWrite' = <<>>
           /\ UNCHANGED <<currentBuffer, buffers, log, file, lost>> /\ output' = flush(output)
  <1> USE DEF Types
  <1>1. /\ written = Len(buffersToWrite) /\ buffersToWrite' = <<>> /\ written' = 0
        /\ output' = flush(output) /\ pc' \in {"while", "aborted"}
        /\ UNCHANGED <<running, latch, currentBuffer, nextBuffer, buffers, owner, now, log>>
        /\ UNCHANGED <<file, lost>>
    BY DEF Refill, Goes, shared, history
  <1>2. newBuffer1' \in BOOLEAN /\ newBuffer2' \in BOOLEAN
    BY Zenon DEF Refill
  <1>3. buffersToWrite' \in Seq(Seq(Line)) /\ written' \in 0 .. Len(buffersToWrite')
    BY <1>1
  <1>4. output' \in LogFiles
    BY <1>1, FlushOK
  <1>5. output'.buffered \in Nat /\ output'.count \in 0 .. checkEveryN
    BY <1>4, OutputTypes
  <1>6. Types'
    BY <1>1, <1>2, <1>3, <1>4, <1>5 DEF TypeOK
  <1> QED
    BY <1>1, <1>6

LEMMA QuietTypes == ASSUME Types, Clock \/ UNCHANGED vars PROVE Types'
  <1>1. /\ UNCHANGED <<currentBuffer, nextBuffer, buffers, newBuffer1, newBuffer2>>
        /\ UNCHANGED <<buffersToWrite, written, output, log, file, lost, latch, running>>
        /\ UNCHANGED <<pc, owner>>
    BY DEF Clock, vars, shared, local, history
  <1>2. now' \in Nat
    BY LoggingAssumption DEF Clock, vars, Types, TypeOK
  <1> QED
    BY <1>1, <1>2 DEF Types, TypeOK
LEMMA NextTypes == ASSUME IInv, Types, [Next]_vars PROVE Types'
  <1>1. CASE AppendLine
    BY <1>1, AppendLineTypes
  <1>2. CASE Start \/ Stop \/ Owner
    BY <1>2, OwnerTypes
  <1>3. CASE Begin \/ While \/ Wait \/ WaitEnds
    BY <1>3, LoopTypes
  <1>4. CASE Swap
    BY <1>4, SwapTypes
  <1>5. CASE Batch
    BY <1>5, BatchTypes
  <1>6. CASE WriteBuffer
    BY <1>6, WriteTypes
  <1>7. CASE Refill
    BY <1>7, RefillTypes
  <1>8. CASE Clock \/ UNCHANGED vars
    BY <1>8, QuietTypes
  <1> QED
    BY <1>1, <1>2, <1>3, <1>4, <1>5, <1>6, <1>7, <1>8 DEF Next, threadFunc

\* The types hold in every reachable state.
LEMMA TypesInvariant == Spec => []Types
  <1>1. IInv /\ Types /\ [Next]_vars => Types'
    BY NextTypes
  <1> QED
    BY InitTypes, Invariant, <1>1, PTL DEF Spec

----------------------------------------------------------------------------
(* The size of the file.                                                   *)

\* What a step may do to the size of the file.
Grows == output'.size > rollSize + output'.stray /\ output'.size # output.size
            => now <= output'.lastRoll

LEMMA StepGrows == ASSUME IInv, Types, [Next]_vars PROVE Grows
  <1>0. output \in LogFiles /\ now \in Nat /\ rollSize \in Nat
    BY LogFileAssumption DEF Types, TypeOK
  <1>a. output' \in LogFiles
    BY NextTypes DEF Types
  <1>b. output'.size > rollSize + output'.stray => output'.written > rollSize
    BY <1>0, <1>a DEF LogFiles, Records
  <1>1. ASSUME output' = output PROVE Grows
    BY <1>1 DEF Grows
  <1>2. ASSUME output' = flush(output) PROVE Grows
    <2>1. output'.size = output.size
      BY <1>0, <1>2, FlushOK
    <2> QED
      BY <2>1 DEF Grows
  <1>3. ASSUME NEW n \in Nat, NEW k \in 0 .. n, output' = append(output, n, k, now)
        PROVE  Grows
    <2>1. append(output, n, k, now).written > rollSize
             => now <= append(output, n, k, now).lastRoll
      BY <1>0, AppendOK
    <2> QED
      BY <1>b, <1>3, <2>1 DEF Grows
  <1>4. CASE Begin
    <2>1. output' = Open(now)
      BY <1>4 DEF Begin
    <2>2. output'.written = 0
      BY <1>0, <2>1, OpenOK
    <2> QED
      BY <1>0, <1>b, <2>2 DEF Grows
  <1>5. CASE While
    <2>1. output' = output \/ output' = flush(output)
      BY <1>5, Zenon DEF While
    <2> QED
      BY <2>1, <1>1, <1>2
  <1>6. CASE Batch
    <2>1. output' = output \/ \E k \in 0 .. 1 : output' = append(output, 1, k, now)
      BY <1>6 DEF Batch, Cut, Written
    <2> QED
      BY <2>1, <1>1, <1>3
  <1>7. CASE WriteBuffer
    <2>0. PICK n : n = Len(buffersToWrite[written + 1])
      BY Zenon
    <2>1. PICK k \in 0 .. n : output' = append(output, n, k, now)
      BY <1>7, <2>0, WriteTypes
    <2>2. n \in Nat
      <3>1. written + 1 \in 1 .. Len(buffersToWrite)
        BY <1>7, WriteTypes, Zenon
      <3>2. buffersToWrite \in Seq(Seq(Line))
        BY Zenon DEF Types, TypeOK
      <3> QED
        BY <2>0, <3>1, <3>2
    <2> QED
      BY <2>1, <2>2, <1>3
  <1>8. CASE Refill
    BY <1>8, <1>2 DEF Refill
  <1>9. CASE AppendLine \/ Start \/ Stop \/ Owner
    BY <1>9, <1>1 DEF AppendLine, Start, Stop, Owner, Started, StopNotify, Join
  <1>10. CASE Wait \/ WaitEnds \/ Swap \/ Clock \/ UNCHANGED vars
    BY <1>10, <1>1, Zenon DEF Wait, WaitEnds, Swap, Clock, vars
  <1> QED
    BY <1>4, <1>5, <1>6, <1>7, <1>8, <1>9, <1>10 DEF Next, threadFunc

\* LogFile::append_unlocked compares what it has counted with rollSize_ after
\* every append, and AppendFile::append leaves out only what a failed write
\* stored: so but for that, the file grows past rollSize_ only if rollFile()
\* refused because the clock has not passed the second in which the file was
\* opened, whatever the sizes of buffers and batches, however fwrite fails and
\* whichever way the clock jumps.
THEOREM LoggingRollsBySize == Spec => RollsBySize
  <1>1. IInv /\ Types /\ [Next]_vars => Grows
    BY StepGrows
  <1>2. IInv /\ Types /\ [Next]_vars => [Grows]_vars
    BY <1>1
  <1> QED
    BY Invariant, TypesInvariant, <1>2, PTL DEF Spec, RollsBySize, Grows
----------------------------------------------------------------------------
(* The order of the lines.                                                 *)

Buffers == Seq(Seq(Nat))

\* OnTheWay, of a file f, a batch w of which k buffers are written, the full
\* buffers b and the buffer c being filled.
Way(f, w, k, b, c) == <<f>> \o SubSeq(w, k + 1, Len(w)) \o b \o <<c>>

\* Where each buffer is in it.
IsWay(g, f, w, k, b, c) ==
    /\ g \in Buffers /\ Len(w) - k \in Nat /\ Len(g) = 2 + (Len(w) - k) + Len(b)
    /\ g[1] = f
    /\ \A i \in 1 .. Len(w) - k : g[1 + i] = w[k + i]
    /\ \A i \in 1 .. Len(b) : g[1 + (Len(w) - k) + i] = b[i]
    /\ g[2 + (Len(w) - k) + Len(b)] = c

LEMMA Joined ==
    ASSUME NEW S, NEW x \in Seq(S), NEW y \in Seq(S)
    PROVE  /\ x \o y \in Seq(S) /\ Len(x \o y) = Len(x) + Len(y)
           /\ \A i \in 1 .. Len(x) : (x \o y)[i] = x[i]
           /\ \A i \in 1 .. Len(y) : (x \o y)[Len(x) + i] = y[i]
  <1>1. x \o y \in Seq(S) /\ Len(x \o y) = Len(x) + Len(y)
    OBVIOUS
  <1>2. \A i \in 1 .. Len(x) : (x \o y)[i] = x[i]
    OBVIOUS
  <1>3. ASSUME NEW i \in 1 .. Len(y) PROVE (x \o y)[Len(x) + i] = y[i]
    <2>1. Len(x) \in Nat /\ Len(y) \in Nat /\ Len(x) + i \in 1 .. Len(x) + Len(y)
      OBVIOUS
    <2>2. ~(Len(x) + i <= Len(x)) /\ (Len(x) + i) - Len(x) = i
      BY <2>1
    <2> QED
      BY <2>1, <2>2
  <1> QED
    BY <1>1, <1>2, <1>3

LEMMA WayIs ==
    ASSUME NEW f \in Seq(Nat), NEW w \in Buffers, NEW k \in 0 .. Len(w), NEW b \in Buffers,
           NEW c \in Seq(Nat)
    PROVE  IsWay(Way(f, w, k, b, c), f, w, k, b, c)
  <1> DEFINE u == Len(w) - k
             s == SubSeq(w, k + 1, Len(w))
             p == <<f>> \o s
             q == p \o b
             g == q \o <<c>>
  <1>1. u \in Nat /\ s \in Buffers /\ Len(s) = u /\ \A i \in 1 .. u : s[i] = w[k + i]
    BY DEF Buffers
  <1> HIDE DEF u, s
  <1>2. /\ p \in Buffers /\ Len(p) = 1 + u /\ p[1] = f
        /\ \A i \in 1 .. u : p[1 + i] = s[i]
    <2>1. <<f>> \in Seq(Seq(Nat)) /\ Len(<<f>>) = 1 /\ <<f>>[1] = f
      OBVIOUS
    <2> QED
      BY <1>1, <2>1, Joined DEF Buffers
  <1> HIDE DEF p
  <1>3. /\ q \in Buffers /\ Len(q) = 1 + u + Len(b) /\ \A i \in 1 .. Len(p) : q[i] = p[i]
        /\ \A i \in 1 .. Len(b) : q[1 + u + i] = b[i]
    <2>1. /\ q \in Seq(Seq(Nat)) /\ Len(q) = Len(p) + Len(b)
          /\ \A i \in 1 .. Len(p) : q[i] = p[i]
          /\ \A i \in 1 .. Len(b) : q[Len(p) + i] = b[i]
      <3>1. p \in Seq(Seq(Nat)) /\ b \in Seq(Seq(Nat))
        BY <1>2 DEF Buffers
      <3> QED
        BY <3>1, Joined, SMTT(30)
    <2> HIDE DEF q
    <2> QED
      BY <2>1, <1>2, Zenon DEF Buffers
  <1> HIDE DEF q
  <1>4. /\ g \in Buffers /\ Len(g) = 2 + u + Len(b) /\ g[2 + u + Len(b)] = c
        /\ \A i \in 1 .. Len(q) : g[i] = q[i]
    <2>1. <<c>> \in Seq(Seq(Nat)) /\ Len(<<c>>) = 1 /\ <<c>>[1] = c
      OBVIOUS
    <2>2. /\ g \in Seq(Seq(Nat)) /\ Len(g) = Len(q) + 1 /\ g[Len(q) + 1] = c
          /\ \A i \in 1 .. Len(q) : g[i] = q[i]
      BY <1>3, <2>1, Joined DEF Buffers
    <2>3. Len(b) \in Nat /\ Len(q) + 1 = 2 + u + Len(b)
      BY <1>1, <1>3 DEF Buffers
    <2> QED
      BY <2>2, <2>3 DEF Buffers
  <1>5. g = Way(f, w, k, b, c)
    BY DEF Way, g, q, p, s
  <1> HIDE DEF g
  <1>6. Len(b) \in Nat
    BY DEF Buffers
  <1>7. g[1] = f
    BY <1>1, <1>2, <1>3, <1>4, <1>6
  <1>8. ASSUME NEW i \in 1 .. u PROVE g[1 + i] = w[k + i]
    <2>1. 1 + i \in 1 .. Len(p) /\ 1 + i \in 1 .. Len(q)
      BY <1>1, <1>2, <1>3, <1>6
    <2> QED
      BY <2>1, <1>1, <1>2, <1>3, <1>4, Zenon
  <1>9. ASSUME NEW i \in 1 .. Len(b) PROVE g[1 + u + i] = b[i]
    <2>1. 1 + u + i \in 1 .. Len(q)
      BY <1>1, <1>3, <1>6
    <2> QED
      BY <2>1, <1>3, <1>4
  <1> QED
    BY <1>1, <1>4, <1>5, <1>7, <1>8, <1>9 DEF u, IsWay

\* A buffer of the sequence, and its lines.
LEMMA BufferType ==
    ASSUME NEW g \in Buffers, NEW b \in 1 .. Len(g)
    PROVE  g[b] \in Seq(Nat) /\ Len(g[b]) \in Nat /\ \A i \in 1 .. Len(g[b]) : g[b][i] \in Nat
  <1>1. g[b] \in Seq(Nat)
    BY DEF Buffers
  <1> QED
    BY <1>1

LEMMA LineOf ==
    ASSUME NEW g \in Buffers, NEW l
    PROVE  l \in Lines(g) <=> \E b \in 1 .. Len(g) : \E i \in 1 .. Len(g[b]) : g[b][i] = l
  <1>1. ASSUME NEW b \in 1 .. Len(g)
        PROVE  l \in Range(g[b]) <=> \E i \in 1 .. Len(g[b]) : g[b][i] = l
    <2>1. DOMAIN g[b] = 1 .. Len(g[b])
      BY BufferType
    <2> QED
      BY <2>1 DEF Range
  <1>2. l \in Lines(g) <=> \E b \in 1 .. Len(g) : l \in Range(g[b])
    BY DEF Lines
  <1> QED
    BY <1>1, <1>2
\* A line of an ordered sequence is in one place.
LEMMA OnePlace ==
    ASSUME NEW g \in Buffers, Ordered(g)
    PROVE  \A b, c \in 1 .. Len(g) : \A i \in 1 .. Len(g[b]), j \in 1 .. Len(g[c]) :
              g[b][i] = g[c][j] => b = c /\ i = j
  <1> SUFFICES ASSUME NEW b \in 1 .. Len(g), NEW c \in 1 .. Len(g), NEW i \in 1 .. Len(g[b]),
                      NEW j \in 1 .. Len(g[c]), g[b][i] = g[c][j]
               PROVE  b = c /\ i = j
    OBVIOUS
  <1>1. g[b][i] \in Nat /\ g[c][j] \in Nat /\ Len(g) \in Nat
    BY BufferType DEF Buffers
  <1>2. Len(g[b]) \in Nat /\ Len(g[c]) \in Nat
    BY BufferType
  <1>3. ~(b < c) /\ ~(c < b) /\ ~(b = c /\ i < j) /\ ~(c = b /\ j < i)
    BY <1>1 DEF Ordered
  <1> QED
    BY <1>1, <1>2, <1>3

\* An empty buffer at the end.
LEMMA EmptyBuffer ==
    ASSUME NEW g \in Buffers, NEW h \in Buffers, Ordered(g), Len(h) = Len(g) + 1,
           \A b \in 1 .. Len(g) : h[b] = g[b], h[Len(g) + 1] = <<>>
    PROVE  Ordered(h) /\ Lines(h) = Lines(g)
  <1>0. Len(g) \in Nat
    BY DEF Buffers
  <1>1. ASSUME NEW b \in 1 .. Len(h), NEW i \in 1 .. Len(h[b])
        PROVE  b \in 1 .. Len(g) /\ i \in 1 .. Len(g[b]) /\ h[b][i] = g[b][i]
    <2>1. b # Len(g) + 1
      OBVIOUS
    <2> QED
      BY <2>1, <1>0
  <1>2. Ordered(h)
    BY <1>1 DEF Ordered
  <1>3. ASSUME NEW l PROVE l \in Lines(h) <=> l \in Lines(g)
    <2>1. 1 .. Len(g) \subseteq 1 .. Len(h)
      BY <1>0
    <2> QED
      BY <1>1, <2>1, LineOf
  <1> QED
    BY <1>2, <1>3, Zenon

\* A line after all the others.
LEMMA LastLine ==
    ASSUME NEW g \in Buffers, NEW h \in Buffers, NEW n \in Nat, Ordered(g), Len(h) = Len(g),
           Len(g) >= 1, \A b \in 1 .. Len(g) : b # Len(g) => h[b] = g[b],
           h[Len(g)] = Append(g[Len(g)], n), \A l \in Lines(g) : l < n
    PROVE  Ordered(h) /\ Lines(h) = Lines(g) \cup {n}
  <1> DEFINE m == Len(g)
             Old(b, i) == b \in 1 .. m /\ i \in 1 .. Len(g[b]) /\ h[b][i] = g[b][i]
             New(b, i) == b = m /\ i = Len(g[m]) + 1 /\ h[b][i] = n
  <1>0. m \in Nat /\ m \in 1 .. m
    BY DEF Buffers
  <1>1. /\ g[m] \in Seq(Nat) /\ Len(g[m]) \in Nat /\ Len(h[m]) = Len(g[m]) + 1
        /\ h[m][Len(g[m]) + 1] = n /\ \A i \in 1 .. Len(g[m]) : h[m][i] = g[m][i]
    BY <1>0, BufferType
  <1>2. ASSUME NEW b \in 1 .. Len(h), NEW i \in 1 .. Len(h[b]) PROVE Old(b, i) \/ New(b, i)
    <2>1. CASE b # m
      BY <2>1
    <2>2. CASE b = m
      BY <2>2, <1>1
    <2> QED
      BY <2>1, <2>2
  <1>3. ASSUME NEW b \in 1 .. m, NEW i \in 1 .. Len(g[b])
        PROVE  i \in 1 .. Len(h[b]) /\ h[b][i] = g[b][i] /\ g[b][i] < n
    <2>1. g[b][i] \in Lines(g)
      BY LineOf
    <2>2. CASE b # m
      BY <2>1, <2>2
    <2>3. CASE b = m
      <3>1. i \in 1 .. Len(h[m])
        BY <2>3, <1>1
      <3>2. h[m][i] = g[m][i] /\ g[b][i] < n
        BY <2>1, <2>3, <1>1
      <3> QED
        BY <2>3, <3>1, <3>2
    <2> QED
      BY <2>2, <2>3
  <1>4. Ordered(h)
    <2> SUFFICES ASSUME NEW b \in 1 .. Len(h), NEW c \in 1 .. Len(h), NEW i \in 1 .. Len(h[b]),
                        NEW j \in 1 .. Len(h[c]), b < c \/ (b = c /\ i < j)
                 PROVE  h[b][i] < h[c][j]
      BY DEF Ordered
    <2>1. CASE Old(b, i) /\ Old(c, j)
      BY <2>1 DEF Ordered
    <2>2. CASE Old(b, i) /\ New(c, j)
      BY <2>2, <1>3
    <2>3. ~New(b, i)
      <3> SUFFICES ASSUME New(b, i) PROVE FALSE
        OBVIOUS
      <3>1. b = c /\ i < j
        BY <1>0
      <3>2. j <= Len(g[m]) + 1
        BY <3>1, <1>1
      <3> QED
        BY <3>1, <3>2, <1>1
    <2> QED
      BY <2>1, <2>2, <2>3, <1>2
  <1>5. ASSUME NEW l PROVE l \in Lines(h) <=> (l \in Lines(g) \/ l = n)
    <2>1. ASSUME l \in Lines(h) PROVE l \in Lines(g) \/ l = n
      BY <2>1, <1>2, LineOf
    <2>2. ASSUME l \in Lines(g) PROVE l \in Lines(h)
      BY <2>2, <1>3, LineOf
    <2>3. n \in Lines(h)
      <3>1. Len(g[m]) + 1 \in 1 .. Len(h[m])
        BY <1>1
      <3> QED
        BY <3>1, <1>0, <1>1, LineOf
    <2> QED
      BY <2>1, <2>2, <2>3
  <1> QED
    BY <1>4, <1>5
\* The fourth buffer and those after it, d in all, are dropped.
IsCut(g, h, x, d) ==
    /\ Len(h) >= 3 /\ Len(g) = Len(h) + d /\ Len(x) = d
    /\ \A m \in 1 .. 3 : h[m] = g[m]
    /\ \A m \in 4 .. Len(h) : h[m] = g[m + d]
    /\ \A m \in 1 .. d : x[m] = g[3 + m]

LEMMA CutLines ==
    ASSUME NEW g \in Buffers, NEW h \in Buffers, NEW x \in Buffers, NEW d \in Nat, Ordered(g),
           IsCut(g, h, x, d)
    PROVE  Ordered(h) /\ Lines(h) = Lines(g) \ Lines(x)
  <1> USE DEF IsCut
  <1> DEFINE E(m) == IF m <= 3 THEN m ELSE m + d
  <1>0. Len(g) \in Nat /\ Len(h) \in Nat
    BY DEF Buffers
  <1>1. ASSUME NEW m \in 1 .. Len(h)
        PROVE  E(m) \in 1 .. Len(g) /\ h[m] = g[E(m)] /\ ~(E(m) \in 4 .. 3 + d)
    <2>1. CASE m <= 3
      BY <2>1, <1>0
    <2>2. CASE ~(m <= 3)
      <3>1. m \in 4 .. Len(h) /\ m + d \in 1 .. Len(g) /\ ~(m + d \in 4 .. 3 + d)
        BY <2>2, <1>0
      <3> QED
        BY <2>2, <3>1
    <2> QED
      BY <2>1, <2>2
  <1>2. ASSUME NEW m \in 1 .. Len(h), NEW o \in 1 .. Len(h), m < o PROVE E(m) < E(o)
    BY <1>0, <1>2
  <1>3. ASSUME NEW m \in 1 .. Len(g), ~(m \in 4 .. 3 + d)
        PROVE  \E o \in 1 .. Len(h) : E(o) = m
    <2>1. CASE m <= 3
      BY <2>1, <1>0
    <2>2. CASE ~(m <= 3)
      <3>1. m - d \in 4 .. Len(h) /\ (m - d) + d = m
        BY <2>2, <1>0, <1>3
      <3>2. m - d \in 1 .. Len(h) /\ ~(m - d <= 3)
        BY <3>1, <1>0
      <3> QED
        BY <3>1, <3>2, Zenon
    <2> QED
      BY <2>1, <2>2
  <1> HIDE DEF E
  <1>4. Ordered(h)
    <2> SUFFICES ASSUME NEW b \in 1 .. Len(h), NEW c \in 1 .. Len(h), NEW i \in 1 .. Len(h[b]),
                        NEW j \in 1 .. Len(h[c]), b < c \/ (b = c /\ i < j)
                 PROVE  h[b][i] < h[c][j]
      BY Zenon DEF Ordered
    <2>1. E(b) < E(c) \/ (E(b) = E(c) /\ i < j)
      BY <1>2
    <2> QED
      BY <2>1, <1>1, Zenon DEF Ordered
  <1>5. \A b, c \in 1 .. Len(g) : \A i \in 1 .. Len(g[b]), j \in 1 .. Len(g[c]) :
           g[b][i] = g[c][j] => b = c
    BY OnePlace, Zenon
  <1>6. ASSUME NEW l PROVE l \in Lines(h) <=> l \in Lines(g) /\ ~(l \in Lines(x))
    <2>1. ASSUME l \in Lines(h) PROVE l \in Lines(g) /\ ~(l \in Lines(x))
      <3>1. PICK b \in 1 .. Len(h) : \E i \in 1 .. Len(h[b]) : h[b][i] = l
        BY <2>1, LineOf
      <3>2. PICK i \in 1 .. Len(h[b]) : h[b][i] = l
        BY <3>1
      <3>3. E(b) \in 1 .. Len(g) /\ i \in 1 .. Len(g[E(b)]) /\ g[E(b)][i] = l
        BY <1>1, <3>2
      <3>4. ASSUME l \in Lines(x) PROVE FALSE
        <4>1. PICK m \in 1 .. d : \E j \in 1 .. Len(x[m]) : x[m][j] = l
          BY <3>4, LineOf, Zenon
        <4>2. PICK j \in 1 .. Len(x[m]) : x[m][j] = l
          BY <4>1
        <4>3. 3 + m \in 1 .. Len(g) /\ 3 + m \in 4 .. 3 + d /\ x[m] = g[3 + m]
          BY <1>0
        <4>4. PICK o \in 1 .. Len(g), e \in 1 .. Len(g) : o = 3 + m /\ e = E(b)
          BY <4>3, <3>3
        <4>5. j \in 1 .. Len(g[o]) /\ i \in 1 .. Len(g[e]) /\ g[o][j] = g[e][i]
          BY <4>2, <4>3, <4>4, <3>3
        <4>6. o = e
          BY <4>5, <1>5
        <4> QED
          BY <4>3, <4>4, <4>6, <1>1, SMTT(30)
      <3> QED
        BY <3>3, <3>4, LineOf, Zenon
    <2>2. ASSUME l \in Lines(g), ~(l \in Lines(x)) PROVE l \in Lines(h)
      <3>1. PICK b \in 1 .. Len(g) : \E i \in 1 .. Len(g[b]) : g[b][i] = l
        BY <2>2, LineOf, Zenon
      <3>2. ~(b \in 4 .. 3 + d)
        <4> SUFFICES ASSUME b \in 4 .. 3 + d PROVE FALSE
          OBVIOUS
        <4>1. b - 3 \in 1 .. d /\ 3 + (b - 3) = b
          OBVIOUS
        <4>2. x[b - 3] = g[b]
          BY <4>1
        <4> QED
          BY <2>2, <3>1, <4>1, <4>2, LineOf, Zenon
      <3>3. PICK o \in 1 .. Len(h) : E(o) = b
        BY <1>3, <3>2
      <3> QED
        BY <1>1, <3>1, <3>3, LineOf, Zenon
    <2> QED
      BY <2>1, <2>2
  <1> QED
    BY <1>4, <1>6
\* k lines of the second buffer join the first, and the rest of it is dropped.
IsWritten(g, h, k) ==
    /\ k \in 0 .. Len(g[2]) /\ Len(h) >= 1 /\ Len(g) = Len(h) + 1
    /\ h[1] = g[1] \o SubSeq(g[2], 1, k)
    /\ \A m \in 2 .. Len(h) : h[m] = g[m + 1]

LEMMA WrittenLines ==
    ASSUME NEW g \in Buffers, NEW h \in Buffers, NEW k, Ordered(g), IsWritten(g, h, k)
    PROVE  Ordered(h) /\ Lines(h) = Lines(g) \ Range(SubSeq(g[2], k + 1, Len(g[2])))
  <1> USE DEF IsWritten
  <1> DEFINE f == Len(g[1])
             B(b, i) == IF b > 1 THEN b + 1 ELSE IF i > f THEN 2 ELSE 1
             I(b, i) == IF b > 1 THEN i ELSE IF i > f THEN i - f ELSE i
             r == SubSeq(g[2], k + 1, Len(g[2]))
  <1>0. Len(g) \in Nat /\ Len(h) \in Nat /\ 1 \in 1 .. Len(g) /\ 2 \in 1 .. Len(g)
    BY DEF Buffers
  <1>1. /\ g[1] \in Seq(Nat) /\ g[2] \in Seq(Nat) /\ f \in Nat /\ Len(g[2]) \in Nat
        /\ k \in Nat /\ k <= Len(g[2])
    BY <1>0, BufferType
  <1>2. /\ SubSeq(g[2], 1, k) \in Seq(Nat) /\ Len(SubSeq(g[2], 1, k)) = k
        /\ \A i \in 1 .. k : SubSeq(g[2], 1, k)[i] = g[2][i]
    BY <1>1
  <1>3. /\ Len(h[1]) = f + k /\ \A i \in 1 .. f : h[1][i] = g[1][i]
        /\ \A i \in 1 .. k : h[1][f + i] = g[2][i]
    <2>1. PICK p \in Seq(Nat) : p = SubSeq(g[2], 1, k)
      BY <1>2, Zenon
    <2>2. /\ Len(g[1] \o p) = f + Len(p) /\ \A i \in 1 .. f : (g[1] \o p)[i] = g[1][i]
          /\ \A i \in 1 .. Len(p) : (g[1] \o p)[f + i] = p[i]
      BY <1>1, Joined
    <2> QED
      BY <1>2, <2>1, <2>2, Zenon
  <1>4. ASSUME NEW b \in 1 .. Len(h), NEW i \in 1 .. Len(h[b])
        PROVE  /\ B(b, i) \in 1 .. Len(g) /\ I(b, i) \in 1 .. Len(g[B(b, i)])
               /\ h[b][i] = g[B(b, i)][I(b, i)] /\ (B(b, i) = 2 => I(b, i) <= k)
    <2>1. CASE b > 1
      <3>1. b \in 2 .. Len(h) /\ b + 1 \in 1 .. Len(g) /\ b + 1 # 2
        BY <2>1, <1>0
      <3> QED
        BY <2>1, <3>1
    <2>2. CASE b = 1 /\ i > f
      <3>1. i \in 1 .. f + k
        BY <2>2, <1>3, Zenon
      <3>2. PICK j : j = i - f
        OBVIOUS
      <3>3. j \in 1 .. k /\ f + j = i /\ j <= k /\ j \in 1 .. Len(g[2])
        BY <2>2, <3>1, <3>2, <1>1, SMTT(30)
      <3>4. h[1][i] = g[2][j]
        BY <3>3, <1>3, Zenon
      <3> QED
        BY <2>2, <3>2, <3>3, <3>4, <1>0
    <2>3. CASE b = 1 /\ ~(i > f)
      <3>1. i \in 1 .. f
        BY <2>3, <1>1, <1>3
      <3> QED
        BY <2>3, <3>1, <1>0, <1>3
    <2> QED
      BY <2>1, <2>2, <2>3, <1>0
  <1>5. ASSUME NEW b \in 1 .. Len(h), NEW c \in 1 .. Len(h), NEW i \in 1 .. Len(h[b]),
               NEW j \in 1 .. Len(h[c]), b < c \/ (b = c /\ i < j)
        PROVE  B(b, i) < B(c, j) \/ (B(b, i) = B(c, j) /\ I(b, i) < I(c, j))
    <2>1. i \in Nat /\ j \in Nat /\ b \in Nat /\ c \in Nat
      OBVIOUS
    <2> QED
      BY <1>1, <1>5, <2>1
  <1>6. ASSUME NEW b \in 1 .. Len(g), NEW i \in 1 .. Len(g[b]), b = 2 => i <= k
        PROVE  \E c \in 1 .. Len(h) : \E j \in 1 .. Len(h[c]) : h[c][j] = g[b][i]
    <2>1. CASE b = 1
      <3>1. i \in 1 .. Len(h[1]) /\ h[1][i] = g[1][i] /\ 1 \in 1 .. Len(h)
        BY <2>1, <1>0, <1>1, <1>3
      <3> QED
        BY <2>1, <3>1, Zenon
    <2>2. CASE b = 2
      <3>1. i \in 1 .. k
        BY <2>2, <1>1, <1>6
      <3>2. f + i \in 1 .. Len(h[1]) /\ h[1][f + i] = g[2][i] /\ 1 \in 1 .. Len(h)
        BY <3>1, <1>0, <1>1, <1>3, SMTT(30)
      <3> QED
        BY <2>2, <3>2, Zenon
    <2>3. CASE b > 2
      <3>1. b - 1 \in 2 .. Len(h) /\ (b - 1) + 1 = b /\ b - 1 \in 1 .. Len(h)
        BY <2>3, <1>0
      <3>2. h[b - 1] = g[b]
        BY <3>1, Zenon
      <3> QED
        BY <3>1, <3>2, Zenon
    <2>4. b = 1 \/ b = 2 \/ b > 2
      BY <1>0
    <2> QED
      BY <2>1, <2>2, <2>3, <2>4, Zenon
  <1> HIDE DEF B, I
  <1>7. Ordered(h)
    <2> SUFFICES ASSUME NEW b \in 1 .. Len(h), NEW c \in 1 .. Len(h), NEW i \in 1 .. Len(h[b]),
                        NEW j \in 1 .. Len(h[c]), b < c \/ (b = c /\ i < j)
                 PROVE  h[b][i] < h[c][j]
      BY Zenon DEF Ordered
    <2>1. B(b, i) < B(c, j) \/ (B(b, i) = B(c, j) /\ I(b, i) < I(c, j))
      BY <1>5
    <2> QED
      BY <2>1, <1>4, Zenon DEF Ordered
  <1>8. ASSUME NEW l PROVE l \in Range(r) <=> \E i \in 1 .. Len(g[2]) : i > k /\ g[2][i] = l
    <2>1. /\ r \in Seq(Nat) /\ Len(r) = Len(g[2]) - k
          /\ \A i \in 1 .. Len(g[2]) - k : r[i] = g[2][k + i]
      BY <1>1
    <2> HIDE DEF r
    <2>2. l \in Range(r) <=> \E i \in 1 .. Len(g[2]) - k : r[i] = l
      BY <2>1 DEF Range
    <2>3. ASSUME NEW i \in 1 .. Len(g[2]) - k
          PROVE  k + i \in 1 .. Len(g[2]) /\ k + i > k
      BY <1>1
    <2>4. ASSUME NEW i \in 1 .. Len(g[2]), i > k
          PROVE  i - k \in 1 .. Len(g[2]) - k /\ k + (i - k) = i
      BY <1>1, <2>4
    <2>5. ASSUME NEW i \in 1 .. Len(g[2]), i > k, g[2][i] = l PROVE l \in Range(r)
      <3>1. r[i - k] = l
        BY <2>1, <2>4, <2>5
      <3> QED
        BY <2>2, <2>4, <2>5, <3>1
    <2>6. ASSUME l \in Range(r) PROVE \E i \in 1 .. Len(g[2]) : i > k /\ g[2][i] = l
      <3>1. PICK i \in 1 .. Len(g[2]) - k : r[i] = l
        BY <2>2, <2>6
      <3> QED
        BY <2>1, <2>3, <3>1, Zenon
    <2> QED
      BY <2>5, <2>6, Zenon
  <1> HIDE DEF r
  <1>9. ASSUME NEW l PROVE l \in Lines(h) <=> l \in Lines(g) /\ ~(l \in Range(r))
    <2>1. ASSUME l \in Lines(h) PROVE l \in Lines(g) /\ ~(l \in Range(r))
      <3>1. PICK b \in 1 .. Len(h) : \E i \in 1 .. Len(h[b]) : h[b][i] = l
        BY <2>1, LineOf
      <3>2. PICK i \in 1 .. Len(h[b]) : h[b][i] = l
        BY <3>1
      <3>3. PICK c, j : c = B(b, i) /\ j = I(b, i)
        OBVIOUS
      <3>4. c \in 1 .. Len(g) /\ j \in 1 .. Len(g[c]) /\ g[c][j] = l /\ (c = 2 => j <= k)
        BY <1>4, <3>2, <3>3, Zenon
      <3>5. ASSUME l \in Range(r) PROVE FALSE
        <4>1. PICK o \in 1 .. Len(g[2]) : o > k /\ g[2][o] = l
          BY <1>8, <3>5, Zenon
        <4>2. \A bb, cc \in 1 .. Len(g) : \A ii \in 1 .. Len(g[bb]), jj \in 1 .. Len(g[cc]) :
                 g[bb][ii] = g[cc][jj] => bb = cc /\ ii = jj
          BY OnePlace, Zenon
        <4>3. c = 2 /\ j = o
          BY <1>0, <3>4, <4>1, <4>2
        <4> QED
          BY <1>1, <3>4, <4>1, <4>3
      <3> QED
        BY <3>4, <3>5, LineOf
    <2>2. ASSUME l \in Lines(g), ~(l \in Range(r)) PROVE l \in Lines(h)
      <3>1. PICK b \in 1 .. Len(g) : \E i \in 1 .. Len(g[b]) : g[b][i] = l
        BY <2>2, LineOf, Zenon
      <3>2. PICK i \in 1 .. Len(g[b]) : g[b][i] = l
        BY <3>1
      <3>3. b = 2 => ~(i > k)
        BY <1>8, <2>2, <3>2
      <3>4. b = 2 => i <= k
        BY <1>1, <3>3
      <3> QED
        BY <1>6, <3>2, <3>4, LineOf, Zenon
    <2> QED
      BY <2>1, <2>2
  <1> QED
    BY <1>7, <1>9 DEF r
\* A place in a sequence of 2 + u + v buffers.
LEMMA Place ==
    ASSUME NEW u \in Nat, NEW v \in Nat, NEW i \in 1 .. 2 + u + v
    PROVE  \/ i = 1
           \/ \E j \in 1 .. u : i = 1 + j
           \/ \E j \in 1 .. v : i = 1 + u + j
           \/ i = 2 + u + v
  <1>1. CASE i = 1 \/ i = 2 + u + v
    BY <1>1
  <1>2. CASE i > 1 /\ i <= 1 + u
    <2>1. i - 1 \in 1 .. u /\ i = 1 + (i - 1)
      BY <1>2
    <2> QED
      BY <2>1
  <1>3. CASE i > 1 + u /\ i < 2 + u + v
    <2>1. i - 1 - u \in 1 .. v /\ i = 1 + u + (i - 1 - u)
      BY <1>3
    <2> QED
      BY <2>1
  <1> QED
    BY <1>1, <1>2, <1>3

\* What the steps do to the buffers on the way: a line is appended to the buffer
\* being filled,
Longer(d, c, n) == d = Append(c, n)

LEMMA WayLast ==
    ASSUME NEW w \in Buffers, NEW k \in Nat, NEW b \in Buffers, NEW c \in Seq(Nat),
           NEW n \in Nat, NEW f, NEW g, NEW h, NEW d, Longer(d, c, n),
           IsWay(g, f, w, k, b, c), IsWay(h, f, w, k, b, d),
           Ordered(g), \A l \in Lines(g) : l < n
    PROVE  Ordered(h) /\ Lines(h) = Lines(g) \cup {n}
  <1>1. PICK u \in Nat, v \in Nat : u = Len(w) - k /\ v = Len(b)
    <2>1. Len(w) - k \in Nat
      BY Zenon DEF IsWay
    <2>2. Len(b) \in Nat
      BY ONLY b \in Buffers DEF Buffers
    <2> QED
      BY <2>1, <2>2, Zenon
  <1>2. /\ g \in Buffers /\ Len(g) = 2 + u + v /\ g[1] = f
        /\ \A i \in 1 .. u : g[1 + i] = w[k + i]
        /\ \A i \in 1 .. v : g[1 + u + i] = b[i]
        /\ g[2 + u + v] = c
    BY <1>1 DEF IsWay
  <1>3. /\ h \in Buffers /\ Len(h) = 2 + u + v /\ h[1] = f
        /\ \A i \in 1 .. u : h[1 + i] = w[k + i]
        /\ \A i \in 1 .. v : h[1 + u + i] = b[i]
        /\ h[2 + u + v] = d
    BY <1>1 DEF IsWay
  <1>4. ASSUME NEW i \in 1 .. Len(g), i # Len(g) PROVE h[i] = g[i]
    <2>1. i \in 1 .. 2 + u + v /\ i # 2 + u + v
      BY <1>2, <1>4
    <2>2. i = 1 \/ (\E j \in 1 .. u : i = 1 + j) \/ (\E j \in 1 .. v : i = 1 + u + j)
      BY <2>1, Place
    <2> QED
      BY <1>2, <1>3, <2>2, Zenon
  <1>5. Len(h) = Len(g) /\ Len(g) >= 1 /\ h[Len(g)] = Append(g[Len(g)], n)
    BY <1>2, <1>3 DEF Longer
  <1> QED
    BY <1>2, <1>3, <1>4, <1>5, LastLine, Zenon
\* the buffer being filled becomes one of the full ones, before an empty one,
LEMMA WayFull ==
    ASSUME NEW w \in Buffers, NEW k \in Nat, NEW b \in Buffers, NEW c \in Seq(Nat), NEW f,
           NEW g, NEW h, NEW d \in Buffers, Longer(d, b, c),
           IsWay(g, f, w, k, b, c), IsWay(h, f, w, k, d, <<>>), Ordered(g)
    PROVE  Ordered(h) /\ Lines(h) = Lines(g)
  <1>1. PICK u \in Nat, v \in Nat : u = Len(w) - k /\ v = Len(b)
    <2>1. Len(w) - k \in Nat
      BY Zenon DEF IsWay
    <2>2. Len(b) \in Nat
      BY ONLY b \in Buffers DEF Buffers
    <2> QED
      BY <2>1, <2>2, Zenon
  <1>2. Len(d) = v + 1 /\ d[v + 1] = c /\ \A i \in 1 .. v : d[i] = b[i]
    BY <1>1 DEF Buffers, Longer
  <1>3. /\ g \in Buffers /\ Len(g) = 2 + u + v /\ g[1] = f
        /\ \A i \in 1 .. u : g[1 + i] = w[k + i]
        /\ \A i \in 1 .. v : g[1 + u + i] = b[i]
        /\ g[2 + u + v] = c
    BY <1>1, Zenon DEF IsWay
  <1>4. /\ h \in Buffers /\ Len(h) = 3 + u + v /\ h[1] = f
        /\ \A i \in 1 .. u : h[1 + i] = w[k + i]
        /\ \A i \in 1 .. v + 1 : h[1 + u + i] = d[i]
        /\ h[3 + u + v] = <<>>
    <2>1. PICK q : q = v + 1
      OBVIOUS
    <2>2. Len(d) = q /\ 2 + u + q = 3 + u + v
      BY <1>1, <1>2, <2>1
    <2>3. /\ h \in Buffers /\ Len(h) = 2 + u + q /\ h[1] = f
          /\ \A i \in 1 .. u : h[1 + i] = w[k + i]
          /\ \A i \in 1 .. q : h[1 + u + i] = d[i]
          /\ h[2 + u + q] = <<>>
      BY <1>1, <2>2, Zenon DEF IsWay
    <2> QED
      BY <2>1, <2>2, <2>3, Zenon
  <1>5. h[2 + u + v] = c
    <2>1. v + 1 \in 1 .. v + 1 /\ 1 + u + (v + 1) = 2 + u + v
      OBVIOUS
    <2> QED
      BY <1>2, <1>4, <2>1
  <1>6. \A i \in 1 .. v : h[1 + u + i] = b[i]
    BY <1>2, <1>4
  <1>7. ASSUME NEW i \in 1 .. Len(g) PROVE h[i] = g[i]
    <2>1. \/ i = 1 \/ (\E j \in 1 .. u : i = 1 + j) \/ (\E j \in 1 .. v : i = 1 + u + j)
          \/ i = 2 + u + v
      BY <1>3, Place
    <2> QED
      BY <1>3, <1>4, <1>5, <1>6, <2>1, Zenon
  <1>8. Len(h) = Len(g) + 1 /\ h[Len(g) + 1] = <<>>
    BY <1>3, <1>4
  <1> QED
    BY <1>3, <1>4, <1>7, <1>8, EmptyBuffer, Zenon

\* the full buffers become the batch,
LEMMA WaySwap ==
    ASSUME NEW b \in Buffers, NEW c \in Seq(Nat), NEW f, NEW g, NEW h, NEW d \in Buffers,
           Longer(d, b, c), IsWay(g, f, <<>>, 0, b, c), IsWay(h, f, d, 0, <<>>, <<>>),
           Ordered(g)
    PROVE  Ordered(h) /\ Lines(h) = Lines(g)
  <1>1. PICK v \in Nat : v = Len(b)
    BY DEF Buffers
  <1>2. Len(d) = v + 1 /\ d[v + 1] = c /\ \A i \in 1 .. v : d[i] = b[i]
    BY <1>1 DEF Buffers, Longer
  <1>3. /\ g \in Buffers /\ Len(g) = 2 + v /\ g[1] = f
        /\ \A i \in 1 .. v : g[1 + i] = b[i]
        /\ g[2 + v] = c
    BY <1>1 DEF IsWay
  <1>4. /\ h \in Buffers /\ Len(h) = 3 + v /\ h[1] = f
        /\ \A i \in 1 .. v + 1 : h[1 + i] = d[i]
        /\ h[3 + v] = <<>>
    BY <1>1, <1>2 DEF IsWay
  <1>5. h[2 + v] = c
    <2>1. v + 1 \in 1 .. v + 1 /\ 1 + (v + 1) = 2 + v
      OBVIOUS
    <2> QED
      BY <1>2, <1>4, <2>1
  <1>6. \A i \in 1 .. v : h[1 + i] = b[i]
    BY <1>2, <1>4
  <1>7. ASSUME NEW i \in 1 .. Len(g) PROVE h[i] = g[i]
    <2>1. i = 1 \/ (\E j \in 1 .. v : i = 1 + j) \/ i = 2 + v
      <3>1. CASE i = 1 \/ i = 2 + v
        BY <3>1
      <3>2. CASE ~(i = 1 \/ i = 2 + v)
        <4>1. i - 1 \in 1 .. v /\ i = 1 + (i - 1)
          BY <1>3, <3>2
        <4> QED
          BY <4>1
      <3> QED
        BY <3>1, <3>2
    <2> QED
      BY <1>3, <1>4, <1>5, <1>6, <2>1, Zenon
  <1>8. Len(h) = Len(g) + 1 /\ h[Len(g) + 1] = <<>>
    BY <1>3, <1>4
  <1> QED
    BY <1>3, <1>4, <1>7, <1>8, EmptyBuffer, Zenon

\* the batch is cut,
Kept(d, x, w) ==
    /\ Len(w) > 2 /\ Len(d) = 2 /\ d[1] = w[1] /\ d[2] = w[2] /\ Len(x) = Len(w) - 2
    /\ \A i \in 1 .. Len(x) : x[i] = w[2 + i]

LEMMA WayCut ==
    ASSUME NEW w \in Buffers, NEW b \in Buffers, NEW c, NEW f, NEW g, NEW h,
           NEW d \in Buffers, NEW x \in Buffers, Kept(d, x, w),
           IsWay(g, f, w, 0, b, c), IsWay(h, f, d, 0, b, c), Ordered(g)
    PROVE  Ordered(h) /\ Lines(h) = Lines(g) \ Lines(x)
  <1>0. Len(w) \in Nat /\ Len(b) \in Nat
    BY ONLY w \in Buffers, b \in Buffers DEF Buffers
  <1> USE DEF Kept
  <1>1. PICK u \in Nat, v \in Nat : u = Len(w) - 2 /\ v = Len(b) /\ u + 2 = Len(w)
    BY <1>0
  <1>2. /\ Len(d) = 2 /\ d[1] = w[1] /\ d[2] = w[2]
        /\ Len(x) = u /\ \A i \in 1 .. u : x[i] = w[2 + i]
    BY <1>1
  <1>3. /\ g \in Buffers /\ Len(g) = 4 + u + v /\ g[1] = f
        /\ \A i \in 1 .. 2 + u : g[1 + i] = w[i]
        /\ \A i \in 1 .. v : g[3 + u + i] = b[i]
        /\ g[4 + u + v] = c
    BY <1>1 DEF IsWay
  <1>4. /\ h \in Buffers /\ Len(h) = 4 + v /\ h[1] = f
        /\ \A i \in 1 .. 2 : h[1 + i] = d[i]
        /\ \A i \in 1 .. v : h[3 + i] = b[i]
        /\ h[4 + v] = c
    BY <1>1, <1>2 DEF IsWay
  <1>5. ASSUME NEW m \in 1 .. 3 PROVE h[m] = g[m]
    <2>1. h[1 + 1] = d[1] /\ h[1 + 2] = d[2] /\ g[1 + 1] = w[1] /\ g[1 + 2] = w[2]
      BY <1>3, <1>4
    <2> QED
      BY <1>2, <1>3, <1>4, <2>1
  <1>6. ASSUME NEW m \in 4 .. Len(h) PROVE h[m] = g[m + u]
    <2>1. CASE m = 4 + v
      BY <2>1, <1>3, <1>4
    <2>2. CASE m # 4 + v
      <3>1. PICK i : i = m - 3
        OBVIOUS
      <3>2. i \in 1 .. v /\ m = 3 + i /\ m + u = 3 + u + i
        BY <2>2, <3>1, <1>4
      <3> QED
        BY <3>2, <1>3, <1>4, Zenon
    <2> QED
      BY <2>1, <2>2
  <1>7. ASSUME NEW m \in 1 .. u PROVE x[m] = g[3 + m]
    <2>1. 2 + m \in 1 .. 2 + u /\ 1 + (2 + m) = 3 + m
      OBVIOUS
    <2>2. g[1 + (2 + m)] = w[2 + m]
      BY <1>3, <2>1
    <2> QED
      BY <1>2, <2>1, <2>2
  <1>8. Len(h) >= 3 /\ Len(g) = Len(h) + u /\ Len(x) = u
    BY <1>2, <1>3, <1>4
  <1>9. IsCut(g, h, x, u)
    BY <1>5, <1>6, <1>7, <1>8, Zenon DEF IsCut
  <1> QED
    BY <1>3, <1>4, <1>9, CutLines
\* the next buffer of the batch is written, a part of it or all,
Extends(e, f, x, n, r) ==
    n \in 0 .. Len(x) /\ e = f \o SubSeq(x, 1, n) /\ r = SubSeq(x, n + 1, Len(x))

WriteStep(g, h, w, k, m, b, c, f, e, x) ==
    /\ w \in Buffers /\ k \in Nat /\ m \in 1 .. Len(w) /\ m = k + 1 /\ b \in Buffers
    /\ x = w[m] /\ Ordered(g) /\ IsWay(g, f, w, k, b, c) /\ IsWay(h, e, w, m, b, c)

LEMMA WayWrite ==
    ASSUME NEW w, NEW k, NEW m, NEW b, NEW c, NEW f, NEW e, NEW x, NEW r, NEW g, NEW h, NEW n,
           WriteStep(g, h, w, k, m, b, c, f, e, x), Extends(e, f, x, n, r)
    PROVE  Ordered(h) /\ Lines(h) = Lines(g) \ Range(r)
  <1> USE DEF WriteStep
  <1>0. Len(w) \in Nat /\ Len(b) \in Nat
    BY DEF Buffers
  <1>1. PICK u \in Nat, v \in Nat : u = Len(w) - (k + 1) /\ v = Len(b) /\ u + 1 = Len(w) - k
    <2>1. Len(w) - (k + 1) \in Nat /\ Len(w) - (k + 1) + 1 = Len(w) - k
      BY <1>0
    <2> QED
      BY <1>0, <2>1, Zenon
  <1>2. /\ g \in Buffers /\ Len(g) = 3 + u + v /\ g[1] = f
        /\ \A i \in 1 .. u + 1 : g[1 + i] = w[k + i]
        /\ \A i \in 1 .. v : g[2 + u + i] = b[i]
        /\ g[3 + u + v] = c
    BY <1>1 DEF IsWay
  <1>3. /\ h \in Buffers /\ Len(h) = 2 + u + v /\ h[1] = e
        /\ \A i \in 1 .. u : h[1 + i] = w[k + 1 + i]
        /\ \A i \in 1 .. v : h[1 + u + i] = b[i]
        /\ h[2 + u + v] = c
    BY <1>1 DEF IsWay
  <1>4. g[2] = x
    <2>1. 1 \in 1 .. u + 1 /\ 1 + 1 = 2
      OBVIOUS
    <2> QED
      BY <1>2, <2>1
  <1>5. ASSUME NEW o \in 2 .. Len(h) PROVE h[o] = g[o + 1]
    <2>1. CASE o = 2 + u + v
      <3>1. o + 1 = 3 + u + v
        BY <2>1
      <3> QED
        BY <2>1, <3>1, <1>2, <1>3
    <2>2. ASSUME NEW i \in 1 .. u, o = 1 + i PROVE h[o] = g[o + 1]
      <3>1. i + 1 \in 1 .. u + 1 /\ o + 1 = 1 + (i + 1) /\ k + (i + 1) = k + 1 + i
        BY <2>2
      <3> QED
        BY <2>2, <3>1, <1>2, <1>3, Zenon
    <2>3. ASSUME NEW i \in 1 .. v, o = 1 + u + i PROVE h[o] = g[o + 1]
      <3>1. o + 1 = 2 + u + i
        BY <2>3
      <3> QED
        BY <2>3, <3>1, <1>2, <1>3, Zenon
    <2>4. o \in 1 .. 2 + u + v /\ o # 1
      BY <1>3
    <2>5. \/ \E j \in 1 .. u : o = 1 + j
          \/ \E j \in 1 .. v : o = 1 + u + j
          \/ o = 2 + u + v
      BY <2>4, Place
    <2> QED
      BY <2>1, <2>2, <2>3, <2>5
  <1>6. Len(h) >= 1 /\ Len(g) = Len(h) + 1
    BY <1>2, <1>3
  <1>7. IsWritten(g, h, n)
    BY <1>2, <1>3, <1>4, <1>5, <1>6 DEF IsWritten, Extends
  <1>8. Ordered(h) /\ Lines(h) = Lines(g) \ Range(SubSeq(g[2], n + 1, Len(g[2])))
    BY <1>2, <1>3, <1>7, WrittenLines
  <1> QED
    BY <1>4, <1>8, Zenon DEF Extends

\* and a batch that is written is none.
LEMMA WayRefill ==
    ASSUME NEW w \in Buffers, NEW f, NEW b \in Buffers, NEW c
    PROVE  Way(f, w, Len(w), b, c) = Way(f, <<>>, 0, b, c)
  <1>1. Len(w) \in Nat
    BY DEF Buffers
  <1>2. SubSeq(w, Len(w) + 1, Len(w)) = <<>>
    BY <1>1 DEF Buffers
  <1>3. SubSeq(<<>>, 0 + 1, Len(<<>>)) = <<>>
    OBVIOUS
  <1> QED
    BY <1>2, <1>3 DEF Way
\* The order of the lines, and what the next line must not meet.
InOrder ==
    /\ Ordered(OnTheWay)
    /\ Lines(OnTheWay) = (1 .. Len(log)) \ lost
    /\ lost \subseteq 1 .. Len(log)

LEMMA SeqOfMore ==
    ASSUME NEW S, NEW T, S \subseteq T, NEW s \in Seq(S) PROVE s \in Seq(T)
  OBVIOUS

LEMMA WayTypes ==
    ASSUME NEW f \in Seq(Line), NEW w \in Seq(Seq(Line)), NEW k \in 0 .. Len(w),
           NEW b \in Seq(Seq(Line)), NEW c \in Seq(Line)
    PROVE  /\ f \in Seq(Nat) /\ w \in Buffers /\ k \in Nat /\ b \in Buffers /\ c \in Seq(Nat)
           /\ IsWay(Way(f, w, k, b, c), f, w, k, b, c)
  <1>1. Line \subseteq Nat
    BY LoggingAssumption DEF Line
  <1>2. Seq(Line) \subseteq Seq(Nat)
    BY <1>1, SeqOfMore, Zenon
  <1>3. w \in Buffers /\ b \in Buffers
    BY <1>2, SeqOfMore DEF Buffers
  <1>4. f \in Seq(Nat) /\ c \in Seq(Nat) /\ k \in Nat
    BY <1>2
  <1> QED
    BY <1>3, <1>4, WayIs

\* The buffers on the way before and after a step.
LEMMA StepWay ==
    ASSUME Types, Types'
    PROVE  /\ file \in Seq(Nat) /\ buffersToWrite \in Buffers /\ written \in Nat
           /\ buffers \in Buffers /\ currentBuffer \in Seq(Nat)
           /\ written \in 0 .. Len(buffersToWrite)
           /\ IsWay(OnTheWay, file, buffersToWrite, written, buffers, currentBuffer)
           /\ IsWay(OnTheWay', file', buffersToWrite', written', buffers', currentBuffer')
  <1>1. /\ file \in Seq(Line) /\ buffersToWrite \in Seq(Seq(Line))
        /\ written \in 0 .. Len(buffersToWrite) /\ buffers \in Seq(Seq(Line))
        /\ currentBuffer \in Seq(Line)
    BY DEF Types, TypeOK
  <1>2. /\ file' \in Seq(Line) /\ buffersToWrite' \in Seq(Seq(Line))
        /\ written' \in 0 .. Len(buffersToWrite') /\ buffers' \in Seq(Seq(Line))
        /\ currentBuffer' \in Seq(Line)
    BY DEF Types, TypeOK
  <1>3. /\ OnTheWay = Way(file, buffersToWrite, written, buffers, currentBuffer)
        /\ OnTheWay' = Way(file', buffersToWrite', written', buffers', currentBuffer')
    BY DEF OnTheWay, Way
  <1>4. /\ file \in Seq(Nat) /\ buffersToWrite \in Buffers /\ written \in Nat
        /\ buffers \in Buffers /\ currentBuffer \in Seq(Nat)
        /\ IsWay(OnTheWay, file, buffersToWrite, written, buffers, currentBuffer)
    BY <1>1, <1>3, WayTypes
  <1>5. IsWay(OnTheWay', file', buffersToWrite', written', buffers', currentBuffer')
    BY <1>2, <1>3, WayTypes
  <1> QED
    BY <1>1, <1>4, <1>5

\* The numbers of the lines when one more is appended.
LEMMA MoreLines ==
    ASSUME NEW n \in Nat, NEW x \in SUBSET (1 .. n)
    PROVE  /\ ((1 .. n) \ x) \cup {n + 1} = (1 .. n + 1) \ x
           /\ x \subseteq 1 .. n + 1
  OBVIOUS

LEMMA AppendLineOrder == ASSUME IInv, Types, InOrder, AppendLine PROVE InOrder'
  <1>1. /\ Types' /\ Len(log) \in Nat /\ Len(log') = Len(log) + 1
        /\ UNCHANGED <<buffersToWrite, written, file, lost>>
    BY AppendLineTypes
  <1>2. PICK g, h, w, k, f, b, c, n :
           /\ g = OnTheWay /\ h = OnTheWay' /\ w = buffersToWrite /\ k = written /\ f = file
           /\ b = buffers /\ c = currentBuffer /\ n = Len(log) + 1
    OBVIOUS
  <1>3. /\ w \in Buffers /\ b \in Buffers /\ c \in Seq(Nat) /\ k \in Nat /\ f \in Seq(Nat)
        /\ k \in 0 .. Len(w) /\ IsWay(g, f, w, k, b, c)
        /\ IsWay(h, f, w, k, buffers', currentBuffer')
    BY <1>1, <1>2, StepWay
  <1>4. Ordered(g) /\ n \in Nat /\ \A l \in Lines(g) : l < n
    BY <1>1, <1>2 DEF InOrder
  <1>5. Ordered(h) /\ Lines(h) = Lines(g) \cup {n}
    <2>1. CASE BufferSize - Len(currentBuffer) > 1
      <3>1. buffers' = b /\ currentBuffer' = Append(c, n)
        BY <1>2, <2>1 DEF AppendLine
      <3>2. PICK d : d = Append(c, n) /\ Longer(d, c, n)
        BY Zenon DEF Longer
      <3>3. IsWay(h, f, w, k, b, d)
        BY <1>3, <3>1, <3>2
      <3> QED
        <4>1. Longer(d, c, n)
          BY <3>2
        <4> QED
          BY <1>3, <1>4, <3>3, <4>1, WayLast
    <2>2. CASE ~(BufferSize - Len(currentBuffer) > 1)
      <3>1. buffers' = Append(b, c) /\ currentBuffer' = <<n>>
        BY <1>2, <2>2 DEF AppendLine
      <3>2. PICK d : d = Append(b, c) /\ Longer(d, b, c)
        BY Zenon DEF Longer
      <3>3. d \in Buffers
        BY <1>3, <3>2 DEF Buffers
      <3>4. <<>> \in Seq(Nat) /\ Longer(<<n>>, <<>>, n)
        BY DEF Longer
      <3>5. PICK e : IsWay(e, f, w, k, d, <<>>)
        BY <1>3, <3>3, <3>4, WayIs, Zenon
      <3>6. Ordered(e) /\ Lines(e) = Lines(g)
        <4>1. Longer(d, b, c)
          BY <3>2
        <4> QED
          BY <1>3, <1>4, <3>3, <3>5, <4>1, WayFull
      <3>7. IsWay(h, f, w, k, d, <<n>>)
        BY <1>3, <3>1, <3>2
      <3> QED
        <4>1. PICK z, y : z = <<>> /\ y = <<n>>
          BY Zenon
        <4>2. /\ z \in Seq(Nat) /\ Longer(y, z, n) /\ IsWay(e, f, w, k, d, z)
              /\ IsWay(h, f, w, k, d, y)
          BY <3>4, <3>5, <3>7, <4>1
        <4>3. \A l \in Lines(e) : l < n
          BY <1>4, <3>6
        <4>4. Ordered(h) /\ Lines(h) = Lines(e) \cup {n}
          BY <1>3, <1>4, <3>3, <3>6, <4>2, <4>3, WayLast
        <4> QED
          BY <3>6, <4>4
    <2> QED
      BY <2>1, <2>2
  <1>6. Lines(h) = (1 .. Len(log')) \ lost' /\ lost' \subseteq 1 .. Len(log')
    BY <1>1, <1>2, <1>5, MoreLines DEF InOrder
  <1> QED
    BY <1>2, <1>5, <1>6 DEF InOrder

LEMMA SwapOrder == ASSUME IInv, Types, InOrder, Swap PROVE InOrder'
  <1>1. /\ Types' /\ buffersToWrite = <<>> /\ written = 0
        /\ UNCHANGED <<written, log, file, lost>>
        /\ buffersToWrite' = Append(buffers, currentBuffer) /\ buffers' = <<>>
        /\ currentBuffer' = <<>>
    BY SwapTypes
  <1>2. PICK g, h, d, f, b, c :
           /\ g = OnTheWay /\ h = OnTheWay' /\ d = Append(buffers, currentBuffer) /\ f = file
           /\ b = buffers /\ c = currentBuffer
    BY Zenon
  <1>3. /\ b \in Buffers /\ c \in Seq(Nat) /\ IsWay(g, f, <<>>, 0, b, c)
        /\ IsWay(h, f, d, 0, <<>>, <<>>)
    BY <1>1, <1>2, StepWay
  <1>4. Longer(d, b, c) /\ d \in Buffers
    BY <1>2, <1>3 DEF Buffers, Longer
  <1>5. Ordered(g)
    BY <1>2 DEF InOrder
  <1>6. Ordered(h) /\ Lines(h) = Lines(g)
    BY <1>3, <1>4, <1>5, WaySwap
  <1> QED
    BY <1>1, <1>2, <1>6 DEF InOrder
\* The lines of a part of a buffer.
LEMMA RangeOfPart ==
    ASSUME NEW x \in Seq(Nat), NEW n \in 0 .. Len(x)
    PROVE  Range(SubSeq(x, n + 1, Len(x))) \subseteq Range(x)
  <1>1. PICK r : r = SubSeq(x, n + 1, Len(x))
    BY Zenon
  <1>2. /\ DOMAIN r = 1 .. Len(x) - n /\ DOMAIN x = 1 .. Len(x)
        /\ \A i \in 1 .. Len(x) - n : n + i \in 1 .. Len(x) /\ r[i] = x[n + i]
    BY <1>1
  <1>3. Range(r) \subseteq Range(x)
    BY <1>2, Zenon DEF Range
  <1> QED
    BY <1>1, <1>3

\* What is dropped was on the way.
LEMMA CutOf ==
    ASSUME NEW w \in Buffers, NEW b \in Buffers, NEW c, NEW f, NEW g, NEW x \in Buffers,
           NEW d, IsWay(g, f, w, 0, b, c), Kept(d, x, w)
    PROVE  Lines(x) \subseteq Lines(g)
  <1> USE DEF Kept
  <1>1. Len(w) \in Nat /\ Len(x) \in Nat /\ Len(b) \in Nat
    BY DEF Buffers
  <1>2. /\ g \in Buffers /\ Len(g) = 2 + Len(w) + Len(b)
        /\ \A i \in 1 .. Len(w) : g[1 + i] = w[i]
    BY <1>1 DEF IsWay
  <1>3. ASSUME NEW i \in 1 .. Len(x) PROVE 3 + i \in 1 .. Len(g) /\ x[i] = g[3 + i]
    <2>1. 2 + i \in 1 .. Len(w) /\ 1 + (2 + i) = 3 + i
      BY <1>1
    <2>2. 3 + i \in 1 .. Len(g)
      BY <1>1, <1>2, <2>1
    <2>3. g[1 + (2 + i)] = w[2 + i]
      BY <1>2, <2>1
    <2> QED
      BY <2>1, <2>2, <2>3
  <1>4. ASSUME NEW i \in 1 .. Len(x) PROVE Range(x[i]) \subseteq Lines(g)
    BY <1>3 DEF Lines
  <1> QED
    BY <1>4, Zenon DEF Lines

LEMMA WrittenOf ==
    ASSUME NEW w \in Buffers, NEW k \in Nat, k + 1 \in 1 .. Len(w), NEW b \in Buffers, NEW c,
           NEW f, NEW g, NEW x, x = w[k + 1], IsWay(g, f, w, k, b, c), NEW n \in 0 .. Len(x)
    PROVE  Range(SubSeq(x, n + 1, Len(x))) \subseteq Lines(g)
  <1>1. Len(w) \in Nat /\ Len(b) \in Nat /\ Len(w) - k >= 1
    BY DEF Buffers
  <1>2. 2 \in 1 .. Len(g) /\ 1 \in 1 .. Len(w) - k /\ 1 + 1 = 2
    BY <1>1 DEF IsWay
  <1>3. g[2] = x
    <2>1. g[1 + 1] = w[k + 1]
      BY <1>2 DEF IsWay
    <2> QED
      BY <1>2, <2>1
  <1>4. Range(x) \subseteq Lines(g)
    BY <1>2, <1>3 DEF Lines
  <1>5. x \in Seq(Nat)
    BY DEF Buffers
  <1>6. Range(SubSeq(x, n + 1, Len(x))) \subseteq Range(x)
    BY <1>5, RangeOfPart
  <1> QED
    BY <1>4, <1>6

LEMMA BatchOrder == ASSUME IInv, Types, InOrder, Batch PROVE InOrder'
  <1>1. /\ Types' /\ written = 0
        /\ UNCHANGED <<currentBuffer, buffers, written, log, file>>
        /\ \/ UNCHANGED <<buffersToWrite, lost>>
           \/ /\ Len(buffersToWrite) > 2
              /\ buffersToWrite' = SubSeq(buffersToWrite, 1, 2)
              /\ lost' = lost \cup Lines(SubSeq(buffersToWrite, 3, Len(buffersToWrite)))
    BY BatchTypes
  <1>2. CASE UNCHANGED <<buffersToWrite, lost>>
    BY <1>1, <1>2 DEF InOrder, OnTheWay
  <1>3. CASE /\ Len(buffersToWrite) > 2
             /\ buffersToWrite' = SubSeq(buffersToWrite, 1, 2)
             /\ lost' = lost \cup Lines(SubSeq(buffersToWrite, 3, Len(buffersToWrite)))
    <2>1. PICK g, h, w, d, x, f, b, c :
             /\ g = OnTheWay /\ h = OnTheWay' /\ w = buffersToWrite /\ f = file
             /\ b = buffers /\ c = currentBuffer /\ d = SubSeq(buffersToWrite, 1, 2)
             /\ x = SubSeq(buffersToWrite, 3, Len(buffersToWrite))
      BY Zenon
    <2>2. /\ w \in Buffers /\ b \in Buffers /\ IsWay(g, f, w, 0, b, c)
          /\ IsWay(h, f, d, 0, b, c)
      BY <1>1, <1>3, <2>1, StepWay
    <2>3. /\ d \in Buffers /\ Len(d) = 2 /\ d[1] = w[1] /\ d[2] = w[2]
      BY <1>3, <2>1, <2>2 DEF Buffers
    <2>4. /\ x \in Buffers /\ Len(x) = Len(w) - 2 /\ Len(w) > 2
          /\ \A i \in 1 .. Len(x) : x[i] = w[2 + i]
      BY <1>3, <2>1, <2>2 DEF Buffers
    <2>5. Ordered(g) /\ Lines(g) = (1 .. Len(log)) \ lost /\ lost \subseteq 1 .. Len(log)
      BY <2>1 DEF InOrder
    <2>6. Kept(d, x, w)
      BY <2>3, <2>4 DEF Kept
    <2>7. Ordered(h) /\ Lines(h) = Lines(g) \ Lines(x)
      BY <2>2, <2>3, <2>4, <2>5, <2>6, WayCut
    <2>8. Lines(x) \subseteq Lines(g)
      BY <2>2, <2>4, <2>6, CutOf
    <2> QED
      BY <1>1, <1>3, <2>1, <2>5, <2>7, <2>8, Zenon DEF InOrder
  <1> QED
    BY <1>1, <1>2, <1>3

LEMMA WriteOrder == ASSUME IInv, Types, InOrder, WriteBuffer PROVE InOrder'
  <1>1. /\ Types' /\ written \in Nat /\ written + 1 \in 1 .. Len(buffersToWrite)
        /\ UNCHANGED <<currentBuffer, buffers, buffersToWrite, log>> /\ written' = written + 1
    BY WriteTypes
  <1>2. PICK g, h, w, k, f, b, c, x, e :
           /\ g = OnTheWay /\ h = OnTheWay' /\ w = buffersToWrite /\ f = file /\ e = file'
           /\ b = buffers /\ c = currentBuffer /\ k = written /\ x = buffersToWrite[written + 1]
    OBVIOUS
  <1>3. PICK n \in 0 .. Len(x) : /\ e = f \o SubSeq(x, 1, n)
                                 /\ lost' = lost \cup Range(SubSeq(x, n + 1, Len(x)))
    BY <1>2, WriteTypes, Zenon
  <1>4. /\ w \in Buffers /\ b \in Buffers /\ k \in Nat /\ k + 1 \in 1 .. Len(w)
        /\ IsWay(g, f, w, k, b, c) /\ IsWay(h, e, w, k + 1, b, c) /\ x = w[k + 1]
    BY <1>1, <1>2, StepWay
  <1>5. Ordered(g) /\ Lines(g) = (1 .. Len(log)) \ lost /\ lost \subseteq 1 .. Len(log)
    BY <1>2 DEF InOrder
  <1>6. PICK r : r = SubSeq(x, n + 1, Len(x)) /\ Extends(e, f, x, n, r)
    BY <1>3, Zenon DEF Extends
  <1>7. Ordered(h) /\ Lines(h) = Lines(g) \ Range(r)
    <2>1. PICK m : m = k + 1
      OBVIOUS
    <2>2. m \in 1 .. Len(w) /\ x = w[m] /\ IsWay(h, e, w, m, b, c)
      BY <1>4, <2>1
    <2>3. Ordered(g) /\ Extends(e, f, x, n, r)
      BY <1>5, <1>6
    <2>4. WriteStep(g, h, w, k, m, b, c, f, e, x)
      BY <1>4, <2>1, <2>2, <2>3 DEF WriteStep
    <2> QED
      BY <2>3, <2>4, WayWrite
  <1>8. Range(r) \subseteq Lines(g)
    BY <1>4, <1>6, WrittenOf
  <1> QED
    BY <1>1, <1>2, <1>3, <1>5, <1>6, <1>7, <1>8, Zenon DEF InOrder

LEMMA RefillOrder == ASSUME IInv, Types, InOrder, Refill PROVE InOrder'
  <1>1. /\ Types' /\ written = Len(buffersToWrite) /\ written' = 0 /\ buffersToWrite' = <<>>
        /\ UNCHANGED <<currentBuffer, buffers, log, file, lost>>
    BY RefillTypes
  <1>2. buffersToWrite \in Buffers /\ buffers \in Buffers
    BY <1>1, StepWay
  <1>3. OnTheWay' = OnTheWay
    BY <1>1, <1>2, WayRefill DEF OnTheWay, Way
  <1> QED
    BY <1>1, <1>3 DEF InOrder
LEMMA InitOrder == Init => InOrder
  <1> SUFFICES ASSUME Init PROVE InOrder
    OBVIOUS
  <1>1. OnTheWay = Way(<<>>, <<>>, 0, <<>>, <<>>)
    BY DEF Init, OnTheWay, Way
  <1>2. PICK g : g = OnTheWay
    OBVIOUS
  <1>3. g \in Buffers /\ Len(g) = 2 /\ \A b \in 1 .. 2 : g[b] = <<>>
    <2>1. <<>> \in Seq(Nat) /\ <<>> \in Buffers /\ 0 \in 0 .. Len(<<>>)
      BY DEF Buffers
    <2>2. IsWay(g, <<>>, <<>>, 0, <<>>, <<>>)
      BY <1>1, <1>2, <2>1, WayIs, Zenon
    <2> QED
      BY <2>2 DEF IsWay
  <1>4. \A b \in 1 .. Len(g) : Len(g[b]) = 0
    BY <1>3
  <1>5. Ordered(g)
    BY <1>4 DEF Ordered
  <1>6. Lines(g) = {}
    BY <1>3, <1>4, LineOf
  <1>7. Len(log) = 0 /\ lost = {}
    BY DEF Init
  <1>8. 1 .. 0 = {}
    OBVIOUS
  <1> QED
    BY <1>2, <1>5, <1>6, <1>7, <1>8 DEF InOrder

LEMMA NextOrder == ASSUME IInv, Types, InOrder, [Next]_vars PROVE InOrder'
  <1>1. ASSUME UNCHANGED <<file, buffersToWrite, written, buffers, currentBuffer, log, lost>>
        PROVE  InOrder'
    BY <1>1 DEF InOrder, OnTheWay
  <1>2. CASE Start \/ Stop \/ Owner
    BY <1>1, <1>2 DEF Start, Stop, Owner, Started, StopNotify, Join, shared, local, history
  <1>3. CASE Begin \/ While \/ Wait \/ WaitEnds
    BY <1>1, <1>3, Zenon DEF Begin, While, Wait, WaitEnds, shared, local, history
  <1>4. CASE Clock \/ UNCHANGED vars
    BY <1>1, <1>4 DEF Clock, vars, shared, local, history
  <1> QED
    BY <1>2, <1>3, <1>4, AppendLineOrder, SwapOrder, BatchOrder, WriteOrder, RefillOrder
       DEF Next, threadFunc

\* append() and threadFunc keep the lines in order: what is in the file, the
\* rest of the batch, the full buffers and the one being filled follow one another
\* in the order of append(), each line once, and what is missing was dropped by a
\* batch that is too large or by a write that failed.  It holds for buffers,
\* batches and numbers of lines of any size, and for any interleaving with the
\* threads that log and with stop().
THEOREM LoggingLinesInOrder == Spec => []LinesInOrder
  <1>1. IInv /\ Types /\ InOrder /\ [Next]_vars => InOrder'
    BY NextOrder
  <1>2. Types /\ InOrder => LinesInOrder
    BY DEF Types, InOrder, LinesInOrder
  <1> QED
    BY InitOrder, Invariant, TypesInvariant, <1>1, <1>2, PTL DEF Spec
=============================================================================
