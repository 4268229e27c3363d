------------------------------ MODULE LogFile ------------------------------
(***************************************************************************)
(* base/LogFile.cc over FileUtil::AppendFile: a log file that rolls over   *)
(* by size and by day.  A LogFile is a record and its methods are operators*)
(* on it; t is what time() returns.  Sizes are counted in lines: written   *)
(* is writtenBytes_, size what the file really got, stray the part of it   *)
(* that failed writes left there, buffered the part still in the stream.   *)
(***************************************************************************)
EXTENDS Integers

CONSTANTS
    rollSize,            \* rollSize_
    flushInterval,       \* flushInterval_ of the LogFile
    checkEveryN,         \* checkEveryN_
    kRollPerSeconds      \* one day

ASSUME LogFileAssumption ==
    /\ rollSize \in Nat /\ flushInterval \in Nat
    /\ checkEveryN \in Nat \ {0} /\ kRollPerSeconds \in Nat \ {0}

StartOfPeriod(t) == (t \div kRollPerSeconds) * kRollPerSeconds

\* rollFile: a file is named after the second in which it is opened; closing the
\* old one flushes it.
rollFile(f, t) ==
    IF t > f.lastRoll
    THEN [f EXCEPT !.lastRoll = t, !.lastFlush = t, !.startOfPeriod = StartOfPeriod(t),
                   !.written = 0, !.size = 0, !.stray = 0, !.buffered = 0]
    ELSE f

\* LogFile(): the constructor rolls over to the first file.
Open(t) ==
    rollFile([lastRoll |-> 0, lastFlush |-> 0, startOfPeriod |-> 0, count |-> 0,
              written |-> 0, size |-> 0, stray |-> 0, buffered |-> 0], t)

\* flush.
flush(f) == [f EXCEPT !.buffered = 0]

\* AppendFile::append of n lines, k of which reach the stream: after an error it
\* gives up before it has counted what that write stored.
AppendFile(f, n, k) ==
    [f EXCEPT !.written = f.written + (IF k = n THEN n ELSE 0),
              !.stray = f.stray + (IF k = n THEN 0 ELSE k),
              !.size = f.size + k, !.buffered = f.buffered + k]

\* Mutant: the size is tested only with the time.
MutAppend(f, n, k, t) ==
    LET a == AppendFile(f, n, k)
    IN  IF a.count + 1 < checkEveryN THEN [a EXCEPT !.count = a.count + 1]
        ELSE IF a.written > rollSize THEN rollFile([a EXCEPT !.count = 0], t)
        ELSE [a EXCEPT !.count = 0]

\* append_unlocked.
append(f, n, k, t) ==
    LET a == AppendFile(f, n, k)
        z == [a EXCEPT !.count = 0]
    IN  IF a.written > rollSize THEN rollFile(a, t)
        ELSE IF a.count + 1 < checkEveryN THEN [a EXCEPT !.count = a.count + 1]
        ELSE IF StartOfPeriod(t) # z.startOfPeriod THEN rollFile(z, t)
        ELSE IF t - z.lastFlush > flushInterval
        THEN flush([z EXCEPT !.lastFlush = t])
        ELSE z
============================================================================
