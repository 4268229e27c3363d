------------------------------- MODULE Buffer -------------------------------
(***************************************************************************)
(* net/Buffer.h and net/Buffer.cc: a vector with a read and a write index. *)
(* A Buffer is a record, its methods are operators on it, and the          *)
(* specification lets a user call them in any order within the asserted    *)
(* preconditions.  The byte at offset i of the vector is data[i + 1].      *)
(***************************************************************************)
EXTENDS Integers, Sequences

CONSTANTS
    Byte,             \* the values of a char; 0 is one of them
    kCheapPrepend,    \* 8
    kInitialSize,     \* 1024
    ExtraSize,        \* sizeof extrabuf in readFd
    MaxChunk,         \* bound: bytes in one call
    MaxSize           \* bound: size of the vector

ASSUME BufferAssumption ==
    /\ 0 \in Byte
    /\ kCheapPrepend \in Nat /\ kInitialSize \in Nat /\ ExtraSize \in Nat
    /\ MaxChunk \in Nat /\ MaxSize \in Nat

VARIABLES
    b,          \* the Buffer: [data, reader, writer]
    aborted     \* an assertion failed

vars == <<b, aborted>>

Chunks == UNION {[1 .. n -> Byte] : n \in 0 .. MaxChunk}

readableBytes(x) == x.writer - x.reader
writableBytes(x) == Len(x.data) - x.writer
prependableBytes(x) == x.reader

\* The readable bytes.
Contents(x) == [i \in 1 .. readableBytes(x) |-> x.data[x.reader + i]]

----------------------------------------------------------------------------
(* The methods.                                                            *)

\* Buffer(initialSize): the vector is filled with zeros.
New(size) ==
    [data |-> [i \in 1 .. kCheapPrepend + size |-> 0],
     reader |-> kCheapPrepend, writer |-> kCheapPrepend]

\* std::copy of the bytes s to the offset at.
Copy(data, at, s) ==
    [i \in 1 .. Len(data) |-> IF i - at \in 1 .. Len(s) THEN s[i - at] ELSE data[i]]

\* The test in makeSpace.
MustGrow(x, len) ==
    writableBytes(x) + prependableBytes(x) < len + kCheapPrepend

\* Mutant: the bytes moved are the first ones of the vector.
MutMakeSpace(x, len) ==
    IF MustGrow(x, len)
    THEN [x EXCEPT !.data = [i \in 1 .. x.writer + len |->
                                IF i <= Len(x.data) THEN x.data[i] ELSE 0]]
    ELSE [data |-> Copy(x.data, kCheapPrepend, SubSeq(x.data, 1, readableBytes(x))),
          reader |-> kCheapPrepend, writer |-> kCheapPrepend + readableBytes(x)]

\* makeSpace: resize, or move the bytes to the front.
makeSpace(x, len) ==
    IF MustGrow(x, len)
    THEN [x EXCEPT !.data = [i \in 1 .. x.writer + len |->
                                IF i <= Len(x.data) THEN x.data[i] ELSE 0]]
    ELSE [data |-> Copy(x.data, kCheapPrepend, Contents(x)),
          reader |-> kCheapPrepend, writer |-> kCheapPrepend + readableBytes(x)]

\* The assertions of makeSpace and ensureWritableBytes.
SpaceAsserts(x, len) ==
    writableBytes(x) < len =>
        /\ MustGrow(x, len) \/ kCheapPrepend < x.reader
        /\ writableBytes(makeSpace(x, len)) >= len

ensureWritableBytes(x, len) ==
    IF writableBytes(x) < len THEN makeSpace(x, len) ELSE x

\* std::copy to beginWrite(), and hasWritten.
Write(x, s) ==
    [data |-> Copy(x.data, x.writer, s),
     reader |-> x.reader, writer |-> x.writer + Len(s)]

append(x, s) == Write(ensureWritableBytes(x, Len(s)), s)

retrieveAll(x) == [data |-> x.data, reader |-> kCheapPrepend, writer |-> kCheapPrepend]

retrieve(x, len) ==
    IF len < readableBytes(x)
    THEN [data |-> x.data, reader |-> x.reader + len, writer |-> x.writer]
    ELSE retrieveAll(x)

unwrite(x, len) ==
    [data |-> x.data, reader |-> x.reader, writer |-> x.writer - len]

prepend(x, s) ==
    [data |-> Copy(x.data, x.reader - Len(s), s),
     reader |-> x.reader - Len(s), writer |-> x.writer]

\* shrink appends the readable bytes to a new Buffer and swaps.
shrink(x, reserve) ==
    append(ensureWritableBytes(New(kInitialSize), readableBytes(x) + reserve),
           Contents(x))

\* Mutant: the bytes in extrabuf are dropped.
MutReadFd(x, s) ==
    IF Len(s) <= writableBytes(x) THEN Write(x, s)
    ELSE Write(x, SubSeq(s, 1, writableBytes(x)))

\* readFd: readv fills the writable bytes, then extrabuf.
readFd(x, s) ==
    LET n == writableBytes(x)
    IN  IF Len(s) <= n THEN Write(x, s)
        ELSE append(Write(x, SubSeq(s, 1, n)), SubSeq(s, n + 1, Len(s)))

\* How much readv may return.
ReadSize(x) ==
    IF writableBytes(x) < ExtraSize THEN writableBytes(x) + ExtraSize
    ELSE writableBytes(x)

----------------------------------------------------------------------------
(* The calls.                                                              *)

Returns(x, asserts) ==
    /\ Len(x.data) <= MaxSize
    /\ b' = x
    /\ aborted' = ~asserts

AppendBytes(s) == Returns(append(b, s), SpaceAsserts(b, Len(s)))
EnsureWritable(len) == Returns(ensureWritableBytes(b, len), SpaceAsserts(b, len))

\* The user writes at beginWrite() and calls hasWritten.
HasWritten(s) ==
    /\ Len(s) <= writableBytes(b)
    /\ Returns(Write(b, s), TRUE)

\* retrieve, retrieveUntil and retrieveAsString.
Retrieve(len) ==
    /\ len <= readableBytes(b)
    /\ Returns(retrieve(b, len), TRUE)

RetrieveAll == Returns(retrieveAll(b), TRUE)

Unwrite(len) ==
    /\ len <= readableBytes(b)
    /\ Returns(unwrite(b, len), TRUE)

Prepend(s) ==
    /\ Len(s) <= prependableBytes(b)
    /\ Returns(prepend(b, s), TRUE)

Shrink(reserve) ==
    Returns(shrink(b, reserve),
            SpaceAsserts(New(kInitialSize), readableBytes(b) + reserve))

\* readFd; a failed readv changes nothing.
ReadFd(s) ==
    LET full == Write(b, SubSeq(s, 1, writableBytes(b)))
    IN  /\ Len(s) <= ReadSize(b)
        /\ Returns(readFd(b, s),
                   Len(s) > writableBytes(b) =>
                       SpaceAsserts(full, Len(s) - writableBytes(b)))

Init ==
    /\ b = New(kInitialSize)
    /\ aborted = FALSE

Call ==
    \/ \E s \in Chunks : AppendBytes(s) \/ HasWritten(s) \/ Prepend(s) \/ ReadFd(s)
    \/ \E n \in 0 .. MaxChunk : EnsureWritable(n) \/ Shrink(n)
    \/ \E n \in 0 .. readableBytes(b) : Retrieve(n) \/ Unwrite(n)
    \/ RetrieveAll

Next == ~aborted /\ Call

Spec == Init /\ [][Next]_vars

----------------------------------------------------------------------------
(* Properties.                                                             *)

\* The order of the indices that the comment on class Buffer draws
\* (0 <= readerIndex <= writerIndex <= size), and room for retrieveAll to put
\* both indices behind the kCheapPrepend bytes.
TypeOK ==
    /\ b \in [data : Seq(Byte), reader : Nat, writer : Nat]
    /\ b.reader <= b.writer /\ b.writer <= Len(b.data)
    /\ kCheapPrepend <= Len(b.data)
    /\ aborted \in BOOLEAN

\* The assertions of makeSpace and ensureWritableBytes never fail, whatever
\* prepends, reads and appends went before: where the bytes are moved they are
\* behind the first kCheapPrepend bytes, and then there is room.
NoAbort == ~aborted

Q == INSTANCE ByteQueue WITH queue <- Contents(b)

\* A Buffer implements a queue of bytes: no move, resize, shrink or read over
\* two memory areas repeats, changes or reorders a byte in it.
ImplementsQueue == Q!Spec

\* The effect of each call on the queue of bytes.
CallMeans ==
    /\ \A s \in Chunks :
          /\ AppendBytes(s) \/ HasWritten(s) \/ ReadFd(s) => Q!Put(s)
          /\ Prepend(s) => Q!Push(s)
    /\ \A n \in 0 .. readableBytes(b) :
          (Retrieve(n) => Q!Take(n)) /\ (Unwrite(n) => Q!Withdraw(n))
    /\ \A n \in 0 .. MaxChunk :
          EnsureWritable(n) \/ Shrink(n) => Contents(b)' = Contents(b)

\* Every call has the effect on the queue that its caller means: all the bytes
\* that append, hasWritten and readFd are given arrive, also those that readFd
\* first has in extrabuf, and making room changes nothing.
EachCall == [][CallMeans]_vars
=============================================================================
