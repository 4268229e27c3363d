----------------------------- MODULE NetProofs ------------------------------
(***************************************************************************)
(* Parts of the network library that stand by themselves: Buffer,          *)
(* EventLoopThreadPool and the ThreadPool of base/.                        *)
(*                                                                         *)
(* Buffer first, for every vector size, byte set and sequence of calls:    *)
(* the indices stay in order, no assertion fails, and the readable bytes   *)
(* are a queue.  Each method has a lemma that says what it does to a well  *)
(* formed Buffer; the theorems only combine them.                          *)
(***************************************************************************)
EXTENDS Buffer, EventLoopThreadPool, ThreadPool, TLAPS

Record == [data : Seq(Byte), reader : Nat, writer : Nat]

WellFormed(x) ==
    /\ x \in Record
    /\ x.reader <= x.writer /\ x.writer <= Len(x.data)
    /\ kCheapPrepend <= Len(x.data)

----------------------------------------------------------------------------
(* Byte strings.                                                           *)

\* A function on 1 .. n is a sequence of length n.
LEMMA Tuple ==
    ASSUME NEW n \in Nat, NEW S, NEW f \in [1 .. n -> S]
    PROVE  f \in Seq(S) /\ Len(f) = n
OBVIOUS

\* The strings that calls carry are byte strings.
LEMMA ChunkType ==
    ASSUME NEW s \in Chunks
    PROVE  s \in Seq(Byte)
BY BufferAssumption DEF Chunks

\* Copy keeps the length and writes exactly the bytes of s.
LEMMA CopyType ==
    ASSUME NEW d \in Seq(Byte), NEW at \in Int, NEW s \in Seq(Byte)
    PROVE  /\ Copy(d, at, s) \in Seq(Byte)
           /\ Len(Copy(d, at, s)) = Len(d)
           /\ \A i \in 1 .. Len(d) :
                 Copy(d, at, s)[i] = IF i - at \in 1 .. Len(s) THEN s[i - at] ELSE d[i]
<1>1. Len(d) \in Nat /\ \A i \in 1 .. Len(d) : d[i] \in Byte
  OBVIOUS
<1>2. \A i \in 1 .. Len(s) : s[i] \in Byte
  OBVIOUS
<1>3. Copy(d, at, s) \in [1 .. Len(d) -> Byte]
  BY <1>1, <1>2 DEF Copy
<1> QED
  BY <1>1, <1>3, Tuple DEF Copy

\* The readable bytes of a well formed Buffer are a byte string.
LEMMA ContentsType ==
    ASSUME NEW x, WellFormed(x)
    PROVE  /\ readableBytes(x) \in Nat
           /\ Contents(x) \in Seq(Byte)
           /\ Len(Contents(x)) = readableBytes(x)
           /\ \A i \in 1 .. readableBytes(x) : Contents(x)[i] = x.data[x.reader + i]
<1>1. /\ x.data \in Seq(Byte) /\ x.reader \in Nat /\ x.writer \in Nat
      /\ x.reader <= x.writer /\ x.writer <= Len(x.data)
  BY DEF WellFormed, Record
<1>2. readableBytes(x) \in Nat
  BY <1>1 DEF readableBytes
<1>3. \A i \in 1 .. readableBytes(x) : x.data[x.reader + i] \in Byte
  BY <1>1 DEF readableBytes
<1>4. Contents(x) \in [1 .. readableBytes(x) -> Byte]
  BY <1>3 DEF Contents
<1> QED
  BY <1>2, <1>4, Tuple DEF Contents

\* Two sequences of one length that agree everywhere are equal.
LEMMA SameBytes ==
    ASSUME NEW s \in Seq(Byte), NEW t \in Seq(Byte), Len(s) = Len(t),
           \A i \in 1 .. Len(s) : s[i] = t[i]
    PROVE  s = t
OBVIOUS

\* Byte strings are joined in any grouping.
LEMMA JoinAssociative ==
    ASSUME NEW s \in Seq(Byte), NEW t \in Seq(Byte), NEW u \in Seq(Byte)
    PROVE  (s \o t) \o u = s \o (t \o u)
OBVIOUS

----------------------------------------------------------------------------
(* The methods.                                                            *)

\* The fields of a well formed Buffer, for the leaves below.
LEMMA Fields ==
    ASSUME NEW x, WellFormed(x)
    PROVE  /\ x.data \in Seq(Byte) /\ Len(x.data) \in Nat
           /\ x.reader \in Nat /\ x.writer \in Nat
           /\ x.reader <= x.writer /\ x.writer <= Len(x.data)
           /\ kCheapPrepend <= Len(x.data) /\ kCheapPrepend \in Nat
           /\ x = [data |-> x.data, reader |-> x.reader, writer |-> x.writer]
BY BufferAssumption DEF WellFormed, Record

\* A new Buffer is empty, and has the room that was asked for.
LEMMA NewOK ==
    ASSUME NEW n \in Nat
    PROVE  /\ WellFormed(New(n))
           /\ Contents(New(n)) = <<>>
           /\ writableBytes(New(n)) = n
<1> DEFINE d == [i \in 1 .. kCheapPrepend + n |-> 0]
<1>1. kCheapPrepend \in Nat /\ kCheapPrepend + n \in Nat /\ 0 \in Byte
  BY BufferAssumption
<1>2. d \in [1 .. kCheapPrepend + n -> Byte]
  BY <1>1
<1>3. d \in Seq(Byte) /\ Len(d) = kCheapPrepend + n
  BY <1>1, <1>2, Tuple
<1>4. New(n) = [data |-> d, reader |-> kCheapPrepend, writer |-> kCheapPrepend]
  BY DEF New
<1> HIDE DEF d
<1>5. WellFormed(New(n))
  BY <1>1, <1>3, <1>4 DEF WellFormed, Record
<1>6. readableBytes(New(n)) = 0
  BY <1>1, <1>4 DEF readableBytes
<1>7. Contents(New(n)) \in Seq(Byte) /\ Len(Contents(New(n))) = 0
  BY <1>5, <1>6, ContentsType
<1>8. Contents(New(n)) = <<>>
  BY <1>7
<1> QED
  BY <1>1, <1>3, <1>4, <1>5, <1>8 DEF writableBytes

\* makeSpace makes the room, keeps the readable bytes, and its assertion holds:
\* if the bytes need not grow past the vector and still do not fit, the read
\* index is behind the first kCheapPrepend bytes.
LEMMA MakeSpaceOK ==
    ASSUME NEW x, WellFormed(x), NEW n \in Nat, writableBytes(x) < n
    PROVE  /\ WellFormed(makeSpace(x, n))
           /\ Contents(makeSpace(x, n)) = Contents(x)
           /\ writableBytes(makeSpace(x, n)) >= n
           /\ MustGrow(x, n) \/ kCheapPrepend < x.reader
<1> DEFINE y == makeSpace(x, n)
           c == Contents(x)
<1>0. /\ x.data \in Seq(Byte) /\ Len(x.data) \in Nat
      /\ x.reader \in Nat /\ x.writer \in Nat
      /\ x.reader <= x.writer /\ x.writer <= Len(x.data)
      /\ kCheapPrepend <= Len(x.data) /\ kCheapPrepend \in Nat
  BY Fields
<1>1. Len(x.data) - x.writer < n
  BY DEF writableBytes
<1>2. /\ c \in Seq(Byte) /\ Len(c) = x.writer - x.reader
      /\ \A i \in 1 .. x.writer - x.reader : c[i] = x.data[x.reader + i]
  BY ContentsType DEF readableBytes
<1> HIDE DEF c
<1>3. CASE MustGrow(x, n)
  <2> DEFINE e == [i \in 1 .. x.writer + n |->
                     IF i <= Len(x.data) THEN x.data[i] ELSE 0]
  <2>1. \A i \in 1 .. x.writer + n :
           (IF i <= Len(x.data) THEN x.data[i] ELSE 0) \in Byte
    BY <1>0, BufferAssumption
  <2>2. e \in [1 .. x.writer + n -> Byte]
    BY <2>1
  <2>3. e \in Seq(Byte) /\ Len(e) = x.writer + n
    <3>1. x.writer + n \in Nat
      BY <1>0
    <3> HIDE DEF e
    <3> QED BY <2>2, <3>1, Tuple
  <2>4. \A i \in 1 .. Len(x.data) : e[i] = x.data[i]
    BY <1>0, <1>1
  <2>5. y = [x EXCEPT !.data = e]
    BY <1>3 DEF makeSpace
  <2> HIDE DEF e
  <2>6. y.data = e /\ y.reader = x.reader /\ y.writer = x.writer /\ y \in Record
    BY <2>5, <2>3 DEF WellFormed, Record
  <2> HIDE DEF y
  <2>7. WellFormed(y)
    BY <2>6, <2>3, <1>0, <1>1 DEF WellFormed
  <2>8. /\ Contents(y) \in Seq(Byte) /\ Len(Contents(y)) = x.writer - x.reader
        /\ \A i \in 1 .. x.writer - x.reader : Contents(y)[i] = e[x.reader + i]
    BY <2>6, <2>7, ContentsType DEF readableBytes
  <2>9. \A i \in 1 .. x.writer - x.reader : Contents(y)[i] = c[i]
    <3> TAKE i \in 1 .. x.writer - x.reader
    <3>1. x.reader + i \in 1 .. Len(x.data)
      BY <1>0
    <3> QED
      BY <2>8, <2>4, <3>1, <1>2
  <2>10. Contents(y) = c
    BY <2>8, <2>9, <1>2, SameBytes
  <2> QED
    BY <2>3, <2>6, <2>7, <2>10, <1>0, <1>3 DEF writableBytes, y, c
<1>4. CASE ~MustGrow(x, n)
  <2> DEFINE e == Copy(x.data, kCheapPrepend, c)
  <2>0. Len(x.data) - x.writer + x.reader >= n + kCheapPrepend
    BY <1>0, <1>4 DEF MustGrow, writableBytes, prependableBytes
  <2>1. kCheapPrepend < x.reader
    BY <1>0, <1>1, <2>0
  <2>2. /\ e \in Seq(Byte) /\ Len(e) = Len(x.data)
        /\ \A i \in 1 .. Len(x.data) :
              e[i] = IF i - kCheapPrepend \in 1 .. Len(c) THEN c[i - kCheapPrepend]
                     ELSE x.data[i]
    <3>1. x.data \in Seq(Byte) /\ kCheapPrepend \in Int /\ c \in Seq(Byte)
      BY <1>0, <1>2
    <3> QED
      BY ONLY <3>1, CopyType, Zenon
  <2>3. y = [data |-> e, reader |-> kCheapPrepend,
             writer |-> kCheapPrepend + (x.writer - x.reader)]
    BY <1>4 DEF makeSpace, readableBytes, c
  <2> HIDE DEF e
  <2>4. /\ y.data = e /\ y.reader = kCheapPrepend
        /\ y.writer = kCheapPrepend + (x.writer - x.reader) /\ y \in Record
    BY <2>2, <2>3, <1>0 DEF Record
  <2> HIDE DEF y
  <2>5. WellFormed(y) /\ writableBytes(y) >= n
    <3>1. Len(y.data) = Len(x.data) /\ y \in Record
      BY <2>2, <2>4, Zenon
    <3> QED
      BY <2>0, <2>1, <2>4, <3>1, <1>0 DEF WellFormed, writableBytes
  <2>6. /\ Contents(y) \in Seq(Byte) /\ Len(Contents(y)) = x.writer - x.reader
        /\ \A i \in 1 .. x.writer - x.reader : Contents(y)[i] = e[kCheapPrepend + i]
    BY <2>4, <2>5, <1>0, ContentsType DEF readableBytes
  <2>7. \A i \in 1 .. x.writer - x.reader : e[kCheapPrepend + i] = c[i]
    <3> TAKE i \in 1 .. x.writer - x.reader
    <3>1. /\ kCheapPrepend + i \in 1 .. Len(x.data)
          /\ (kCheapPrepend + i) - kCheapPrepend = i
      BY <2>1, <1>0
    <3>2. i \in 1 .. Len(c)
      BY <1>2
    <3> QED
      BY <2>2, <3>1, <3>2
  <2>8. Contents(y) = c
    BY <2>6, <2>7, <1>2, SameBytes
  <2> QED
    BY <2>1, <2>5, <2>8 DEF y, c
<1> QED
  BY <1>3, <1>4

\* ensureWritableBytes, its assertions included.
LEMMA EnsureOK ==
    ASSUME NEW x, WellFormed(x), NEW n \in Nat
    PROVE  /\ WellFormed(ensureWritableBytes(x, n))
           /\ Contents(ensureWritableBytes(x, n)) = Contents(x)
           /\ writableBytes(ensureWritableBytes(x, n)) >= n
           /\ SpaceAsserts(x, n)
<1>0. writableBytes(x) \in Int
  BY Fields DEF writableBytes
<1>1. CASE writableBytes(x) < n
  BY <1>1, MakeSpaceOK DEF ensureWritableBytes, SpaceAsserts
<1>2. CASE ~(writableBytes(x) < n)
  BY <1>0, <1>2 DEF ensureWritableBytes, SpaceAsserts
<1> QED
  BY <1>1, <1>2

\* Bytes written behind the readable ones are readable behind them.
LEMMA WriteOK ==
    ASSUME NEW x, WellFormed(x), NEW s \in Seq(Byte), Len(s) <= writableBytes(x)
    PROVE  /\ WellFormed(Write(x, s))
           /\ Contents(Write(x, s)) = Contents(x) \o s
           /\ writableBytes(Write(x, s)) = writableBytes(x) - Len(s)
<1> DEFINE y == Write(x, s)
           c == Contents(x)
           e == Copy(x.data, x.writer, s)
           n == x.writer - x.reader
<1>0. /\ x.data \in Seq(Byte) /\ Len(x.data) \in Nat
      /\ x.reader \in Nat /\ x.writer \in Nat
      /\ x.reader <= x.writer /\ x.writer <= Len(x.data)
      /\ kCheapPrepend <= Len(x.data) /\ kCheapPrepend \in Nat
  BY Fields
<1>1. Len(s) \in Nat /\ x.writer + Len(s) <= Len(x.data) /\ n \in Nat
  BY <1>0 DEF writableBytes
<1>2. /\ c \in Seq(Byte) /\ Len(c) = n
      /\ \A i \in 1 .. n : c[i] = x.data[x.reader + i]
  BY ContentsType DEF readableBytes
<1>3. /\ e \in Seq(Byte) /\ Len(e) = Len(x.data)
      /\ \A i \in 1 .. Len(x.data) :
            e[i] = IF i - x.writer \in 1 .. Len(s) THEN s[i - x.writer] ELSE x.data[i]
  <2>1. x.data \in Seq(Byte) /\ x.writer \in Int /\ s \in Seq(Byte)
    BY <1>0
  <2> QED
    BY ONLY <2>1, CopyType, Zenon
<1>4. y = [data |-> e, reader |-> x.reader, writer |-> x.writer + Len(s)]
  BY DEF Write
<1> HIDE DEF e, c
<1>5. /\ y.data = e /\ y.reader = x.reader /\ y.writer = x.writer + Len(s)
      /\ y \in Record
  BY <1>0, <1>1, <1>3, <1>4 DEF Record
<1> HIDE DEF y
<1>6. WellFormed(y) /\ writableBytes(y) = writableBytes(x) - Len(s)
  BY <1>0, <1>1, <1>3, <1>5 DEF WellFormed, writableBytes
<1>7. readableBytes(y) = n + Len(s)
  BY <1>0, <1>1, <1>5 DEF readableBytes
<1>8. /\ Contents(y) \in Seq(Byte) /\ Len(Contents(y)) = n + Len(s)
      /\ \A i \in 1 .. n + Len(s) : Contents(y)[i] = e[x.reader + i]
  BY <1>5, <1>6, <1>7, ContentsType
<1>9. /\ c \o s \in Seq(Byte) /\ Len(c \o s) = n + Len(s)
      /\ \A i \in 1 .. n + Len(s) : (c \o s)[i] = IF i <= n THEN c[i] ELSE s[i - n]
  <2>1. /\ c \o s \in Seq(Byte) /\ Len(c \o s) = Len(c) + Len(s)
        /\ \A i \in 1 .. Len(c) + Len(s) :
              (c \o s)[i] = IF i <= Len(c) THEN c[i] ELSE s[i - Len(c)]
    BY <1>2
  <2> QED
    BY <2>1, <1>2
<1>10. \A i \in 1 .. n + Len(s) : e[x.reader + i] = (c \o s)[i]
  <2> TAKE i \in 1 .. n + Len(s)
  <2>1. x.reader + i \in 1 .. Len(x.data) /\ (x.reader + i) - x.writer = i - n
    <3> DEFINE r == x.reader
               w == x.writer
               l == Len(x.data)
               k == Len(s)
    <3>1. /\ r \in Nat /\ w \in Nat /\ l \in Nat /\ k \in Nat /\ r <= w
          /\ n = w - r /\ w + k <= l /\ i \in 1 .. n + k
      BY <1>0, <1>1
    <3> HIDE DEF r, w, l, k
    <3>2. r + i \in 1 .. l /\ (r + i) - w = i - n
      BY <3>1
    <3> QED BY <3>2 DEF r, w, l
  <2>2. CASE i <= n
    <3>1. ~((x.reader + i) - x.writer \in 1 .. Len(s)) /\ i \in 1 .. n
      BY <2>1, <2>2, <1>1
    <3> QED
      BY <3>1, <2>1, <2>2, <1>2, <1>3, <1>9
  <2>3. CASE ~(i <= n)
    <3>1. i - n \in 1 .. Len(s)
      BY <2>3, <1>1
    <3> QED
      BY <3>1, <2>1, <2>3, <1>3, <1>9, Zenon
  <2> QED
    BY <2>2, <2>3, Zenon
<1>11. Contents(y) = c \o s
  BY <1>8, <1>9, <1>10, SameBytes, Zenon
<1> QED
  BY <1>6, <1>11 DEF y, c

\* append.
LEMMA AppendOK ==
    ASSUME NEW x, WellFormed(x), NEW s \in Seq(Byte)
    PROVE  /\ WellFormed(append(x, s))
           /\ Contents(append(x, s)) = Contents(x) \o s
           /\ SpaceAsserts(x, Len(s))
<1>1. Len(s) \in Nat
  OBVIOUS
<1>2. /\ WellFormed(ensureWritableBytes(x, Len(s)))
      /\ Contents(ensureWritableBytes(x, Len(s))) = Contents(x)
      /\ writableBytes(ensureWritableBytes(x, Len(s))) >= Len(s)
      /\ SpaceAsserts(x, Len(s))
  BY <1>1, EnsureOK
<1>3. writableBytes(ensureWritableBytes(x, Len(s))) \in Int
  BY <1>2, Fields DEF writableBytes
<1>4. Len(s) <= writableBytes(ensureWritableBytes(x, Len(s)))
  BY <1>1, <1>2, <1>3
<1> QED
  BY <1>2, <1>4, WriteOK, Zenon DEF append

\* retrieve takes bytes from the front; emptied, the Buffer starts over behind
\* its first kCheapPrepend bytes.
LEMMA RetrieveOK ==
    ASSUME NEW x, WellFormed(x), NEW n \in Nat, n <= readableBytes(x)
    PROVE  /\ WellFormed(retrieve(x, n))
           /\ Contents(retrieve(x, n)) = SubSeq(Contents(x), n + 1, Len(Contents(x)))
<1> DEFINE y == retrieve(x, n)
           c == Contents(x)
           t == SubSeq(c, n + 1, Len(c))
<1>0. /\ x.data \in Seq(Byte) /\ Len(x.data) \in Nat
      /\ x.reader \in Nat /\ x.writer \in Nat
      /\ x.reader <= x.writer /\ x.writer <= Len(x.data)
      /\ kCheapPrepend <= Len(x.data) /\ kCheapPrepend \in Nat
  BY Fields
<1>2. /\ c \in Seq(Byte) /\ Len(c) = x.writer - x.reader
      /\ \A i \in 1 .. x.writer - x.reader : c[i] = x.data[x.reader + i]
  BY ContentsType DEF readableBytes
<1> HIDE DEF c
<1>3. \A i \in n + 1 .. Len(c) : c[i] \in Byte
  BY <1>2
<1>4. /\ t \in Seq(Byte)
      /\ Len(t) = IF n + 1 <= Len(c) THEN Len(c) - (n + 1) + 1 ELSE 0
      /\ \A i \in 1 .. Len(c) - (n + 1) + 1 : t[i] = c[n + 1 + i - 1]
  BY <1>2, <1>3
<1> HIDE DEF t
<1>5. n <= x.writer - x.reader
  BY DEF readableBytes
<1>6. CASE n < x.writer - x.reader
  <2>1. y = [data |-> x.data, reader |-> x.reader + n, writer |-> x.writer]
    BY <1>6 DEF retrieve, readableBytes
  <2>2. /\ y.data = x.data /\ y.reader = x.reader + n /\ y.writer = x.writer
        /\ y \in Record
    BY <2>1, <1>0 DEF Record
  <2> HIDE DEF y
  <2>3. WellFormed(y)
    BY <2>2, <1>0, <1>6 DEF WellFormed
  <2>4. readableBytes(y) = Len(t)
    <3>1. readableBytes(y) = x.writer - (x.reader + n)
      BY <2>2 DEF readableBytes
    <3>2. Len(t) = (x.writer - x.reader) - n
      BY <1>0, <1>2, <1>4, <1>6
    <3> QED BY <1>0, <3>1, <3>2
  <2>5. /\ Contents(y) \in Seq(Byte) /\ Len(Contents(y)) = Len(t)
        /\ \A i \in 1 .. Len(t) : Contents(y)[i] = x.data[x.reader + n + i]
    BY <2>2, <2>3, <2>4, ContentsType
  <2>6. \A i \in 1 .. Len(t) : Contents(y)[i] = t[i]
    <3> TAKE i \in 1 .. Len(t)
    <3>1. /\ i \in 1 .. Len(c) - (n + 1) + 1
          /\ n + 1 + i - 1 = n + i /\ n + i \in 1 .. x.writer - x.reader
          /\ x.reader + (n + i) = x.reader + n + i
      BY <1>0, <1>2, <1>4, <1>6
    <3> QED
      BY <3>1, <2>5, <1>2, <1>4, Zenon
  <2> QED
    BY <2>3, <2>5, <2>6, <1>4, SameBytes DEF y, t, c
<1>7. CASE ~(n < x.writer - x.reader)
  <2>1. y = [data |-> x.data, reader |-> kCheapPrepend, writer |-> kCheapPrepend]
    BY <1>7 DEF retrieve, retrieveAll, readableBytes
  <2>2. /\ y.data = x.data /\ y.reader = kCheapPrepend /\ y.writer = kCheapPrepend
        /\ y \in Record
    BY <2>1, <1>0 DEF Record
  <2> HIDE DEF y
  <2>3. WellFormed(y) /\ readableBytes(y) = 0
    BY <2>2, <1>0 DEF WellFormed, readableBytes
  <2>4. Contents(y) \in Seq(Byte) /\ Len(Contents(y)) = 0
    BY <2>3, ContentsType
  <2>5. Len(t) = 0
    BY <1>0, <1>2, <1>4, <1>5, <1>7
  <2> QED
    BY <2>3, <2>4, <2>5, <1>4, SameBytes DEF y, t, c
<1> QED
  BY <1>6, <1>7

\* unwrite withdraws bytes from the end.
LEMMA UnwriteOK ==
    ASSUME NEW x, WellFormed(x), NEW n \in Nat, n <= readableBytes(x)
    PROVE  /\ WellFormed(unwrite(x, n))
           /\ Contents(unwrite(x, n)) = SubSeq(Contents(x), 1, Len(Contents(x)) - n)
<1> DEFINE y == unwrite(x, n)
           c == Contents(x)
           t == SubSeq(c, 1, Len(c) - n)
<1>0. /\ x.data \in Seq(Byte) /\ Len(x.data) \in Nat
      /\ x.reader \in Nat /\ x.writer \in Nat
      /\ x.reader <= x.writer /\ x.writer <= Len(x.data)
      /\ kCheapPrepend <= Len(x.data) /\ kCheapPrepend \in Nat
      /\ n <= x.writer - x.reader
  BY Fields DEF readableBytes
<1>2. /\ c \in Seq(Byte) /\ Len(c) = x.writer - x.reader
      /\ \A i \in 1 .. x.writer - x.reader : c[i] = x.data[x.reader + i]
  BY ContentsType DEF readableBytes
<1> HIDE DEF c
<1>3. \A i \in 1 .. Len(c) - n : c[i] \in Byte
  BY <1>2
<1>4. /\ t \in Seq(Byte)
      /\ Len(t) = IF 1 <= Len(c) - n THEN (Len(c) - n) - 1 + 1 ELSE 0
      /\ \A i \in 1 .. (Len(c) - n) - 1 + 1 : t[i] = c[1 + i - 1]
  BY <1>2, <1>3
<1> HIDE DEF t
<1>5. Len(t) = x.writer - x.reader - n
  BY <1>0, <1>2, <1>4
<1>6. y = [data |-> x.data, reader |-> x.reader, writer |-> x.writer - n]
  BY DEF unwrite
<1>7. /\ y.data = x.data /\ y.reader = x.reader /\ y.writer = x.writer - n
      /\ y \in Record
  BY <1>0, <1>6 DEF Record
<1> HIDE DEF y
<1>8. WellFormed(y)
  BY <1>0, <1>7 DEF WellFormed
<1>9. /\ Contents(y) \in Seq(Byte) /\ Len(Contents(y)) = Len(t)
      /\ \A i \in 1 .. Len(t) : Contents(y)[i] = x.data[x.reader + i]
  <2>1. readableBytes(y) = Len(t)
    BY <1>0, <1>5, <1>7 DEF readableBytes
  <2> QED
    BY <2>1, <1>7, <1>8, ContentsType
<1>10. \A i \in 1 .. Len(t) : Contents(y)[i] = t[i]
  <2> TAKE i \in 1 .. Len(t)
  <2>1. /\ i \in 1 .. (Len(c) - n) - 1 + 1 /\ 1 + i - 1 = i
        /\ i \in 1 .. x.writer - x.reader
    BY <1>0, <1>2, <1>5
  <2> QED
    BY <2>1, <1>2, <1>4, <1>9, Zenon
<1> QED
  BY <1>4, <1>8, <1>9, <1>10, SameBytes DEF y, t, c

\* prepend puts bytes in front.
LEMMA PrependOK ==
    ASSUME NEW x, WellFormed(x), NEW s \in Seq(Byte), Len(s) <= prependableBytes(x)
    PROVE  /\ WellFormed(prepend(x, s))
           /\ Contents(prepend(x, s)) = s \o Contents(x)
<1> DEFINE y == prepend(x, s)
           c == Contents(x)
           n == x.writer - x.reader
           at == x.reader - Len(s)
           e == Copy(x.data, at, s)
<1>0. /\ x.data \in Seq(Byte) /\ Len(x.data) \in Nat
      /\ x.reader \in Nat /\ x.writer \in Nat
      /\ x.reader <= x.writer /\ x.writer <= Len(x.data)
      /\ kCheapPrepend <= Len(x.data) /\ kCheapPrepend \in Nat
  BY Fields
<1>1. Len(s) \in Nat /\ Len(s) <= x.reader /\ n \in Nat /\ at \in Nat
  BY <1>0 DEF prependableBytes
<1>12. at + Len(s) = x.reader /\ at + Len(s) + n = x.writer
  BY <1>0, <1>1
<1>13. Len(s) + n \in Nat
  BY <1>1
<1>2. /\ c \in Seq(Byte) /\ Len(c) = n
      /\ \A i \in 1 .. n : c[i] = x.data[x.reader + i]
  BY ContentsType DEF readableBytes
<1> HIDE DEF n, at
<1>3. /\ e \in Seq(Byte) /\ Len(e) = Len(x.data)
      /\ \A i \in 1 .. Len(x.data) :
            e[i] = IF i - at \in 1 .. Len(s) THEN s[i - at] ELSE x.data[i]
  BY <1>0, <1>1, CopyType
<1>4. y = [data |-> e, reader |-> at, writer |-> x.writer]
  BY DEF prepend, at
<1> HIDE DEF e, c
<1>5. /\ y.data = e /\ y.reader = at /\ y.writer = x.writer
      /\ y \in Record
  BY <1>0, <1>1, <1>3, <1>4 DEF Record
<1> HIDE DEF y
<1>6. WellFormed(y)
  BY <1>0, <1>1, <1>12, <1>3, <1>5 DEF WellFormed
<1>7. readableBytes(y) = Len(s) + n
  BY <1>0, <1>1, <1>12, <1>5 DEF readableBytes
<1>8. /\ Contents(y) \in Seq(Byte) /\ Len(Contents(y)) = Len(s) + n
      /\ \A i \in 1 .. Len(s) + n : Contents(y)[i] = e[at + i]
  BY <1>5, <1>6, <1>7, ContentsType
<1>9. /\ s \o c \in Seq(Byte) /\ Len(s \o c) = Len(s) + n
      /\ \A i \in 1 .. Len(s) + n :
            (s \o c)[i] = IF i <= Len(s) THEN s[i] ELSE c[i - Len(s)]
  <2>1. /\ s \o c \in Seq(Byte) /\ Len(s \o c) = Len(s) + Len(c)
        /\ \A i \in 1 .. Len(s) + Len(c) :
              (s \o c)[i] = IF i <= Len(s) THEN s[i] ELSE c[i - Len(s)]
    BY <1>2
  <2> QED
    BY <2>1, <1>2
<1>10. \A i \in 1 .. Len(s) + n : e[at + i] = (s \o c)[i]
  <2> TAKE i \in 1 .. Len(s) + n
  <2>0. i \in Int /\ 1 <= i /\ i <= Len(s) + n
    BY <1>13
  <2>1. at + i \in 1 .. Len(x.data) /\ (at + i) - at = i
    BY <2>0, <1>0, <1>1, <1>12
  <2>2. CASE i <= Len(s)
    <3>1. i \in 1 .. Len(s)
      BY <2>0, <2>2, <1>1
    <3> QED
      BY <3>1, <2>1, <2>2, <1>3, <1>9
  <2>3. CASE ~(i <= Len(s))
    <3>1. /\ i - Len(s) \in 1 .. n /\ i \notin 1 .. Len(s)
          /\ x.reader + (i - Len(s)) = at + i
      BY <2>0, <2>3, <1>0, <1>1, <1>12
    <3> QED
      BY <3>1, <2>1, <2>3, <1>2, <1>3, <1>9
  <2> QED
    BY <2>2, <2>3, Zenon
<1>11. Contents(y) = s \o c
  BY <1>8, <1>9, <1>10, SameBytes, Zenon
<1> QED
  BY <1>6, <1>11 DEF y, c

\* shrink keeps the readable bytes.
LEMMA ShrinkOK ==
    ASSUME NEW x, WellFormed(x), NEW n \in Nat
    PROVE  /\ WellFormed(shrink(x, n))
           /\ Contents(shrink(x, n)) = Contents(x)
           /\ SpaceAsserts(New(kInitialSize), readableBytes(x) + n)
<1> DEFINE room == readableBytes(x) + n
           other == ensureWritableBytes(New(kInitialSize), room)
<1>1. readableBytes(x) \in Nat /\ Contents(x) \in Seq(Byte) /\ room \in Nat
  BY ContentsType
<1>2. WellFormed(New(kInitialSize)) /\ Contents(New(kInitialSize)) = <<>>
  BY NewOK, BufferAssumption
<1>3. /\ WellFormed(other) /\ Contents(other) = <<>>
      /\ SpaceAsserts(New(kInitialSize), room)
  BY <1>1, <1>2, EnsureOK
<1>4. /\ WellFormed(append(other, Contents(x)))
      /\ Contents(append(other, Contents(x))) = <<>> \o Contents(x)
  BY <1>1, <1>3, AppendOK, Zenon
<1>5. <<>> \o Contents(x) = Contents(x)
  BY <1>1
<1> QED
  BY <1>3, <1>4, <1>5 DEF shrink

\* readFd: the bytes read into the vector and the ones read into extrabuf are
\* appended in their order.
LEMMA ReadFdOK ==
    ASSUME NEW x, WellFormed(x), NEW s \in Seq(Byte)
    PROVE  /\ WellFormed(readFd(x, s))
           /\ Contents(readFd(x, s)) = Contents(x) \o s
           /\ Len(s) > writableBytes(x) =>
                 SpaceAsserts(Write(x, SubSeq(s, 1, writableBytes(x))),
                              Len(s) - writableBytes(x))
<1> DEFINE n == writableBytes(x)
           s1 == SubSeq(s, 1, n)
           s2 == SubSeq(s, n + 1, Len(s))
           full == Write(x, s1)
<1>1. n \in Nat /\ Len(s) \in Nat
  BY Fields DEF writableBytes
<1> HIDE DEF n
<1>2. CASE Len(s) <= n
  <2>1. ~(Len(s) > writableBytes(x)) /\ Len(s) <= writableBytes(x)
    BY <1>1, <1>2 DEF n
  <2> QED
    BY <2>1, WriteOK DEF readFd
<1>3. CASE ~(Len(s) <= n)
  <2>1. \A i \in 1 .. Len(s) : s[i] \in Byte
    OBVIOUS
  <2>2. \A i \in 1 .. n : s[i] \in Byte
    BY <2>1, <1>1, <1>3
  <2>3. \A i \in n + 1 .. Len(s) : s[i] \in Byte
    BY <2>1, <1>1
  <2>4. s1 \in Seq(Byte) /\ Len(s1) = IF 1 <= n THEN n - 1 + 1 ELSE 0
    BY <2>2, <1>1
  <2>5. s2 \in Seq(Byte)
        /\ Len(s2) = IF n + 1 <= Len(s) THEN Len(s) - (n + 1) + 1 ELSE 0
    BY <2>3, <1>1
  <2>6. Len(s1) = n /\ Len(s2) = Len(s) - n
    BY <2>4, <2>5, <1>1, <1>3
  <2>7. s1 \o s2 = s
    <3>1. \A i \in 1 .. n : s1[i] = s[i]
      BY <1>1, <1>3
    <3>2. \A i \in 1 .. Len(s) - n : s2[i] = s[n + i]
      BY <1>1, <1>3
    <3> HIDE DEF s1, s2
    <3>3. s1 \o s2 \in Seq(Byte) /\ Len(s1 \o s2) = Len(s)
      <4>1. s1 \in Seq(Byte) /\ s2 \in Seq(Byte)
        BY <2>4, <2>5, Zenon
      <4> QED
        BY <2>6, <4>1, <1>1, <1>3
    <3>4. ASSUME NEW i \in 1 .. Len(s)
          PROVE  (s1 \o s2)[i] = s[i]
      <4>1. (s1 \o s2)[i] = IF i <= n THEN s1[i] ELSE s2[i - n]
        BY <1>1, <2>4, <2>5, <2>6
      <4>2. i \in 1 .. n \/ (i > n /\ i - n \in 1 .. Len(s) - n /\ n + (i - n) = i)
        BY <1>1
      <4> QED BY <1>1, <3>1, <3>2, <4>1, <4>2
    <3> QED
      BY <3>3, <3>4, SameBytes, Zenon
  <2> HIDE DEF s1, s2
  <2>8. Len(s1) <= writableBytes(x)
    BY <2>6, <1>1 DEF n
  <2>9. WellFormed(full) /\ Contents(full) = Contents(x) \o s1
    BY <2>4, <2>8, WriteOK
  <2> HIDE DEF full
  <2>10. /\ WellFormed(append(full, s2))
         /\ Contents(append(full, s2)) = (Contents(x) \o s1) \o s2
         /\ SpaceAsserts(full, Len(s2))
    BY <2>5, <2>9, AppendOK, Zenon
  <2>11. Contents(x) \in Seq(Byte)
    BY ContentsType
  <2>12. (Contents(x) \o s1) \o s2 = Contents(x) \o s
    <3>1. (Contents(x) \o s1) \o s2 = Contents(x) \o (s1 \o s2)
      BY <2>4, <2>5, <2>11, JoinAssociative, Zenon
    <3> QED
      BY <3>1, <2>7, Zenon
  <2>13. readFd(x, s) = append(full, s2)
    BY <1>3 DEF readFd, full, s1, s2, n
  <2> QED
    BY <2>6, <2>10, <2>12, <2>13, Zenon DEF full, s1, n
<1> QED
  BY <1>2, <1>3

----------------------------------------------------------------------------
(* The theorems.                                                           *)

IInv == WellFormed(b) /\ aborted = FALSE

\* What each call does: it keeps the invariant and has its effect on the readable
\* bytes.
LEMMA CallEffect ==
    ASSUME IInv
    PROVE  /\ \A s \in Chunks : AppendBytes(s) \/ HasWritten(s) \/ ReadFd(s) => IInv' /\ Q!Put(s)
           /\ \A s \in Chunks : Prepend(s) => IInv' /\ Q!Push(s)
           /\ \A n \in 0 .. MaxChunk :
                 EnsureWritable(n) \/ Shrink(n) => IInv' /\ Contents(b)' = Contents(b)
           /\ \A n \in 0 .. readableBytes(b) : Retrieve(n) => IInv' /\ Q!Take(n)
           /\ \A n \in 0 .. readableBytes(b) : Unwrite(n) => IInv' /\ Q!Withdraw(n)
           /\ RetrieveAll => IInv' /\ \E n \in 0 .. Len(Contents(b)) : Q!Take(n)
<1> USE DEF IInv
<1>0. Contents(b) \in Seq(Byte) /\ Len(Contents(b)) = readableBytes(b)
  BY ContentsType
<1>1. ASSUME NEW s \in Chunks, AppendBytes(s)
      PROVE  WellFormed(b)' /\ aborted' = FALSE /\ Contents(b)' = Contents(b) \o s
  <2>1. s \in Seq(Byte)
    BY ChunkType
  <2>2. /\ WellFormed(append(b, s)) /\ Contents(append(b, s)) = Contents(b) \o s
        /\ SpaceAsserts(b, Len(s))
    BY <2>1, AppendOK
  <2> QED
    BY <1>1, <2>2, Zenon DEF AppendBytes, Returns
<1>2. ASSUME NEW s \in Chunks, HasWritten(s)
      PROVE  WellFormed(b)' /\ aborted' = FALSE /\ Contents(b)' = Contents(b) \o s
  <2>1. s \in Seq(Byte) /\ Len(s) <= writableBytes(b)
    BY <1>2, ChunkType DEF HasWritten
  <2>2. WellFormed(Write(b, s)) /\ Contents(Write(b, s)) = Contents(b) \o s
    BY <2>1, WriteOK
  <2> QED
    BY <1>2, <2>2, Zenon DEF HasWritten, Returns
<1>3. ASSUME NEW s \in Chunks, Prepend(s)
      PROVE  WellFormed(b)' /\ aborted' = FALSE /\ Contents(b)' = s \o Contents(b)
  <2>1. s \in Seq(Byte) /\ Len(s) <= prependableBytes(b)
    BY <1>3, ChunkType DEF Prepend
  <2>2. WellFormed(prepend(b, s)) /\ Contents(prepend(b, s)) = s \o Contents(b)
    BY <2>1, PrependOK
  <2> QED
    BY <1>3, <2>2, Zenon DEF Prepend, Returns
<1>4. ASSUME NEW s \in Chunks, ReadFd(s)
      PROVE  WellFormed(b)' /\ aborted' = FALSE /\ Contents(b)' = Contents(b) \o s
  <2>1. s \in Seq(Byte)
    BY ChunkType
  <2>2. /\ WellFormed(readFd(b, s)) /\ Contents(readFd(b, s)) = Contents(b) \o s
        /\ Len(s) > writableBytes(b) =>
              SpaceAsserts(Write(b, SubSeq(s, 1, writableBytes(b))),
                           Len(s) - writableBytes(b))
    BY <2>1, ReadFdOK
  <2> QED
    BY <1>4, <2>2, Zenon DEF ReadFd, Returns
<1>5. ASSUME NEW n \in 0 .. MaxChunk, EnsureWritable(n)
      PROVE  WellFormed(b)' /\ aborted' = FALSE /\ Contents(b)' = Contents(b)
  <2>1. n \in Nat
    BY BufferAssumption
  <2>2. /\ WellFormed(ensureWritableBytes(b, n))
        /\ Contents(ensureWritableBytes(b, n)) = Contents(b)
        /\ SpaceAsserts(b, n)
    BY <2>1, EnsureOK
  <2> QED
    BY <1>5, <2>2, Zenon DEF EnsureWritable, Returns
<1>6. ASSUME NEW n \in 0 .. MaxChunk, Shrink(n)
      PROVE  WellFormed(b)' /\ aborted' = FALSE /\ Contents(b)' = Contents(b)
  <2>1. n \in Nat
    BY BufferAssumption
  <2>2. /\ WellFormed(shrink(b, n)) /\ Contents(shrink(b, n)) = Contents(b)
        /\ SpaceAsserts(New(kInitialSize), readableBytes(b) + n)
    BY <2>1, ShrinkOK
  <2> QED
    BY <1>6, <2>2, Zenon DEF Shrink, Returns
<1>7. ASSUME NEW n \in 0 .. readableBytes(b), Retrieve(n)
      PROVE  /\ WellFormed(b)' /\ aborted' = FALSE
             /\ Contents(b)' = SubSeq(Contents(b), n + 1, Len(Contents(b)))
  <2>1. n \in Nat /\ n <= readableBytes(b)
    BY <1>7, ContentsType DEF Retrieve
  <2>2. /\ WellFormed(retrieve(b, n))
        /\ Contents(retrieve(b, n)) = SubSeq(Contents(b), n + 1, Len(Contents(b)))
    BY <2>1, RetrieveOK
  <2> QED
    BY <1>7, <2>2, Zenon DEF Retrieve, Returns
<1>8. ASSUME NEW n \in 0 .. readableBytes(b), Unwrite(n)
      PROVE  /\ WellFormed(b)' /\ aborted' = FALSE
             /\ Contents(b)' = SubSeq(Contents(b), 1, Len(Contents(b)) - n)
  <2>1. n \in Nat /\ n <= readableBytes(b)
    BY <1>8, ContentsType DEF Unwrite
  <2>2. /\ WellFormed(unwrite(b, n))
        /\ Contents(unwrite(b, n)) = SubSeq(Contents(b), 1, Len(Contents(b)) - n)
    BY <2>1, UnwriteOK
  <2> QED
    BY <1>8, <2>2, Zenon DEF Unwrite, Returns
<1>9. ASSUME RetrieveAll
      PROVE  /\ WellFormed(b)' /\ aborted' = FALSE
             /\ \E n \in 0 .. Len(Contents(b)) :
                   Contents(b)' = SubSeq(Contents(b), n + 1, Len(Contents(b)))
  <2> DEFINE n == readableBytes(b)
  <2>1. n \in Nat /\ n <= readableBytes(b) /\ ~(n < readableBytes(b))
    BY ContentsType
  <2>2. retrieve(b, n) = retrieveAll(b)
    BY <2>1 DEF retrieve
  <2>3. /\ WellFormed(retrieve(b, n))
        /\ Contents(retrieve(b, n)) = SubSeq(Contents(b), n + 1, Len(Contents(b)))
    BY <2>1, RetrieveOK
  <2>4. n \in 0 .. Len(Contents(b))
    BY <2>1, <1>0
  <2> QED
    BY <1>9, <2>2, <2>3, <2>4, Zenon DEF RetrieveAll, Returns
<1> QED
  BY <1>1, <1>2, <1>3, <1>4, <1>5, <1>6, <1>7, <1>8, <1>9, Zenon
     DEF Q!Put, Q!Push, Q!Take, Q!Withdraw

\* What a step of the specification does: it keeps the invariant, and its
\* effect on the readable bytes is a step of the queue.
LEMMA CallStep ==
    ASSUME IInv, Next
    PROVE  IInv' /\ (Q!Next \/ Contents(b)' = Contents(b))
<1>1. Len(Contents(b)) = readableBytes(b)
  BY ContentsType DEF IInv
<1> QED
  BY <1>1, CallEffect DEF Next, Call, Q!Next

\* The Buffer is well formed at every moment, and no assertion has failed.
LEMMA Invariant == Spec => []IInv
<1>1. Init => IInv
  BY NewOK, BufferAssumption DEF Init, IInv
<1>2. IInv /\ [Next]_vars => IInv'
  <2> SUFFICES ASSUME IInv, [Next]_vars PROVE IInv'
    OBVIOUS
  <2>1. CASE Next
    BY <2>1, CallStep
  <2>2. CASE UNCHANGED vars
    BY <2>2 DEF IInv, vars
  <2> QED
    BY <2>1, <2>2
<1> QED
  BY <1>1, <1>2, PTL DEF Spec

\* The indices of a Buffer stay in the order that its comment draws, for every
\* size and every sequence of calls.
THEOREM BufferTypeOK == Spec => []TypeOK
<1>1. IInv => TypeOK
  BY Zenon DEF IInv, TypeOK, WellFormed, Record
<1> QED
  BY <1>1, Invariant, PTL

\* The assertions of makeSpace and ensureWritableBytes never fail.
THEOREM BufferNoAbort == Spec => []NoAbort
<1>1. IInv => NoAbort
  BY DEF IInv, NoAbort
<1> QED
  BY <1>1, Invariant, PTL

\* A Buffer implements a queue of bytes.
THEOREM BufferIsQueue == Spec => ImplementsQueue
<1>1. Init => Q!Init
  BY NewOK, BufferAssumption DEF Init, Q!Init
<1>2. IInv /\ [Next]_vars => [Q!Next]_(Contents(b))
  <2> SUFFICES ASSUME IInv, [Next]_vars PROVE [Q!Next]_(Contents(b))
    OBVIOUS
  <2>1. CASE Next
    BY <2>1, CallStep
  <2>2. CASE UNCHANGED vars
    BY <2>2 DEF vars
  <2> QED
    BY <2>1, <2>2
<1> QED
  BY <1>1, <1>2, Invariant, PTL DEF Spec, ImplementsQueue, Q!Spec

\* Every call has on the queue of bytes the effect that its caller means.
THEOREM BufferEachCall == Spec => EachCall
<1>1. IInv /\ [Next]_vars => [CallMeans]_vars
  BY CallEffect DEF CallMeans
<1> QED
  BY <1>1, Invariant, PTL DEF Spec, EachCall

----------------------------------------------------------------------------
(* EventLoopThreadPool, for any number of threads and functors: functors   *)
(* run in order, no loop sleeps on a queued functor but the first ones,    *)
(* and startLoop returns a loop that is ready.                             *)

\* Types the proofs use.
Types ==
    /\ cur \in Loops /\ next \in Loops
    /\ loopPtr \in [Loops -> BOOLEAN]
    /\ loopAt \in [Loops -> {"none", "create", "publish", "enter", "while", "poll",
                         "handleRead", "events", "swap", "run", "clear", "unlock", "gone"}]
    /\ calling \in [Loops -> BOOLEAN] /\ wakeupFd \in [Loops -> BOOLEAN]
    /\ issued \in Nat
    /\ pending \in [Loops -> Seq(Nat)] /\ functors \in [Loops -> Seq(Nat)]
    /\ queued \in [Loops -> Seq(Nat)] /\ ran \in [Loops -> Seq(Nat)]
    /\ initial \in [Loops -> Seq(Nat)]

\* functors and callingPendingFunctors_ are in use only inside doPendingFunctors.
Calling ==
    \A l \in Loops :
        /\ loopAt[l] = "run" => calling[l] = TRUE
        /\ loopAt[l] # "run" => functors[l] = <<>>

\* Outside of the stretch from a return of poll to the swap, pending functors come
\* with a readable eventfd or with a thread that is about to write to it, or are
\* those of the init callback.
Awake(l) ==
    pending[l] # <<>> /\ loopAt[l] \notin {"handleRead", "events", "swap"} =>
        \/ wakeupFd[l] = TRUE \/ (cur = l /\ base \in {"wakeup", "queued"})
        \/ pending[l] = initial[l]

\* The threads that start() has not come to do not exist.
Starts ==
    /\ \A l \in Loops : loopPtr[l] = TRUE => loopAt[l] \notin {"none", "create"}
    /\ \A l \in Loops :
          (base = "start" /\ l >= cur) \/ (base = "wait" /\ l > cur) =>
              loopAt[l] = "none" /\ loopPtr[l] = FALSE

\* The inductive invariant.
LoopInv ==
    /\ Types /\ FunctorsInOrder /\ Calling /\ ReadyWhenReturned /\ Starts
    /\ \A l \in Loops : Awake(l)

----------------------------------------------------------------------------
\* Appending to the last of three sequences appends to their concatenation.
LEMMA AppendToThird ==
    ASSUME NEW r \in Seq(Nat), NEW f \in Seq(Nat), NEW p \in Seq(Nat), NEW x \in Nat
    PROVE  r \o f \o Append(p, x) = Append(r \o f \o p, x)
  OBVIOUS

\* Moving the first element of the second sequence to the end of the first one
\* leaves the concatenation as it is.
LEMMA MoveHead ==
    ASSUME NEW r \in Seq(Nat), NEW f \in Seq(Nat), NEW p \in Seq(Nat), f # <<>>
    PROVE  Append(r, Head(f)) \o Tail(f) \o p = r \o f \o p
  <1> DEFINE a == Append(r, Head(f)) \o Tail(f)
             c == r \o f
  <1>1. /\ Len(f) \in Nat \ {0} /\ Len(r) \in Nat /\ Head(f) = f[1] /\ Head(f) \in Nat
        /\ Tail(f) \in Seq(Nat) /\ Len(Tail(f)) = Len(f) - 1
        /\ \A i \in 1 .. Len(f) - 1 : Tail(f)[i] = f[i + 1]
    OBVIOUS
  <1>2. a \in Seq(Nat) /\ c \in Seq(Nat) /\ Len(a) = Len(c) /\ Len(c) = Len(r) + Len(f)
    BY <1>1
  <1>3. ASSUME NEW i \in 1 .. Len(c) PROVE a[i] = c[i]
    <2>1. CASE i <= Len(r)
      BY <1>1, <1>2, <2>1
    <2>2. CASE i = Len(r) + 1
      BY <1>1, <1>2, <2>2
    <2>3. CASE i > Len(r) + 1
      <3>1. a[i] = Tail(f)[i - (Len(r) + 1)]
        BY <1>1, <1>2, <2>3
      <3>2. c[i] = f[i - Len(r)] /\ i - (Len(r) + 1) \in 1 .. Len(f) - 1
        BY <1>1, <1>2, <2>3
      <3>3. Tail(f)[i - (Len(r) + 1)] = f[(i - (Len(r) + 1)) + 1]
        BY <1>1, <3>2, Zenon
      <3>4. (i - (Len(r) + 1)) + 1 = i - Len(r)
        BY <1>1, <1>2
      <3> QED
        BY <3>1, <3>2, <3>3, <3>4, Zenon
    <2>4. \A m \in Nat, j \in Int : j <= m \/ j = m + 1 \/ j > m + 1
      OBVIOUS
    <2>5. i \in Int /\ Len(r) \in Nat
      BY <1>1, <1>2
    <2> HIDE DEF a, c
    <2> QED
      BY <2>1, <2>2, <2>3, <2>4, <2>5, Zenon
  <1>4. a = c
    <2> HIDE DEF a, c
    <2> QED
      BY <1>2, <1>3, SMTT(30)
  <1> QED
    BY <1>4, Zenon

\* Swapping the second sequence, empty, with the third.
LEMMA SwapEmpty ==
    ASSUME NEW r \in Seq(Nat), NEW p \in Seq(Nat)
    PROVE  r \o p \o <<>> = r \o <<>> \o p
  OBVIOUS

----------------------------------------------------------------------------
(* Preservation.                                                           *)

\* The loops that the base thread goes on to.
LEMMA OtherLoop ==
    1 \in Loops /\ \A l \in Loops : (IF l = NumThreads THEN 1 ELSE l + 1) \in Loops
  BY LoopsAssumption DEF Loops

\* Queueing a functor keeps the order.
LEMMA PushOK ==
    ASSUME LoopInv, NEW l \in Loops, NEW f \in Nat, PushFunctor(l, f),
           UNCHANGED <<ran, functors>>
    PROVE  /\ FunctorsInOrder'
           /\ pending' \in [Loops -> Seq(Nat)] /\ queued' \in [Loops -> Seq(Nat)]
           /\ \A k \in Loops : k # l => pending'[k] = pending[k]
  <1>1. /\ pending \in [Loops -> Seq(Nat)] /\ queued \in [Loops -> Seq(Nat)]
        /\ ran \in [Loops -> Seq(Nat)] /\ functors \in [Loops -> Seq(Nat)]
    BY DEF LoopInv, Types
  <1>2. /\ pending' = [pending EXCEPT ![l] = Append(pending[l], f)]
        /\ queued' = [queued EXCEPT ![l] = Append(queued[l], f)]
    BY DEF PushFunctor
  <1>3. Append(pending[l], f) \in Seq(Nat) /\ Append(queued[l], f) \in Seq(Nat)
    BY <1>1
  <1>4. ASSUME NEW k \in Loops
        PROVE  ran[k] \o functors[k] \o pending'[k] = queued'[k]
    <2>1. ran[k] \o functors[k] \o pending[k] = queued[k]
      BY Zenon DEF LoopInv, FunctorsInOrder
    <2>2. CASE k = l
      <3>1. ran[l] \o functors[l] \o Append(pending[l], f)
              = Append(ran[l] \o functors[l] \o pending[l], f)
        <4>1. ran[l] \in Seq(Nat) /\ functors[l] \in Seq(Nat) /\ pending[l] \in Seq(Nat)
          BY <1>1
        <4> QED
          BY <4>1, AppendToThird, Zenon
      <3>2. pending'[l] = Append(pending[l], f) /\ queued'[l] = Append(queued[l], f)
        BY <1>1, <1>2
      <3>3. ran[l] \o functors[l] \o pending[l] = queued[l]
        BY <2>1, <2>2, Zenon
      <3>4. ran[l] \o functors[l] \o pending'[l] = queued'[l]
        BY <3>1, <3>2, <3>3, Zenon
      <3> QED
        BY <2>2, <3>4
    <2>3. CASE k # l
      BY <1>1, <1>2, <2>1, <2>3, Zenon
    <2> QED
      BY <2>2, <2>3, Zenon
  <1> QED
    BY <1>1, <1>2, <1>3, <1>4, Zenon DEF FunctorsInOrder

\* The base thread's steps that queue a functor.
LEMMA QueueOK ==
    LoopInv /\ (QueueInLoop \/ QueueQuit) => LoopInv'
  <1> SUFFICES ASSUME LoopInv, QueueInLoop \/ QueueQuit PROVE LoopInv'
    OBVIOUS
  <1>1. PICK l \in Loops, f \in Nat :
            /\ PushFunctor(l, f) /\ cur' = l
            /\ base \in {"up", "queue"} /\ base' \in {"wakeup", "queued"}
            /\ next' \in Loops /\ issued' \in Nat
            /\ UNCHANGED <<ran, functors, loopPtr, loopAt, calling, wakeupFd, initial>>
    <2>1. CASE QueueInLoop
      <3>1. /\ PushFunctor(next, issued + 1) /\ issued + 1 \in Nat /\ next \in Loops
            /\ next' \in Loops
        BY <2>1, LoopsAssumption DEF QueueInLoop, LoopInv, Types, Loops
      <3>2. /\ cur' = next /\ base = "up" /\ base' = "wakeup" /\ issued' = issued + 1
            /\ UNCHANGED <<ran, functors, loopPtr, loopAt, calling, wakeupFd, initial>>
        BY <2>1 DEF QueueInLoop, threadVars
      <3> QED
        BY <3>1, <3>2
    <2>2. CASE QueueQuit
      <3>1. /\ PushFunctor(cur, Quit) /\ Quit \in Nat /\ cur \in Loops /\ issued \in Nat
            /\ next \in Loops
        BY <2>2 DEF QueueQuit, Quit, LoopInv, Types
      <3>2. /\ cur' = cur /\ next' = next /\ base = "queue" /\ base' = "queued"
            /\ issued' = issued
            /\ UNCHANGED <<ran, functors, loopPtr, loopAt, calling, wakeupFd, initial>>
        BY <2>2 DEF QueueQuit, threadVars
      <3> QED
        BY <3>1, <3>2
    <2> QED
      BY <2>1, <2>2
  <1>2. /\ FunctorsInOrder'
        /\ pending' \in [Loops -> Seq(Nat)] /\ queued' \in [Loops -> Seq(Nat)]
        /\ \A k \in Loops : k # l => pending'[k] = pending[k]
    BY <1>1, PushOK
  <1>3. Types'
    BY <1>1, <1>2, Zenon DEF LoopInv, Types
  <1>4. \A k \in Loops : Awake(k)'
    BY <1>1, <1>2, Zenon DEF LoopInv, Awake
  <1>5. Calling' /\ ReadyWhenReturned' /\ Starts'
    BY <1>1 DEF LoopInv, Calling, ReadyWhenReturned, Starts
  <1> QED
    BY <1>2, <1>3, <1>4, <1>5 DEF LoopInv

\* The base thread's writes to the eventfd.
LEMMA WakeupOK ==
    LoopInv /\ (Wakeup \/ WakeupQuit \/ WakeupForQuit) => LoopInv'
  <1> SUFFICES ASSUME LoopInv, Wakeup \/ WakeupQuit \/ WakeupForQuit PROVE LoopInv'
    OBVIOUS
  <1>1. /\ wakeupFd' = [wakeupFd EXCEPT ![cur] = TRUE]
        /\ base \in {"wakeup", "queued", "wake"}
        /\ base' \in {"up", "queue", "delete", "join"}
        /\ UNCHANGED <<next, loopPtr, loopAt, pending, functors, calling, issued, queued, ran,
                       initial>>
    BY DEF Wakeup, WakeupQuit, WakeupForQuit, threadVars
  <1>2. cur' \in Loops
    BY OtherLoop DEF Wakeup, WakeupQuit, WakeupForQuit, LoopInv, Types
  <1>3. Types' /\ FunctorsInOrder' /\ Calling'
    BY <1>1, <1>2, Zenon DEF LoopInv, Types, FunctorsInOrder, Calling
  <1>4. \A k \in Loops : Awake(k)'
    BY <1>1 DEF LoopInv, Types, Awake
  <1>5. ReadyWhenReturned' /\ Starts'
    BY <1>1 DEF LoopInv, ReadyWhenReturned, Starts
  <1> QED
    BY <1>3, <1>4, <1>5 DEF LoopInv

\* The base thread's other steps in stop().
LEMMA StopOK ==
    LoopInv /\ (StopLoops \/ DeleteThread \/ CallQuit \/ JoinLoop) => LoopInv'
  <1> SUFFICES ASSUME LoopInv, StopLoops \/ DeleteThread \/ CallQuit \/ JoinLoop PROVE LoopInv'
    OBVIOUS
  <1>1. /\ base \in {"up", "delete", "quit", "join"}
        /\ base' \in {"queue", "quit", "wake", "stopped", "delete"}
        /\ UNCHANGED <<next, loopPtr, loopAt, pending, functors, calling, wakeupFd, issued,
                       queued, ran, initial>>
    BY DEF StopLoops, DeleteThread, CallQuit, JoinLoop, Deleted, threadVars, loopVars
  <1>2. cur' \in Loops
    BY OtherLoop DEF StopLoops, DeleteThread, CallQuit, JoinLoop, Deleted, LoopInv, Types
  <1> QED
    BY <1>1, <1>2, Zenon DEF LoopInv, Types, FunctorsInOrder, Calling, Awake, ReadyWhenReturned,
                      Starts

\* start().
LEMMA StartOK ==
    LoopInv /\ (StartThread \/ StartLoop) => LoopInv'
  <1> SUFFICES ASSUME LoopInv, StartThread \/ StartLoop PROVE LoopInv'
    OBVIOUS
  <1>0. /\ cur \in Loops /\ Loops \subseteq Int /\ NumThreads \in Nat
        /\ loopPtr \in [Loops -> BOOLEAN] /\ DOMAIN loopAt = Loops
    BY LoopsAssumption DEF LoopInv, Types, Loops
  <1>1. CASE StartThread
    <2>1. /\ base = "start" /\ base' = "wait" /\ loopAt' = [loopAt EXCEPT ![cur] = "create"]
          /\ UNCHANGED <<cur, next, loopPtr, pending, functors, calling, wakeupFd, issued,
                         queued, ran, initial>>
      BY <1>1 DEF StartThread, threadVars, loopVars
    <2>2. loopAt[cur] = "none" /\ loopPtr[cur] = FALSE
      BY <1>0, <2>1 DEF LoopInv, Starts
    <2>3. Types' /\ FunctorsInOrder' /\ Calling'
      BY <2>1, <2>2, Zenon DEF LoopInv, Types, FunctorsInOrder, Calling
    <2>4. \A k \in Loops : Awake(k)'
      BY <2>1, <2>2 DEF LoopInv, Types, Awake
    <2>5. ReadyWhenReturned'
      BY <1>0, <2>1 DEF LoopInv, Types, ReadyWhenReturned
    <2>6. Starts'
      <3>1. /\ loopAt'[cur] = "create"
            /\ \A l \in Loops : l # cur => loopAt'[l] = loopAt[l]
        BY <1>0, <2>1
      <3>2. /\ \A l \in Loops : loopPtr[l] = TRUE => loopAt[l] \notin {"none", "create"}
            /\ \A l \in Loops : l >= cur => loopAt[l] = "none" /\ loopPtr[l] = FALSE
        BY <2>1 DEF LoopInv, Starts
      <3>3. ASSUME NEW l \in Loops, loopPtr[l] = TRUE
            PROVE  loopAt'[l] \notin {"none", "create"}
        BY <2>2, <3>1, <3>2, <3>3, Zenon
      <3>4. ASSUME NEW l \in Loops, l > cur
            PROVE  loopAt'[l] = "none" /\ loopPtr[l] = FALSE
        <4>1. l # cur /\ l >= cur
          BY <1>0, <3>4
        <4> QED
          BY <3>1, <3>2, <4>1, Zenon
      <3>5. base' # "start" /\ loopPtr' = loopPtr /\ cur' = cur
        BY <2>1
      <3> QED
        BY <3>3, <3>4, <3>5, Zenon DEF Starts
    <2> QED
      BY <2>3, <2>4, <2>5, <2>6 DEF LoopInv
  <1>2. CASE StartLoop
    <2>1. /\ base = "wait" /\ loopPtr[cur] = TRUE
          /\ base' = IF cur = NumThreads THEN "up" ELSE "start"
          /\ cur' = IF cur = NumThreads THEN 1 ELSE cur + 1
          /\ UNCHANGED <<next, loopPtr, loopAt, pending, functors, calling, wakeupFd, issued,
                         queued, ran, initial>>
      BY <1>0, <1>2 DEF StartLoop, threadVars, loopVars
    <2>2. cur' \in Loops
      BY <1>0, <2>1, LoopsAssumption DEF Loops
    <2>3. Types' /\ FunctorsInOrder' /\ Calling'
      BY <2>1, <2>2, Zenon DEF LoopInv, Types, FunctorsInOrder, Calling
    <2>4. \A k \in Loops : Awake(k)'
      BY <2>1, Zenon DEF LoopInv, Awake
    <2>5. loopAt[cur] \notin {"none", "create"}
      BY <1>0, <2>1 DEF LoopInv, Starts
    <2>6. ReadyWhenReturned'
      <3> SUFFICES ASSUME NEW l \in Loops, base' \notin {"start", "wait"} \/ l < cur'
                   PROVE  loopAt[l] \notin {"none", "create"}
        BY <2>1 DEF ReadyWhenReturned
      <3>1. l < cur \/ l = cur
        BY <1>0, <2>1 DEF Loops
      <3> QED
        BY <2>5, <3>1 DEF LoopInv, ReadyWhenReturned
    <2>7. Starts'
      BY <1>0, <2>1 DEF LoopInv, Starts
    <2> QED
      BY <2>3, <2>4, <2>6, <2>7 DEF LoopInv
  <1> QED
    BY <1>1, <1>2

\* A step of a loop's thread from one point of the loop to another.
LEMMA MoveOK ==
    ASSUME LoopInv, NEW l \in Loops,
           NEW there \in {"publish", "enter", "while", "poll", "handleRead", "events",
                          "swap", "run", "clear", "unlock", "gone"},
           loopAt[l] # "none", loopAt' = [loopAt EXCEPT ![l] = there],
           \A k \in Loops : k # l => loopPtr'[k] = loopPtr[k],
           UNCHANGED poolVars
    PROVE  /\ loopAt'[l] = there /\ \A k \in Loops : k # l => loopAt'[k] = loopAt[k]
           /\ loopAt' \in [Loops -> {"none", "create", "publish", "enter", "while", "poll",
                                 "handleRead", "events", "swap", "run", "clear",
                                 "unlock", "gone"}]
           /\ ReadyWhenReturned' /\ Starts'
  <1>1. /\ loopAt'[l] = there /\ \A k \in Loops : k # l => loopAt'[k] = loopAt[k]
        /\ loopAt' \in [Loops -> {"none", "create", "publish", "enter", "while", "poll",
                              "handleRead", "events", "swap", "run", "clear",
                              "unlock", "gone"}]
        /\ there \notin {"none", "create"} /\ base' = base /\ cur' = cur
    BY DEF LoopInv, Types, poolVars
  <1>2. ReadyWhenReturned'
    BY <1>1 DEF LoopInv, ReadyWhenReturned
  <1>3. Starts'
    BY <1>1 DEF LoopInv, Starts
  <1> QED
    BY <1>1, <1>2, <1>3

\* The thread's steps that leave the functors alone.
LEMMA QuietOK ==
    ASSUME LoopInv, NEW l \in Loops,
           \/ Publish(l) \/ Enter(l) \/ LoopWhile(l) \/ Poll(l)
           \/ handleRead(l) \/ Clear(l) \/ Destroy(l)
    PROVE  LoopInv'
  <1>1. PICK there \in {"publish", "enter", "while", "poll", "handleRead", "events",
                        "clear", "unlock", "gone"} :
            /\ loopAt[l] \in {"create", "publish", "enter", "while", "poll", "handleRead",
                          "clear", "unlock"}
            /\ loopAt' = [loopAt EXCEPT ![l] = there]
            /\ there \in {"handleRead", "events"}
                 \/ (wakeupFd' = wakeupFd /\ loopAt[l] \notin {"poll", "handleRead"})
    BY Zenon DEF Publish, Enter, LoopWhile, Poll, handleRead, Clear, Destroy, Moves,
           loopVars
  <1>2. /\ UNCHANGED poolVars
        /\ UNCHANGED <<pending, functors, calling, issued, queued, ran,
                       initial>>
    BY DEF Publish, Enter, LoopWhile, Poll, handleRead, Clear, Destroy, loopVars
  <1>3. /\ loopPtr' \in [Loops -> BOOLEAN]
        /\ \A k \in Loops : k # l => loopPtr'[k] = loopPtr[k]
    BY Zenon DEF Publish, Enter, LoopWhile, Poll, handleRead, Clear, Destroy, threadVars,
           LoopInv, Types
  <1>4. /\ wakeupFd' \in [Loops -> BOOLEAN]
        /\ \A k \in Loops : k # l => wakeupFd'[k] = wakeupFd[k]
    BY Zenon DEF Publish, Enter, LoopWhile, Poll, handleRead, Clear, Destroy, loopVars,
           LoopInv, Types
  <1>5. /\ loopAt'[l] = there /\ \A k \in Loops : k # l => loopAt'[k] = loopAt[k]
        /\ loopAt' \in [Loops -> {"none", "create", "publish", "enter", "while", "poll",
                              "handleRead", "events", "swap", "run", "clear",
                              "unlock", "gone"}]
        /\ ReadyWhenReturned' /\ Starts'
    BY <1>1, <1>2, <1>3, MoveOK, Zenon
  <1>6. Types' /\ FunctorsInOrder'
    BY <1>2, <1>3, <1>4, <1>5, Zenon DEF LoopInv, Types, FunctorsInOrder, poolVars
  <1>7. Calling'
    BY <1>1, <1>2, <1>5, Zenon DEF LoopInv, Calling
  <1>8. \A k \in Loops : Awake(k)'
    BY <1>1, <1>2, <1>4, <1>5, Zenon DEF LoopInv, Awake, poolVars
  <1> QED
    BY <1>5, <1>6, <1>7, <1>8 DEF LoopInv

\* The init callback.
LEMMA ConstructOK ==
    ASSUME LoopInv, NEW l \in Loops, Construct(l)
    PROVE  LoopInv'
  <1>1. /\ loopAt[l] = "create" /\ loopAt' = [loopAt EXCEPT ![l] = "publish"]
        /\ initial' = [initial EXCEPT ![l] = pending'[l]]
        /\ UNCHANGED poolVars /\ UNCHANGED <<loopPtr, functors, calling, wakeupFd, ran>>
    BY DEF Construct, Moves, threadVars
  <1>2. /\ loopAt'[l] = "publish" /\ \A k \in Loops : k # l => loopAt'[k] = loopAt[k]
        /\ loopAt' \in [Loops -> {"none", "create", "publish", "enter", "while", "poll",
                              "handleRead", "events", "swap", "run", "clear",
                              "unlock", "gone"}]
        /\ ReadyWhenReturned' /\ Starts'
    BY <1>1, MoveOK, Zenon
  <1>3. /\ FunctorsInOrder' /\ issued' \in Nat
        /\ pending' \in [Loops -> Seq(Nat)] /\ queued' \in [Loops -> Seq(Nat)]
        /\ \A k \in Loops : k # l => pending'[k] = pending[k]
    <2>1. CASE UNCHANGED <<pending, issued, queued>>
      BY <1>1, <2>1, Zenon DEF LoopInv, Types, FunctorsInOrder
    <2>2. CASE issued' = issued + 1 /\ PushFunctor(l, issued + 1)
      <3>1. issued + 1 \in Nat
        BY DEF LoopInv, Types
      <3> QED
        BY <1>1, <2>2, <3>1, PushOK
    <2> QED
      BY <2>1, <2>2 DEF Construct
  <1>4. /\ initial' \in [Loops -> Seq(Nat)] /\ initial'[l] = pending'[l]
        /\ \A k \in Loops : k # l => initial'[k] = initial[k]
    <2>1. initial \in [Loops -> Seq(Nat)] /\ pending'[l] \in Seq(Nat)
      BY <1>3 DEF LoopInv, Types
    <2> QED
      BY <1>1, <2>1
  <1>5. Types'
    BY <1>1, <1>2, <1>3, <1>4, Zenon DEF LoopInv, Types, poolVars
  <1>6. Calling'
    BY <1>1, <1>2, Zenon DEF LoopInv, Calling
  <1>7. \A k \in Loops : Awake(k)'
    BY <1>1, <1>2, <1>3, <1>4, Zenon DEF LoopInv, Awake, poolVars
  <1> QED
    BY <1>2, <1>3, <1>5, <1>6, <1>7, Zenon DEF LoopInv

\* The channels' callbacks.
LEMMA EventsOK ==
    ASSUME LoopInv, NEW l \in Loops, HandleEvents(l)
    PROVE  LoopInv'
  <1>1. /\ loopAt[l] = "events" /\ loopAt' = [loopAt EXCEPT ![l] = "swap"]
        /\ UNCHANGED poolVars /\ UNCHANGED <<loopPtr, functors, calling, wakeupFd, ran, initial>>
    BY DEF HandleEvents, Moves, threadVars
  <1>2. /\ loopAt'[l] = "swap" /\ \A k \in Loops : k # l => loopAt'[k] = loopAt[k]
        /\ loopAt' \in [Loops -> {"none", "create", "publish", "enter", "while", "poll",
                              "handleRead", "events", "swap", "run", "clear",
                              "unlock", "gone"}]
        /\ ReadyWhenReturned' /\ Starts'
    BY <1>1, MoveOK, Zenon
  <1>3. /\ FunctorsInOrder' /\ issued' \in Nat
        /\ pending' \in [Loops -> Seq(Nat)] /\ queued' \in [Loops -> Seq(Nat)]
        /\ \A k \in Loops : k # l => pending'[k] = pending[k]
    <2>1. CASE UNCHANGED <<pending, issued, queued>>
      BY <1>1, <2>1, Zenon DEF LoopInv, Types, FunctorsInOrder
    <2>2. CASE issued' = issued + 1 /\ PushFunctor(l, issued + 1)
      <3>1. issued + 1 \in Nat
        BY DEF LoopInv, Types
      <3> QED
        BY <1>1, <2>2, <3>1, PushOK
    <2> QED
      BY <2>1, <2>2 DEF HandleEvents
  <1>4. Types'
    BY <1>1, <1>2, <1>3, Zenon DEF LoopInv, Types, poolVars
  <1>5. Calling'
    BY <1>1, <1>2, Zenon DEF LoopInv, Calling
  <1>6. \A k \in Loops : Awake(k)'
    BY <1>1, <1>2, <1>3, Zenon DEF LoopInv, Awake, poolVars
  <1> QED
    BY <1>2, <1>3, <1>4, <1>5, <1>6, Zenon DEF LoopInv

\* doPendingFunctors: the swap and the end.
LEMMA SwapOK ==
    ASSUME LoopInv, NEW l \in Loops, SwapFunctors(l) \/ FunctorsDone(l)
    PROVE  LoopInv'
  <1>0. /\ pending \in [Loops -> Seq(Nat)] /\ functors \in [Loops -> Seq(Nat)]
        /\ calling \in [Loops -> BOOLEAN] /\ ran \in [Loops -> Seq(Nat)]
    BY DEF LoopInv, Types
  <1>1. CASE SwapFunctors(l)
    <2>1. /\ loopAt[l] = "swap" /\ loopAt' = [loopAt EXCEPT ![l] = "run"]
          /\ functors' = [functors EXCEPT ![l] = pending[l]]
          /\ pending' = [pending EXCEPT ![l] = <<>>]
          /\ calling' = [calling EXCEPT ![l] = TRUE]
          /\ UNCHANGED poolVars /\ UNCHANGED <<loopPtr, wakeupFd, issued, queued, ran, initial>>
      BY <1>1 DEF SwapFunctors, Moves, threadVars
    <2>2. /\ loopAt'[l] = "run" /\ \A k \in Loops : k # l => loopAt'[k] = loopAt[k]
          /\ loopAt' \in [Loops -> {"none", "create", "publish", "enter", "while", "poll",
                                "handleRead", "events", "swap", "run", "clear",
                                "unlock", "gone"}]
          /\ ReadyWhenReturned' /\ Starts'
      BY <2>1, MoveOK, Zenon
    <2>3. Types'
      BY <1>0, <2>1, <2>2 DEF LoopInv, Types, poolVars
    <2>4. Calling'
      BY <1>0, <2>1, <2>2 DEF LoopInv, Calling
    <2>5. \A k \in Loops : Awake(k)'
      BY <1>0, <2>1, <2>2 DEF LoopInv, Awake, poolVars
    <2>6. ASSUME NEW k \in Loops
          PROVE  ran[k] \o functors'[k] \o pending'[k] = queued[k]
      <3>1. ran[k] \o functors[k] \o pending[k] = queued[k]
        BY Zenon DEF LoopInv, FunctorsInOrder
      <3>2. CASE k = l
        <4>1. functors[l] = <<>> /\ functors'[l] = pending[l] /\ pending'[l] = <<>>
          BY <1>0, <2>1 DEF LoopInv, Calling
        <4>2. ran[l] \in Seq(Nat) /\ pending[l] \in Seq(Nat)
          BY <1>0
        <4>3. ran[l] \o pending[l] \o <<>> = ran[l] \o <<>> \o pending[l]
          BY <4>2, SwapEmpty, Zenon
        <4> QED
          BY <3>1, <3>2, <4>1, <4>3, Zenon
      <3>3. CASE k # l
        BY <1>0, <2>1, <3>1, <3>3
      <3> QED
        BY <3>2, <3>3, Zenon
    <2>7. FunctorsInOrder'
      BY <2>1, <2>6, Zenon DEF FunctorsInOrder
    <2> QED
      BY <2>2, <2>3, <2>4, <2>5, <2>7 DEF LoopInv
  <1>2. CASE FunctorsDone(l)
    <2>1. /\ loopAt[l] = "run" /\ loopAt' = [loopAt EXCEPT ![l] = "while"] /\ functors[l] = <<>>
          /\ calling' = [calling EXCEPT ![l] = FALSE]
          /\ UNCHANGED poolVars
          /\ UNCHANGED <<loopPtr, functors, pending, wakeupFd, issued, queued, ran, initial>>
      BY <1>2, Zenon DEF FunctorsDone, Moves, threadVars
    <2>2. /\ loopAt'[l] = "while" /\ \A k \in Loops : k # l => loopAt'[k] = loopAt[k]
          /\ loopAt' \in [Loops -> {"none", "create", "publish", "enter", "while", "poll",
                                "handleRead", "events", "swap", "run", "clear",
                                "unlock", "gone"}]
          /\ ReadyWhenReturned' /\ Starts'
      BY <2>1, MoveOK, Zenon
    <2>3. Types' /\ FunctorsInOrder'
      BY <1>0, <2>1, <2>2, Zenon DEF LoopInv, Types, FunctorsInOrder, poolVars
    <2>4. Calling'
      BY <1>0, <2>1, <2>2 DEF LoopInv, Calling
    <2>5. \A k \in Loops : Awake(k)'
      BY <2>1, <2>2, Zenon DEF LoopInv, Awake, poolVars
    <2> QED
      BY <2>2, <2>3, <2>4, <2>5 DEF LoopInv
  <1> QED
    BY <1>1, <1>2

\* doPendingFunctors: one functor.  One that queues another writes to the eventfd,
\* since callingPendingFunctors_ is set.
LEMMA RunOK ==
    ASSUME LoopInv, NEW l \in Loops, RunFunctor(l)
    PROVE  LoopInv'
  <1>0. /\ pending \in [Loops -> Seq(Nat)] /\ functors \in [Loops -> Seq(Nat)]
        /\ queued \in [Loops -> Seq(Nat)] /\ ran \in [Loops -> Seq(Nat)]
        /\ wakeupFd \in [Loops -> BOOLEAN] /\ issued \in Nat
    BY DEF LoopInv, Types
  <1>1. /\ loopAt[l] = "run" /\ loopAt' = [loopAt EXCEPT ![l] = "run"] /\ functors[l] # <<>>
        /\ functors' = [functors EXCEPT ![l] = Tail(functors[l])]
        /\ ran' = [ran EXCEPT ![l] = Append(ran[l], Head(functors[l]))]
        /\ UNCHANGED poolVars /\ UNCHANGED <<loopPtr, calling, initial>>
    BY Zenon DEF RunFunctor, Moves, threadVars
  <1>2. /\ loopAt'[l] = "run" /\ \A k \in Loops : k # l => loopAt'[k] = loopAt[k]
        /\ loopAt' \in [Loops -> {"none", "create", "publish", "enter", "while", "poll",
                              "handleRead", "events", "swap", "run", "clear",
                              "unlock", "gone"}]
        /\ ReadyWhenReturned' /\ Starts'
    BY <1>1, MoveOK, Zenon
  <1>3. /\ ran[l] \in Seq(Nat) /\ functors[l] \in Seq(Nat) /\ pending[l] \in Seq(Nat)
        /\ queued[l] \in Seq(Nat)
    BY <1>0
  <1>4. /\ Tail(functors[l]) \in Seq(Nat) /\ Append(ran[l], Head(functors[l])) \in Seq(Nat)
    BY <1>1, <1>3
  <1>5. /\ functors' \in [Loops -> Seq(Nat)] /\ ran' \in [Loops -> Seq(Nat)]
        /\ functors'[l] = Tail(functors[l]) /\ ran'[l] = Append(ran[l], Head(functors[l]))
        /\ \A k \in Loops : k # l => functors'[k] = functors[k] /\ ran'[k] = ran[k]
    BY <1>0, <1>1, <1>4
  <1>6. ASSUME NEW k \in Loops
        PROVE  ran'[k] \o functors'[k] \o pending[k] = queued[k]
    <2>1. ran[k] \o functors[k] \o pending[k] = queued[k]
      BY Zenon DEF LoopInv, FunctorsInOrder
    <2>2. CASE k = l
      <3>1. Append(ran[l], Head(functors[l])) \o Tail(functors[l]) \o pending[l]
              = ran[l] \o functors[l] \o pending[l]
        BY <1>1, <1>3, MoveHead, Zenon
      <3> QED
        BY <1>5, <2>1, <2>2, <3>1, Zenon
    <2>3. CASE k # l
      BY <1>5, <2>1, <2>3, Zenon
    <2> QED
      BY <2>2, <2>3, Zenon
  <1>7. CASE UNCHANGED <<pending, issued, queued, wakeupFd>>
    <2>1. Types' /\ FunctorsInOrder'
      BY <1>1, <1>2, <1>5, <1>6, <1>7, Zenon DEF LoopInv, Types, FunctorsInOrder, poolVars
    <2>2. Calling'
      BY <1>1, <1>2, <1>5 DEF LoopInv, Calling
    <2>3. \A k \in Loops : Awake(k)'
      BY <1>1, <1>2, <1>7, Zenon DEF LoopInv, Awake, poolVars
    <2> QED
      BY <1>2, <2>1, <2>2, <2>3 DEF LoopInv
  <1>8. CASE /\ issued' = issued + 1 /\ PushFunctor(l, issued + 1)
             /\ wakeupFd' = [wakeupFd EXCEPT ![l] = @ \/ calling[l]]
    <2>1. PICK f \in Nat : f = issued + 1
      BY <1>0
    <2>2. /\ pending' = [pending EXCEPT ![l] = Append(pending[l], f)]
          /\ queued' = [queued EXCEPT ![l] = Append(queued[l], f)]
      BY <1>8, <2>1 DEF PushFunctor
    <2>3. Append(pending[l], f) \in Seq(Nat) /\ Append(queued[l], f) \in Seq(Nat)
      <3>1. \A s \in Seq(Nat), x \in Nat : Append(s, x) \in Seq(Nat)
        BY ONLY TRUE
      <3> QED
        BY <1>3, <3>1, Zenon
    <2>4. /\ pending' \in [Loops -> Seq(Nat)] /\ queued' \in [Loops -> Seq(Nat)]
          /\ pending'[l] = Append(pending[l], f) /\ queued'[l] = Append(queued[l], f)
          /\ \A k \in Loops : k # l => pending'[k] = pending[k] /\ queued'[k] = queued[k]
      BY <1>0, <2>2, <2>3
    <2>5. ASSUME NEW k \in Loops
          PROVE  ran'[k] \o functors'[k] \o pending'[k] = queued'[k]
      <3>1. CASE k = l
        <4>1. PICK r \in Seq(Nat), t \in Seq(Nat), p \in Seq(Nat) :
                  ran'[l] = r /\ functors'[l] = t /\ pending[l] = p
          BY <1>3, <1>4, <1>5, Zenon
        <4>2. r \o t \o Append(p, f) = Append(r \o t \o p, f)
          BY AppendToThird, Zenon
        <4>3. r \o t \o p = queued[l]
          BY <1>6, <4>1, Zenon
        <4> QED
          BY <2>4, <3>1, <4>1, <4>2, <4>3, Zenon
      <3>2. CASE k # l
        BY <1>6, <2>4, <3>2, Zenon
      <3> QED
        BY <3>1, <3>2, Zenon
    <2>6. FunctorsInOrder'
      BY <2>5, Zenon DEF FunctorsInOrder
    <2>7. calling[l] = TRUE
      BY <1>1 DEF LoopInv, Calling
    <2>8. /\ wakeupFd' \in [Loops -> BOOLEAN] /\ wakeupFd'[l] = TRUE
          /\ \A k \in Loops : k # l => wakeupFd'[k] = wakeupFd[k]
      BY <1>0, <1>8, <2>7, Zenon
    <2>9. issued' \in Nat
      BY <1>8, <2>1
    <2>10. Types'
      BY <1>1, <1>2, <1>5, <2>4, <2>8, <2>9, Zenon DEF LoopInv, Types, poolVars
    <2>11. Calling'
      BY <1>1, <1>2, <1>5 DEF LoopInv, Calling
    <2>12. ASSUME NEW k \in Loops PROVE Awake(k)'
      <3>1. CASE k = l
        BY <2>8, <3>1, Zenon DEF Awake
      <3>2. CASE k # l
        <4>1. /\ pending'[k] = pending[k] /\ loopAt'[k] = loopAt[k]
              /\ wakeupFd'[k] = wakeupFd[k] /\ initial'[k] = initial[k]
              /\ cur' = cur /\ base' = base
          BY <1>1, <1>2, <2>4, <2>8, <3>2, Zenon DEF poolVars
        <4>2. Awake(k)
          BY Zenon DEF LoopInv
        <4> QED
          BY <4>1, <4>2, Zenon DEF Awake
      <3> QED
        BY <3>1, <3>2, Zenon
    <2> QED
      BY <1>2, <2>6, <2>10, <2>11, <2>12 DEF LoopInv
  <1> QED
    BY <1>7, <1>8 DEF RunFunctor

\* LoopInv holds in every reachable state.
LEMMA LoopInvariant ==
    LoopsSpec => []LoopInv
  <1>1. LoopsInit => LoopInv
    <2> SUFFICES ASSUME LoopsInit PROVE LoopInv
      OBVIOUS
    <2>1. \A l \in Loops : <<>> \o <<>> \o <<>> = <<>>
      OBVIOUS
    <2>2. <<>> \in Seq(Nat)
      OBVIOUS
    <2>3. Types
      BY <2>2, OtherLoop DEF LoopsInit, Types
    <2>4. FunctorsInOrder
      BY <2>1 DEF LoopsInit, FunctorsInOrder
    <2>5. Calling /\ Starts /\ \A l \in Loops : Awake(l)
      BY DEF LoopsInit, Calling, Starts, Awake
    <2>6. ReadyWhenReturned
      BY LoopsAssumption DEF LoopsInit, ReadyWhenReturned, Loops
    <2> QED
      BY <2>3, <2>4, <2>5, <2>6 DEF LoopInv
  <1>2. LoopInv /\ [LoopsNext]_loopsVars => LoopInv'
    <2> SUFFICES ASSUME LoopInv, [LoopsNext]_loopsVars PROVE LoopInv'
      OBVIOUS
    <2>1. CASE UNCHANGED loopsVars
      BY <2>1, Zenon DEF LoopInv, Types, FunctorsInOrder, Calling, ReadyWhenReturned, Starts, Awake,
                  loopsVars, poolVars, threadVars, loopVars
    <2>2. CASE Base \/ QueueInLoop \/ StopLoops
      BY <2>2, QueueOK, WakeupOK, StopOK, StartOK DEF Base
    <2>3. ASSUME NEW l \in Loops, Thread(l) PROVE LoopInv'
      BY <2>3, ConstructOK, QuietOK, EventsOK, SwapOK, RunOK DEF Thread
    <2> QED
      BY <2>1, <2>2, <2>3 DEF LoopsNext
  <1> QED
    BY <1>1, <1>2, PTL DEF LoopsSpec

\* queueInLoop and doPendingFunctors: each loop runs its functors in the order in
\* which they were queued, each one once, whichever thread queued them.
THEOREM LoopFunctorsInOrder ==
    LoopsSpec => []FunctorsInOrder
  <1>1. LoopInv => FunctorsInOrder
    BY DEF LoopInv
  <1> QED
    BY <1>1, LoopInvariant, PTL

\* queueInLoop and wakeup: a loop waits in poll on functors that nothing wakes it
\* up for only if they are those that the init callback queued before loop(),
\* which queueInLoop does not write to the eventfd for.
THEOREM LoopNoSleepWithWork ==
    LoopsSpec => []NoSleepWithWork
  <1>1. LoopInv => NoSleepWithWork
    BY DEF LoopInv, Awake, NoSleepWithWork
  <1> QED
    BY <1>1, LoopInvariant, PTL

\* EventLoopThread::startLoop: the loops that start() has obtained exist.
THEOREM LoopReadyWhenReturned ==
    LoopsSpec => []ReadyWhenReturned
  <1>1. LoopInv => ReadyWhenReturned
    BY DEF LoopInv
  <1> QED
    BY <1>1, LoopInvariant, PTL

----------------------------------------------------------------------------
(* ThreadPool, for any number of workers and producers and any bound on    *)
(* the queue: tasks are taken in the order in which run() accepted them.   *)

\* Every call of run() under way has a task of its own, which is not in the
\* queue's history yet; a pool without threads queues nothing.
Offers ==
    /\ \A i \in 1 .. Len(accepted) : accepted[i] \in 1 .. submitted
    /\ \A p \in Callers :
          caller[p] # "idle" =>
              /\ threads # {} /\ offer[p] \in 1 .. submitted
              /\ \A i \in 1 .. Len(accepted) : accepted[i] # offer[p]
              /\ \A q \in Callers : caller[q] # "idle" /\ offer[q] = offer[p] => q = p
    /\ threads = {} => queue = <<>>

PoolInv == TasksInOrder /\ Offers

\* A step that leaves the queue and the offers alone.
Still ==
    /\ UNCHANGED <<threads, maxQueueSize, queue, offer, submitted, accepted, taken>>
    /\ running' \in BOOLEAN /\ latch' \in [Workers -> 0 .. 1]
    /\ owner' \in {"start", "up", "join", "stopped"}
    /\ workerAt' \in [Workers -> {"none", "born", "while", "take", "waiting", "task",
                                  "exited"}]
    /\ task' \in [Workers -> 1 .. MaxTasks \cup {NoTask}]
    /\ caller' \in [Callers -> {"idle", "run", "waiting"}]
    /\ \A p \in Callers : caller'[p] # "idle" => caller[p] # "idle"

LEMMA StillKeeps == ASSUME PoolInv, Still PROVE PoolInv'
<1>1. PoolTypeOK'
  BY DEF PoolInv, TasksInOrder, PoolTypeOK, Still
<1>2. TasksInOrder'
  BY <1>1 DEF PoolInv, TasksInOrder, Still
<1>3. Offers'
  BY DEF PoolInv, Offers, Still
<1> QED BY <1>2, <1>3 DEF PoolInv

LEMMA OwnerStill ==
    ASSUME PoolInv, Starting \/ Stop \/ Join PROVE Still
<1>1. CASE \E w \in Workers : StartWorker(w)
  BY <1>1 DEF StartWorker, pool, Still, PoolInv, TasksInOrder, PoolTypeOK
<1>2. CASE Started \/ Join
  BY <1>2, Zenon DEF Started, Join, pool, Still, PoolInv, TasksInOrder, PoolTypeOK
<1>3. CASE Stop
  <2>1. /\ workerAt \in [Workers -> {"none", "born", "while", "take", "waiting", "task",
                                     "exited"}]
        /\ caller \in [Callers -> {"idle", "run", "waiting"}]
    BY DEF PoolInv, TasksInOrder, PoolTypeOK
  <2>2. /\ workerAt' \in [Workers -> {"none", "born", "while", "take", "waiting", "task",
                                      "exited"}]
        /\ caller' \in [Callers -> {"idle", "run", "waiting"}]
        /\ \A p \in Callers : caller'[p] # "idle" => caller[p] # "idle"
    BY <1>3, <2>1 DEF Stop, notifyAll
  <2> QED BY <1>3, <2>2, Zenon DEF Stop, pool, Still, PoolInv, TasksInOrder, PoolTypeOK
<1> QED BY <1>1, <1>2, <1>3 DEF Starting

LEMMA WorkerStill ==
    ASSUME PoolInv, NEW w \in Workers,
           Born(w) \/ While(w) \/ TakeNothing(w) \/ TaskDone(w)
    PROVE  Still
<1>1. CASE Born(w)
  BY <1>1 DEF Born, countDown, pool, Still, PoolInv, TasksInOrder, PoolTypeOK
<1>2. CASE While(w) \/ TakeNothing(w)
  BY <1>2, Zenon DEF While, TakeNothing, pool, Still, PoolInv, TasksInOrder, PoolTypeOK
<1>3. CASE TaskDone(w)
  BY <1>3 DEF TaskDone, pool, Still, PoolInv, TasksInOrder, PoolTypeOK
<1> QED BY <1>1, <1>2, <1>3

LEMMA WaitStill ==
    ASSUME PoolInv, Spurious \/ \E p \in Callers : AwaitRoom(p)
    PROVE  Still
BY Zenon DEF Spurious, AwaitRoom, pool, Still, PoolInv, TasksInOrder, PoolTypeOK

LEMMA RefusedKeeps ==
    ASSUME PoolInv, NEW p \in Callers, Refused(p) PROVE PoolInv'
<1>1. /\ UNCHANGED <<threads, maxQueueSize, running, queue, latch, owner, workerAt, task,
                     submitted, accepted, taken>>
      /\ caller' \in [Callers -> {"idle", "run", "waiting"}]
      /\ offer' \in [Callers -> 1 .. MaxTasks \cup {NoTask}]
      /\ \A q \in Callers : caller'[q] # "idle" =>
                                  caller[q] # "idle" /\ offer'[q] = offer[q]
  BY DEF Refused, pool, PoolInv, TasksInOrder, PoolTypeOK
<1>2. TasksInOrder'
  BY <1>1 DEF PoolInv, TasksInOrder, PoolTypeOK
<1>3. Offers'
  <2>1. /\ threads' = threads /\ queue' = queue /\ submitted' = submitted
        /\ accepted' = accepted
    BY <1>1, Zenon
  <2>2. ASSUME NEW q \in Callers, caller'[q] # "idle"
        PROVE  /\ threads # {} /\ offer'[q] \in 1 .. submitted
               /\ \A i \in 1 .. Len(accepted) : accepted[i] # offer'[q]
               /\ \A r \in Callers : caller'[r] # "idle" /\ offer'[r] = offer'[q] => r = q
    <3>1. caller[q] # "idle" /\ offer'[q] = offer[q]
      BY <1>1, <2>2, Zenon
    <3>2. ASSUME NEW r \in Callers, caller'[r] # "idle", offer'[r] = offer'[q]
          PROVE  r = q
      <4>1. caller[r] # "idle" /\ offer[r] = offer[q]
        BY <1>1, <3>1, <3>2, Zenon
      <4> QED BY <3>1, <4>1, Zenon DEF PoolInv, Offers
    <3> QED BY <3>1, <3>2, Zenon DEF PoolInv, Offers
  <2>3. /\ \A i \in 1 .. Len(accepted) : accepted[i] \in 1 .. submitted
        /\ threads = {} => queue = <<>>
    BY Zenon DEF PoolInv, Offers
  <2> QED BY <2>1, <2>2, <2>3, Zenon DEF Offers
<1> QED BY <1>2, <1>3, Zenon DEF PoolInv

\* What the steps do to the two ends of the queue.
LEMMA TakeFirst ==
    ASSUME NEW S, NEW t \in Seq(S), NEW q \in Seq(S), q # <<>>
    PROVE  /\ Append(t, Head(q)) \o Tail(q) = t \o q
           /\ Append(t, Head(q)) \in Seq(S) /\ Tail(q) \in Seq(S) /\ Head(q) \in S
           /\ Len(Tail(q)) < Len(q)
OBVIOUS

LEMMA PushLast ==
    ASSUME NEW S, NEW t \in Seq(S), NEW q \in Seq(S), NEW x \in S
    PROVE  /\ t \o Append(q, x) = Append(t \o q, x)
           /\ Append(q, x) \in Seq(S) /\ Len(Append(q, x)) = Len(q) + 1
OBVIOUS

\* A task that was not accepted before stays apart from the others.
LEMMA NewTask ==
    ASSUME NEW S, NEW a \in Seq(S), NEW x \in S, NEW c, c = Append(a, x),
           \A i, j \in 1 .. Len(a) : a[i] = a[j] => i = j,
           \A i \in 1 .. Len(a) : a[i] # x
    PROVE  /\ c \in Seq(S) /\ Len(c) = Len(a) + 1
           /\ \A i \in 1 .. Len(c) : c[i] = IF i <= Len(a) THEN a[i] ELSE x
           /\ \A i, j \in 1 .. Len(c) : c[i] = c[j] => i = j
<1>1. /\ c \in Seq(S) /\ Len(c) = Len(a) + 1 /\ Len(a) \in Nat
      /\ \A i \in 1 .. Len(c) : c[i] = IF i <= Len(a) THEN a[i] ELSE x
  OBVIOUS
<1>2. ASSUME NEW i \in 1 .. Len(c), NEW j \in 1 .. Len(c), c[i] = c[j]
      PROVE  i = j
  <2>1. CASE i <= Len(a) /\ j <= Len(a)
    <3>1. i \in 1 .. Len(a) /\ j \in 1 .. Len(a)
      BY <1>1, <2>1
    <3>2. a[i] = a[j]
      BY <1>1, <1>2, <2>1
    <3> QED BY <3>1, <3>2
  <2>2. CASE i <= Len(a) /\ ~(j <= Len(a))
    <3>1. i \in 1 .. Len(a) /\ a[i] = x
      BY <1>1, <1>2, <2>2
    <3> QED BY <3>1
  <2>3. CASE ~(i <= Len(a)) /\ j <= Len(a)
    <3>1. j \in 1 .. Len(a) /\ a[j] = x
      BY <1>1, <1>2, <2>3
    <3> QED BY <3>1
  <2>4. CASE ~(i <= Len(a)) /\ ~(j <= Len(a))
    BY <1>1, <2>4
  <2> QED BY <2>1, <2>2, <2>3, <2>4
<1> QED BY <1>1, <1>2, Zenon

LEMMA TakeKeeps ==
    ASSUME PoolInv, NEW w \in Workers, Take(w) PROVE PoolInv'
<1>1. PoolTypeOK /\ taken \o queue = accepted /\ Offers
  BY DEF PoolInv, TasksInOrder
<1>2. /\ queue # <<>> /\ queue' = Tail(queue) /\ taken' = Append(taken, Head(queue))
      /\ task' = [task EXCEPT ![w] = Head(queue)]
      /\ workerAt' = [workerAt EXCEPT ![w] = "task"]
      /\ caller' \in notify(caller, "run") \cup {caller}
      /\ UNCHANGED <<threads, maxQueueSize, running, latch, owner, offer, submitted, accepted>>
  BY DEF Take, pool
<1>3. /\ taken' \o queue' = accepted /\ Len(queue') < Len(queue)
      /\ taken' \in Seq(1 .. MaxTasks) /\ queue' \in Seq(1 .. MaxTasks)
      /\ Head(queue) \in 1 .. MaxTasks
  <2>1. taken \in Seq(1 .. MaxTasks) /\ queue \in Seq(1 .. MaxTasks)
    BY <1>1 DEF PoolTypeOK
  <2>2. PICK S, t, q : S = 1 .. MaxTasks /\ t = taken /\ q = queue
    OBVIOUS
  <2>3. t \in Seq(S) /\ q \in Seq(S) /\ q # <<>>
    BY <1>2, <2>1, <2>2
  <2>4. /\ Append(t, Head(q)) \o Tail(q) = t \o q
        /\ Append(t, Head(q)) \in Seq(S) /\ Tail(q) \in Seq(S) /\ Head(q) \in S
        /\ Len(Tail(q)) < Len(q)
    BY <2>3, TakeFirst
  <2>5. taken' = Append(t, Head(q)) /\ queue' = Tail(q) /\ t \o q = accepted
    BY <1>1, <1>2, <2>2
  <2> QED BY <2>2, <2>4, <2>5
<1>4. /\ caller' \in [Callers -> {"idle", "run", "waiting"}]
      /\ \A p \in Callers : caller'[p] # "idle" => caller[p] # "idle"
  <2>1. caller \in [Callers -> {"idle", "run", "waiting"}]
    BY <1>1 DEF PoolTypeOK
  <2>2. PICK c : c = caller'
    OBVIOUS
  <2>3. CASE c \in notify(caller, "run")
    <3>1. /\ c \in [Callers -> {"idle", "run", "waiting"}]
          /\ \A p \in Callers : c[p] = caller[p] \/ (caller[p] = "waiting" /\ c[p] = "run")
      BY <2>1, <2>3 DEF notify
    <3> QED BY <2>2, <3>1
  <2>4. CASE c = caller
    BY <2>1, <2>2, <2>4
  <2> QED BY <1>2, <2>2, <2>3, <2>4
<1>5. PoolTypeOK'
  BY <1>1, <1>2, <1>3, <1>4 DEF PoolTypeOK
<1>6. maxQueueSize > 0 => Len(queue') <= maxQueueSize
  <2>1. maxQueueSize > 0 => Len(queue) <= maxQueueSize
    BY DEF PoolInv, TasksInOrder
  <2>2. maxQueueSize \in Int /\ Len(queue) \in Int /\ Len(queue') \in Int
    BY <1>1, <1>3, PoolAssumption DEF PoolTypeOK
  <2> QED BY <1>3, <2>1, <2>2
<1>7. TasksInOrder'
  BY <1>2, <1>3, <1>5, <1>6 DEF PoolInv, TasksInOrder
<1>8. Offers'
  BY <1>1, <1>2, <1>4 DEF Offers
<1> QED BY <1>7, <1>8 DEF PoolInv

LEMMA PushKeeps ==
    ASSUME PoolInv, NEW p \in Callers, Push(p) PROVE PoolInv'
<1>1. PoolTypeOK /\ taken \o queue = accepted /\ Offers
  BY DEF PoolInv, TasksInOrder
<1>2. PICK x : x = offer[p]
  OBVIOUS
<1>3. /\ caller[p] = "run" /\ ~isFull
      /\ queue' = Append(queue, x) /\ accepted' = Append(accepted, x)
      /\ workerAt' \in notify(workerAt, "take")
      /\ caller' = [caller EXCEPT ![p] = "idle"] /\ offer' = [offer EXCEPT ![p] = NoTask]
      /\ UNCHANGED <<threads, maxQueueSize, running, latch, owner, task, submitted, taken>>
  BY <1>2 DEF Push, pool
<1>4. /\ x \in 1 .. submitted /\ x \in 1 .. MaxTasks /\ threads # {}
      /\ \A i \in 1 .. Len(accepted) : accepted[i] # x
  <2>1. /\ x \in 1 .. submitted /\ threads # {}
        /\ \A i \in 1 .. Len(accepted) : accepted[i] # x
    BY <1>1, <1>2, <1>3 DEF Offers
  <2>2. submitted \in 0 .. MaxTasks /\ MaxTasks \in Nat
    BY <1>1, PoolAssumption DEF PoolTypeOK
  <2> QED BY <2>1, <2>2
<1>5. /\ taken \in Seq(1 .. MaxTasks) /\ queue \in Seq(1 .. MaxTasks)
      /\ accepted \in Seq(1 .. MaxTasks)
  BY <1>1 DEF PoolTypeOK
<1>6. /\ taken \o queue' = accepted'
      /\ queue' \in Seq(1 .. MaxTasks) /\ Len(queue') = Len(queue) + 1
  <2>1. x \in 1 .. MaxTasks
    BY <1>4
  <2>2. /\ taken \o Append(queue, x) = Append(taken \o queue, x)
        /\ Append(queue, x) \in Seq(1 .. MaxTasks)
        /\ Len(Append(queue, x)) = Len(queue) + 1
    BY <1>5, <2>1, PushLast
  <2> QED BY <1>1, <1>3, <2>2
<1>7. /\ accepted' \in Seq(1 .. MaxTasks) /\ Len(accepted') = Len(accepted) + 1
      /\ \A i \in 1 .. Len(accepted') :
            accepted'[i] = IF i <= Len(accepted) THEN accepted[i] ELSE x
      /\ \A i, j \in 1 .. Len(accepted') : accepted'[i] = accepted'[j] => i = j
  <2>1. \A i, j \in 1 .. Len(accepted) : accepted[i] = accepted[j] => i = j
    BY DEF PoolInv, TasksInOrder
  <2>2. PICK S, a, c : S = 1 .. MaxTasks /\ a = accepted /\ c = accepted'
    OBVIOUS
  <2>3. a \in Seq(S) /\ x \in S /\ c = Append(a, x)
    BY <1>3, <1>4, <1>5, <2>2
  <2>4. \A i \in 1 .. Len(a) : a[i] # x
    BY <1>4, <2>2
  <2>5. \A i, j \in 1 .. Len(a) : a[i] = a[j] => i = j
    BY <2>1, <2>2
  <2>6. /\ c \in Seq(S) /\ Len(c) = Len(a) + 1
        /\ \A i \in 1 .. Len(c) : c[i] = IF i <= Len(a) THEN a[i] ELSE x
        /\ \A i, j \in 1 .. Len(c) : c[i] = c[j] => i = j
    BY <2>3, <2>4, <2>5, NewTask
  <2>7. accepted' \in Seq(1 .. MaxTasks) /\ Len(accepted') = Len(accepted) + 1
    BY <2>2, <2>6
  <2>8. \A i \in 1 .. Len(accepted') :
           accepted'[i] = IF i <= Len(accepted) THEN accepted[i] ELSE x
    BY <2>2, <2>6
  <2>9. \A i, j \in 1 .. Len(accepted') : accepted'[i] = accepted'[j] => i = j
    BY <2>2, <2>6
  <2> QED BY <2>7, <2>8, <2>9
<1>8. PoolTypeOK'
  <2>1. workerAt' \in [Workers -> {"none", "born", "while", "take", "waiting", "task",
                                   "exited"}]
    BY <1>1, <1>3, Zenon DEF PoolTypeOK, notify
  <2> QED BY <1>1, <1>3, <1>6, <1>7, <2>1, Zenon DEF PoolTypeOK
<1>9. maxQueueSize > 0 => Len(queue') <= maxQueueSize
  <2>1. maxQueueSize \in Int /\ Len(queue) \in Int
    BY <1>1, <1>5, PoolAssumption DEF PoolTypeOK
  <2> QED BY <1>3, <1>6, <2>1 DEF isFull
<1>10. TasksInOrder'
  BY <1>3, <1>6, <1>7, <1>8, <1>9, Zenon DEF TasksInOrder
<1>11. Offers'
  <2>1. \A i \in 1 .. Len(accepted') : accepted'[i] \in 1 .. submitted
    <3>1. \A i \in 1 .. Len(accepted) : accepted[i] \in 1 .. submitted
      BY <1>1, Zenon DEF Offers
    <3>2. Len(accepted) \in Nat
      BY <1>5
    <3> QED BY <1>4, <1>7, <3>1, <3>2
  <2>2. ASSUME NEW q \in Callers, caller'[q] # "idle"
        PROVE  /\ q # p /\ caller[q] # "idle" /\ offer'[q] = offer[q]
               /\ \A i \in 1 .. Len(accepted') : accepted'[i] # offer[q]
    <3>1. q # p /\ caller[q] # "idle" /\ offer'[q] = offer[q]
      BY <1>1, <1>3, <2>2 DEF PoolTypeOK
    <3>2. offer[q] # x /\ \A i \in 1 .. Len(accepted) : accepted[i] # offer[q]
      BY <1>1, <1>2, <1>3, <3>1 DEF Offers
    <3>3. ASSUME NEW i \in 1 .. Len(accepted')
          PROVE  accepted'[i] # offer[q]
      <4>1. Len(accepted) \in Nat /\ i \in 1 .. Len(accepted) + 1
        BY <1>5, <1>7, <3>3
      <4>2. accepted'[i] = IF i <= Len(accepted) THEN accepted[i] ELSE x
        BY <1>7, <3>3
      <4>3. i <= Len(accepted) => i \in 1 .. Len(accepted)
        BY <4>1
      <4> QED BY <3>2, <4>2, <4>3
    <3> QED BY <3>1, <3>3
  <2>3. ASSUME NEW q \in Callers, caller'[q] # "idle"
        PROVE  /\ offer'[q] \in 1 .. submitted
               /\ \A i \in 1 .. Len(accepted') : accepted'[i] # offer'[q]
               /\ \A r \in Callers : caller'[r] # "idle" /\ offer'[r] = offer'[q] => r = q
    BY <1>1, <2>2, <2>3 DEF Offers
  <2>4. threads' = threads /\ threads # {} /\ submitted' = submitted
    BY <1>3, <1>4
  <2>5. \A i \in 1 .. Len(accepted') : accepted'[i] \in 1 .. submitted'
    BY <2>1, <2>4
  <2>6. \A q \in Callers :
           caller'[q] # "idle" =>
               /\ threads' # {} /\ offer'[q] \in 1 .. submitted'
               /\ \A i \in 1 .. Len(accepted') : accepted'[i] # offer'[q]
               /\ \A r \in Callers :
                     caller'[r] # "idle" /\ offer'[r] = offer'[q] => r = q
    BY <2>3, <2>4, Zenon
  <2> QED BY <2>4, <2>5, <2>6, Zenon DEF Offers
<1> QED BY <1>10, <1>11 DEF PoolInv

LEMMA CallRunKeeps ==
    ASSUME PoolInv, NEW p \in Callers, CallRun(p) PROVE PoolInv'
<1>1. PoolTypeOK /\ taken \o queue = accepted /\ Offers
  BY DEF PoolInv, TasksInOrder
<1>2. PICK x : x = submitted + 1
  OBVIOUS
<1>3. /\ submitted \in Nat /\ x \in 1 .. MaxTasks /\ submitted' = x /\ submitted < x
      /\ \A i \in 1 .. submitted : i \in 1 .. x /\ i # x
      /\ \A i \in 1 .. Len(accepted) : accepted[i] # x
  BY <1>1, <1>2, PoolAssumption DEF CallRun, PoolTypeOK, Offers
<1>4. UNCHANGED <<threads, maxQueueSize, running, queue, latch, owner, workerAt, task>>
  BY DEF CallRun, pool
<1>5. CASE threads = {}
  <2>1. /\ accepted' = Append(accepted, x) /\ taken' = Append(taken, x)
        /\ UNCHANGED <<caller, offer>> /\ queue = <<>>
    BY <1>1, <1>2, <1>5 DEF CallRun, Offers
  <2>2. taken \in Seq(1 .. MaxTasks) /\ accepted \in Seq(1 .. MaxTasks)
    BY <1>1 DEF PoolTypeOK
  <2>3. /\ accepted' \in Seq(1 .. MaxTasks) /\ Len(accepted') = Len(accepted) + 1
        /\ \A i \in 1 .. Len(accepted') :
              accepted'[i] = IF i <= Len(accepted) THEN accepted[i] ELSE x
        /\ \A i, j \in 1 .. Len(accepted') : accepted'[i] = accepted'[j] => i = j
    <3>1. \A i, j \in 1 .. Len(accepted) : accepted[i] = accepted[j] => i = j
      BY DEF PoolInv, TasksInOrder
    <3>2. PICK S, a, c : S = 1 .. MaxTasks /\ a = accepted /\ c = accepted'
      OBVIOUS
    <3>3. a \in Seq(S) /\ x \in S /\ c = Append(a, x)
      BY <1>3, <2>1, <2>2, <3>2
    <3>4. \A i \in 1 .. Len(a) : a[i] # x
      BY <1>3, <3>2
    <3>5. \A i, j \in 1 .. Len(a) : a[i] = a[j] => i = j
      BY <3>1, <3>2
    <3>6. /\ c \in Seq(S) /\ Len(c) = Len(a) + 1
          /\ \A i \in 1 .. Len(c) : c[i] = IF i <= Len(a) THEN a[i] ELSE x
          /\ \A i, j \in 1 .. Len(c) : c[i] = c[j] => i = j
      BY <3>3, <3>4, <3>5, NewTask
    <3>7. accepted' \in Seq(1 .. MaxTasks) /\ Len(accepted') = Len(accepted) + 1
      BY <3>2, <3>6
    <3>8. \A i \in 1 .. Len(accepted') :
             accepted'[i] = IF i <= Len(accepted) THEN accepted[i] ELSE x
      BY <3>2, <3>6
    <3>9. \A i, j \in 1 .. Len(accepted') : accepted'[i] = accepted'[j] => i = j
      BY <3>2, <3>6
    <3> QED BY <3>7, <3>8, <3>9
  <2>4. taken' \o queue' = accepted' /\ taken' \in Seq(1 .. MaxTasks)
    <3>1. PICK S, t : S = 1 .. MaxTasks /\ t = taken
      OBVIOUS
    <3>2. t \in Seq(S)
      BY <2>2, <3>1
    <3>3. t \o <<>> = t
      BY <3>2
    <3>4. taken = accepted
      BY <1>1, <2>1, <3>1, <3>3
    <3>5. taken' = accepted' /\ queue' = <<>>
      BY <1>4, <2>1, <3>4
    <3>6. PICK c : c = accepted'
      OBVIOUS
    <3>7. c \in Seq(S)
      BY <2>3, <3>1, <3>6
    <3>8. c \o <<>> = c
      BY <3>7
    <3> QED BY <3>1, <3>5, <3>6, <3>7, <3>8, Zenon
  <2>5. PoolTypeOK'
    BY <1>1, <1>3, <1>4, <2>1, <2>3, <2>4 DEF PoolTypeOK
  <2>6. TasksInOrder'
    BY <1>4, <2>3, <2>4, <2>5, Zenon DEF PoolInv, TasksInOrder
  <2>7. \A q \in Callers : caller'[q] = "idle"
    BY <1>1, <1>5, <2>1, Zenon DEF Offers
  <2>8. Offers'
    <3>1. \A i \in 1 .. Len(accepted) : accepted[i] \in 1 .. submitted
      BY <1>1, Zenon DEF Offers
    <3>2. \A i \in 1 .. Len(accepted') : accepted'[i] \in 1 .. submitted'
      <4>1. x \in 1 .. submitted'
        BY <1>3
      <4>2. ASSUME NEW i \in 1 .. Len(accepted')
            PROVE  accepted'[i] \in 1 .. submitted'
        <5>1. Len(accepted) \in Nat
          BY <2>2
        <5>2. CASE i <= Len(accepted)
          <6>1. i \in 1 .. Len(accepted) /\ accepted'[i] = accepted[i]
            BY <2>3, <5>1, <5>2
          <6> QED BY <1>3, <3>1, <6>1
        <5>3. CASE ~(i <= Len(accepted))
          <6>1. accepted'[i] = x
            BY <2>3, <5>3
          <6> QED BY <4>1, <6>1
        <5> QED BY <5>2, <5>3
      <4> QED BY <4>2
    <3>3. threads' = threads /\ queue' = <<>>
      BY <1>4, <2>1
    <3> QED BY <2>7, <3>2, <3>3, Zenon DEF Offers
  <2> QED BY <2>6, <2>8 DEF PoolInv
<1>6. CASE threads # {}
  <2>1. /\ caller' = [caller EXCEPT ![p] = "run"] /\ offer' = [offer EXCEPT ![p] = x]
        /\ UNCHANGED <<accepted, taken>>
    BY <1>2, <1>6 DEF CallRun
  <2>2. PoolTypeOK'
    <3>1. /\ caller' \in [Callers -> {"idle", "run", "waiting"}]
          /\ offer' \in [Callers -> 1 .. MaxTasks \cup {NoTask}]
      BY <1>1, <1>3, <2>1, Zenon DEF PoolTypeOK
    <3>2. submitted' \in 0 .. MaxTasks
      BY <1>3, PoolAssumption
    <3> QED BY <1>1, <1>4, <2>1, <3>1, <3>2, Zenon DEF PoolTypeOK
  <2>3. TasksInOrder'
    BY <1>4, <2>1, <2>2, Zenon DEF PoolInv, TasksInOrder
  <2>4. ASSUME NEW q \in Callers, caller'[q] # "idle"
        PROVE  \/ q = p /\ offer'[q] = x
               \/ q # p /\ caller[q] # "idle" /\ offer'[q] = offer[q] /\ offer[q] \in 1 .. submitted
    BY <1>1, <2>1, <2>4, Zenon DEF PoolTypeOK, Offers
  <2>5. Offers'
    <3>1. /\ threads' = threads /\ queue' = queue /\ submitted' = x /\ accepted' = accepted
          /\ \A i \in 1 .. submitted : i \in 1 .. x /\ i # x
      BY <1>3, <1>4, <2>1, Zenon
    <3>2. \A i \in 1 .. Len(accepted) : accepted[i] \in 1 .. x /\ accepted[i] # x
      BY <1>1, <3>1, Zenon DEF Offers
    <3>3. x \in 1 .. x
      BY <1>3, PoolAssumption
    <3>4. ASSUME NEW q \in Callers, caller'[q] # "idle"
          PROVE  offer'[q] \in 1 .. x /\ \A i \in 1 .. Len(accepted) : accepted[i] # offer'[q]
      <4>1. CASE q = p /\ offer'[q] = x
        BY <3>2, <3>3, <4>1, Zenon
      <4>2. CASE /\ caller[q] # "idle" /\ offer'[q] = offer[q]
                 /\ offer[q] \in 1 .. submitted
        BY <1>1, <3>1, <4>2, Zenon DEF Offers
      <4> QED BY <2>4, <3>4, <4>1, <4>2, Zenon
    <3>5. ASSUME NEW q \in Callers, NEW r \in Callers, caller'[q] # "idle",
                 caller'[r] # "idle", offer'[r] = offer'[q]
          PROVE  r = q
      <4>1. CASE q = p \/ r = p
        BY <2>4, <3>1, <3>5, <4>1, Zenon
      <4>2. CASE q # p /\ r # p
        <5>1. caller[q] # "idle" /\ caller[r] # "idle" /\ offer[r] = offer[q]
          BY <2>4, <3>5, <4>2, Zenon
        <5> QED BY <1>1, <5>1, Zenon DEF Offers
      <4> QED BY <4>1, <4>2, Zenon
    <3>6. threads = {} => queue = <<>>
      BY <1>1, Zenon DEF Offers
    <3> QED BY <1>6, <3>1, <3>2, <3>4, <3>5, <3>6, Zenon DEF Offers
  <2> QED BY <2>3, <2>5 DEF PoolInv
<1> QED BY <1>5, <1>6

LEMMA PoolStep == ASSUME PoolInv, [PoolNext]_workVars PROVE PoolInv'
<1>1. CASE Starting \/ Stop \/ Join
  BY <1>1, OwnerStill, StillKeeps
<1>2. ASSUME NEW w \in Workers, Working(w)
      PROVE  PoolInv'
  <2>1. CASE Take(w)
    BY <2>1, TakeKeeps
  <2>2. CASE Born(w) \/ While(w) \/ TakeNothing(w) \/ TaskDone(w)
    BY <2>2, WorkerStill, StillKeeps
  <2> QED BY <1>2, <2>1, <2>2 DEF Working
<1>3. ASSUME NEW p \in Callers, CallRun(p)
      PROVE  PoolInv'
  BY <1>3, CallRunKeeps
<1>4. ASSUME NEW p \in Callers, Running(p)
      PROVE  PoolInv'
  <2>1. CASE Push(p)
    BY <2>1, PushKeeps
  <2>2. CASE AwaitRoom(p)
    BY <2>2, WaitStill, StillKeeps
  <2>3. CASE Refused(p)
    BY <2>3, RefusedKeeps
  <2> QED BY <1>4, <2>1, <2>2, <2>3 DEF Running
<1>5. CASE Spurious
  BY <1>5, WaitStill, StillKeeps
<1>6. CASE UNCHANGED workVars
  <2>1. UNCHANGED <<threads, maxQueueSize, running, queue, latch, owner, workerAt, task,
                    caller, offer, submitted, accepted, taken>>
    BY <1>6, Zenon DEF workVars, pool
  <2>2. PoolTypeOK'
    BY <2>1, Zenon DEF PoolInv, TasksInOrder, PoolTypeOK
  <2>3. TasksInOrder'
    BY <2>1, <2>2, Zenon DEF PoolInv, TasksInOrder
  <2>4. Offers'
    BY <2>1, Zenon DEF PoolInv, Offers
  <2> QED BY <2>3, <2>4, Zenon DEF PoolInv
<1> QED BY <1>1, <1>2, <1>3, <1>4, <1>5, <1>6 DEF PoolNext

\* ThreadPool::run and take: for any number of workers and producers and any
\* bound on the queue, the tasks are started in the order in which run() pushed
\* them, each once, none is lost between the queue and a worker, and the queue
\* stays within maxQueueSize_.
THEOREM PoolTasksInOrder == PoolSpec => []TasksInOrder
<1>1. PoolInit => PoolInv
  <2> SUFFICES ASSUME PoolInit PROVE PoolInv
    OBVIOUS
  <2>1. PoolTypeOK
    <3>1. threads \in SUBSET Workers /\ running \in BOOLEAN
      BY Zenon DEF PoolInit
    <3>2. /\ maxQueueSize \in MaxQueueSizes /\ submitted \in 0 .. MaxTasks
          /\ owner \in {"start", "up", "join", "stopped"}
      BY PoolAssumption DEF PoolInit
    <3>3. /\ queue \in Seq(1 .. MaxTasks) /\ accepted \in Seq(1 .. MaxTasks)
          /\ taken \in Seq(1 .. MaxTasks)
      BY DEF PoolInit
    <3>4. /\ latch \in [Workers -> 0 .. 1]
          /\ workerAt \in [Workers -> {"none", "born", "while", "take", "waiting",
                                      "task", "exited"}]
          /\ task \in [Workers -> 1 .. MaxTasks \cup {NoTask}]
          /\ caller \in [Callers -> {"idle", "run", "waiting"}]
          /\ offer \in [Callers -> 1 .. MaxTasks \cup {NoTask}]
      BY DEF PoolInit
    <3> QED BY <3>1, <3>2, <3>3, <3>4 DEF PoolTypeOK
  <2>2. TasksInOrder
    BY <2>1, PoolAssumption DEF PoolInit, TasksInOrder
  <2>3. Offers
    BY DEF PoolInit, Offers
  <2> QED BY <2>2, <2>3 DEF PoolInv
<1>2. PoolInv /\ [PoolNext]_workVars => PoolInv'
  BY PoolStep
<1>3. PoolInv => TasksInOrder
  BY DEF PoolInv
<1> QED BY <1>1, <1>2, <1>3, PTL DEF PoolSpec
=============================================================================
