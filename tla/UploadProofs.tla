---------------------------- MODULE UploadProofs ----------------------------
(***************************************************************************)
(* Upload, for any content, any cuts of the request into reads and any     *)
(* failures of the store.  First what parts of sequences are and what find *)
(* returns; then parseRequest, which keeps inputBuffer_ and the body equal *)
(* to parts of the request; then the handler's calls.  InOrder follows     *)
(* from where in the body each call's part comes from, RowIsWholeFile from *)
(* what find returns when no read ends in the boundary.                    *)
(***************************************************************************)
EXTENDS Upload, WellFoundedInduction, TLAPS

----------------------------------------------------------------------------
(* Parts of sequences, and the request.                                    *)

\* What a part of a sequence is, token by token.
LEMMA Cut ==
    ASSUME NEW S, NEW s \in Seq(S), NEW m \in Nat, NEW n \in Nat, m <= n, n <= Len(s)
    PROVE  /\ SubSeq(s, m + 1, n) \in Seq(S) /\ Len(SubSeq(s, m + 1, n)) = n - m
           /\ \A i \in 1 .. n - m : SubSeq(s, m + 1, n)[i] = s[m + i]
OBVIOUS

LEMMA Alike ==
    ASSUME NEW S, NEW s \in Seq(S), NEW t \in Seq(S), Len(s) = Len(t),
           \A i \in 1 .. Len(s) : s[i] = t[i]
    PROVE  s = t
OBVIOUS

LEMMA Joined ==
    ASSUME NEW S, NEW s \in Seq(S), NEW t \in Seq(S)
    PROVE  /\ s \o t \in Seq(S) /\ Len(s \o t) = Len(s) + Len(t)
           /\ \A i \in 1 .. Len(s) : (s \o t)[i] = s[i]
           /\ \A i \in 1 .. Len(t) : (s \o t)[Len(s) + i] = t[i]
           /\ \A i \in Len(s) + 1 .. Len(s) + Len(t) : (s \o t)[i] = t[i - Len(s)]
OBVIOUS

\* Two parts that meet, and a part of a part.
LEMMA CutsMeet ==
    ASSUME NEW S, NEW s \in Seq(S), NEW m \in Nat, NEW n \in Nat, NEW p \in Nat,
           m <= n, n <= p, p <= Len(s)
    PROVE  SubSeq(s, m + 1, n) \o SubSeq(s, n + 1, p) = SubSeq(s, m + 1, p)
<1> DEFINE a == SubSeq(s, m + 1, n)
           z == SubSeq(s, n + 1, p)
           e == SubSeq(s, m + 1, p)
<1>1. /\ a \in Seq(S) /\ Len(a) = n - m /\ \A i \in 1 .. n - m : a[i] = s[m + i]
      /\ z \in Seq(S) /\ Len(z) = p - n /\ \A i \in 1 .. p - n : z[i] = s[n + i]
      /\ e \in Seq(S) /\ Len(e) = p - m /\ \A i \in 1 .. p - m : e[i] = s[m + i]
  BY Cut
<1> HIDE DEF a, z, e
<1>2. a \o z \in Seq(S) /\ Len(a \o z) = p - m
  BY <1>1
<1>3. ASSUME NEW i \in 1 .. p - m
      PROVE  (a \o z)[i] = e[i]
  <2>1. CASE i <= n - m
    BY <1>1, <2>1, SMTT(30)
  <2>2. CASE ~(i <= n - m)
    <3>1. i - (n - m) \in 1 .. p - n /\ n + (i - (n - m)) = m + i
      BY <2>2
    <3>2. PICK k : k = i - (n - m)
      OBVIOUS
    <3>3. k \in 1 .. Len(z) /\ i = Len(a) + k /\ n + k = m + i
      BY <1>1, <3>1, <3>2
    <3>4. (a \o z)[i] = z[k]
      BY <1>1, <3>3, Joined
    <3> QED BY <1>1, <3>3, <3>4
  <2> QED BY <2>1, <2>2, Zenon
<1> QED BY <1>1, <1>2, <1>3, Alike DEF a, z, e

LEMMA CutOfCut ==
    ASSUME NEW S, NEW s \in Seq(S), NEW m \in Nat, NEW n \in Nat, NEW i \in Nat, NEW j \in Nat,
           m <= n, n <= Len(s), i <= j, j <= n - m
    PROVE  SubSeq(SubSeq(s, m + 1, n), i + 1, j) = SubSeq(s, m + i + 1, m + j)
<1> DEFINE a == SubSeq(s, m + 1, n)
           z == SubSeq(a, i + 1, j)
           e == SubSeq(s, m + i + 1, m + j)
<1>1. a \in Seq(S) /\ Len(a) = n - m /\ \A k \in 1 .. n - m : a[k] = s[m + k]
  BY Cut
<1> HIDE DEF a
<1>2. z \in Seq(S) /\ Len(z) = j - i /\ \A k \in 1 .. j - i : z[k] = a[i + k]
  BY <1>1, Cut
<1>3. e \in Seq(S) /\ Len(e) = j - i /\ \A k \in 1 .. j - i : e[k] = s[m + i + k]
  BY Cut
<1> HIDE DEF z, e
<1>4. \A k \in 1 .. j - i : z[k] = e[k]
  BY <1>1, <1>2, <1>3
<1> QED BY <1>2, <1>3, <1>4, Alike, Zenon DEF a, z, e

----------------------------------------------------------------------------
\* The tokens of the request.
N == Len(Content)

Words == Text \cup {"bound", "ary", "crlf", "disposition", "--", "request", "length"}

\* A sequence whose elements are in S.
LEMMA Elements ==
    ASSUME NEW T, NEW S, NEW s \in Seq(T), \A i \in 1 .. Len(s) : s[i] \in S
    PROVE  s \in Seq(S)
OBVIOUS

LEMMA JoinedAt ==
    ASSUME NEW S, NEW s \in Seq(S), NEW t \in Seq(S), NEW x, x = s \o t
    PROVE  /\ x \in Seq(S) /\ Len(x) = Len(s) + Len(t)
           /\ \A i \in 1 .. Len(s) + Len(t) : x[i] = IF i <= Len(s) THEN s[i] ELSE t[i - Len(s)]
OBVIOUS

LEMMA HeadIs ==
    /\ PartHead \in Seq(Words) /\ Len(PartHead) = 6
    /\ PartHead[1] = "bound" /\ PartHead[2] = "ary" /\ PartHead[3] = "crlf"
    /\ PartHead[4] = "disposition" /\ PartHead[5] = "crlf" /\ PartHead[6] = "crlf"
<1> DEFINE a == <<"bound", "ary">>
           z == <<"crlf", "disposition", "crlf", "crlf">>
<1>1. a \in Seq(Words) /\ z \in Seq(Words)
  BY DEF Words
<1>2. /\ Len(a) = 2 /\ a[1] = "bound" /\ a[2] = "ary"
      /\ Len(z) = 4 /\ z[1] = "crlf" /\ z[2] = "disposition" /\ z[3] = "crlf" /\ z[4] = "crlf"
  OBVIOUS
<1>3. PartHead = a \o z
  BY DEF PartHead, Boundary
<1> HIDE DEF a, z
<1>4. /\ PartHead \in Seq(Words) /\ Len(PartHead) = Len(a) + Len(z)
      /\ \A i \in 1 .. Len(a) + Len(z) :
            PartHead[i] = IF i <= Len(a) THEN a[i] ELSE z[i - Len(a)]
  BY <1>1, <1>3, JoinedAt
<1> QED BY <1>2, <1>4

LEMMA EndIs ==
    /\ EndBoundary \in Seq(Words) /\ Len(EndBoundary) = 3
    /\ EndBoundary[1] = "bound" /\ EndBoundary[2] = "ary" /\ EndBoundary[3] = "--"
<1> DEFINE a == <<"bound", "ary">>
           z == <<"--">>
<1>1. a \in Seq(Words) /\ z \in Seq(Words)
  BY DEF Words
<1>2. Len(a) = 2 /\ a[1] = "bound" /\ a[2] = "ary" /\ Len(z) = 1 /\ z[1] = "--"
  OBVIOUS
<1>3. EndBoundary = a \o z
  BY DEF EndBoundary, Boundary
<1> HIDE DEF a, z
<1>4. /\ EndBoundary \in Seq(Words) /\ Len(EndBoundary) = Len(a) + Len(z)
      /\ \A i \in 1 .. Len(a) + Len(z) :
            EndBoundary[i] = IF i <= Len(a) THEN a[i] ELSE z[i - Len(a)]
  BY <1>1, <1>3, JoinedAt
<1> QED BY <1>2, <1>4

LEMMA BodyIs ==
           /\ Body \in Seq(Words) /\ Len(Body) = N + 11 /\ N \in Nat
           /\ Body[1] = "bound" /\ Body[2] = "ary" /\ Body[3] = "crlf"
           /\ Body[4] = "disposition" /\ Body[5] = "crlf" /\ Body[6] = "crlf"
           /\ \A i \in 1 .. N : Body[6 + i] = Content[i]
           /\ Body[N + 7] = "crlf" /\ Body[N + 8] = "bound" /\ Body[N + 9] = "ary"
           /\ Body[N + 10] = "--" /\ Body[N + 11] = "crlf"
<1>1. PICK h, e, l : h = PartHead /\ e = EndBoundary /\ l = <<"crlf">>
  BY Zenon
<1>2. PICK w, x, y : w = h \o Content /\ x = w \o l /\ y = x \o e
  BY Zenon
<1>3. Body = y \o l
  BY <1>1, <1>2 DEF Body
<1>4. h \in Seq(Words) /\ e \in Seq(Words) /\ l \in Seq(Words) /\ Content \in Seq(Words)
  <2>1. Content \in Seq(STRING)
    BY UploadAssumption
  <2>2. \A i \in 1 .. Len(Content) : Content[i] \in Words
    BY DEF Words, Text
  <2>3. Content \in Seq(Words)
    BY <2>1, <2>2, Elements
  <2>4. l \in Seq(Words)
    BY <1>1 DEF Words
  <2> QED BY <1>1, <2>3, <2>4, HeadIs, EndIs
<1>5. /\ w \in Seq(Words) /\ Len(w) = Len(h) + N /\ N \in Nat
      /\ \A i \in 1 .. Len(h) + N : w[i] = IF i <= Len(h) THEN h[i] ELSE Content[i - Len(h)]
  <2>1. /\ w \in Seq(Words) /\ Len(w) = Len(h) + Len(Content)
        /\ \A i \in 1 .. Len(h) + Len(Content) :
              w[i] = IF i <= Len(h) THEN h[i] ELSE Content[i - Len(h)]
    BY <1>2, <1>4, JoinedAt
  <2> QED BY <1>4, <2>1 DEF N
<1>6. /\ x \in Seq(Words) /\ Len(x) = Len(w) + Len(l)
      /\ \A i \in 1 .. Len(w) + Len(l) : x[i] = IF i <= Len(w) THEN w[i] ELSE l[i - Len(w)]
  <2>1. w \in Seq(Words)
    BY <1>5
  <2> QED BY <1>2, <1>4, <2>1, JoinedAt
<1>7. /\ y \in Seq(Words) /\ Len(y) = Len(x) + Len(e)
      /\ \A i \in 1 .. Len(x) + Len(e) : y[i] = IF i <= Len(x) THEN x[i] ELSE e[i - Len(x)]
  BY <1>2, <1>4, <1>6, JoinedAt
<1>8. /\ Body \in Seq(Words) /\ Len(Body) = Len(y) + Len(l)
      /\ \A i \in 1 .. Len(y) + Len(l) : Body[i] = IF i <= Len(y) THEN y[i] ELSE l[i - Len(y)]
  BY <1>3, <1>4, <1>7, JoinedAt, SMTT(30)
<1>9. /\ Len(h) = 6 /\ h[1] = "bound" /\ h[2] = "ary" /\ h[3] = "crlf"
      /\ h[4] = "disposition" /\ h[5] = "crlf" /\ h[6] = "crlf"
      /\ Len(e) = 3 /\ e[1] = "bound" /\ e[2] = "ary" /\ e[3] = "--"
      /\ Len(l) = 1 /\ l[1] = "crlf"
  BY <1>1, HeadIs, EndIs
<1>10. Len(w) = N + 6 /\ Len(x) = N + 7 /\ Len(y) = N + 10 /\ Len(Body) = N + 11
  <2>1. Len(w) = 6 + N /\ N \in Nat
    BY <1>5, <1>9
  <2>2. Len(x) = Len(w) + 1
    BY <1>6, <1>9
  <2>3. Len(y) = Len(x) + 3
    BY <1>7, <1>9
  <2>4. Len(Body) = Len(y) + 1
    BY <1>8, <1>9
  <2> QED BY <2>1, <2>2, <2>3, <2>4
<1>11. \A i \in 1 .. N + 6 : Body[i] = w[i]
  <2> TAKE i \in 1 .. N + 6
  <2>1. /\ i \in 1 .. (N + 6) + 1 /\ i \in 1 .. (N + 7) + 3 /\ i \in 1 .. (N + 10) + 1
        /\ i <= N + 6 /\ i <= N + 7 /\ i <= N + 10
    BY <1>5
  <2>2. Body[i] = y[i] /\ y[i] = x[i] /\ x[i] = w[i]
    BY <1>6, <1>7, <1>8, <1>9, <1>10, <2>1, Zenon
  <2> QED BY <2>2
<1>12. /\ \A i \in 1 .. 6 : Body[i] = h[i]
       /\ \A i \in 1 .. N : Body[6 + i] = Content[i]
  BY <1>5, <1>9, <1>11
<1>13. Body[N + 7] = l[1] /\ Body[N + 11] = l[1]
  BY <1>5, <1>6, <1>7, <1>8, <1>9, <1>10
<1>14. Body[N + 8] = e[1] /\ Body[N + 9] = e[2] /\ Body[N + 10] = e[3]
  BY <1>5, <1>7, <1>8, <1>9, <1>10
<1> QED BY <1>5, <1>8, <1>9, <1>10, <1>12, <1>13, <1>14

LEMMA RequestIs ==
           /\ Request \in Seq(Words) /\ Len(Request) = N + 16 /\ Len(ReqHead) = 5
           /\ Request[1] = "request" /\ Request[2] = "crlf" /\ Request[3] = "length"
           /\ Request[4] = "crlf" /\ Request[5] = "crlf"
           /\ \A i \in 1 .. N + 11 : Request[5 + i] = Body[i]
<1>1. PICK h : h = ReqHead
  OBVIOUS
<1>2. h \in Seq(Words)
  BY <1>1 DEF ReqHead, Words
<1>3. /\ Len(h) = 5 /\ h[1] = "request" /\ h[2] = "crlf" /\ h[3] = "length"
      /\ h[4] = "crlf" /\ h[5] = "crlf"
  BY <1>1 DEF ReqHead
<1>4. Body \in Seq(Words)
  BY BodyIs
<1>5. Request = h \o Body
  BY <1>1 DEF Request
<1>6. /\ Request \in Seq(Words) /\ Len(Request) = Len(h) + Len(Body)
      /\ \A i \in 1 .. Len(h) + Len(Body) :
            Request[i] = IF i <= Len(h) THEN h[i] ELSE Body[i - Len(h)]
  BY <1>2, <1>4, <1>5, JoinedAt
<1>7. Len(Body) = N + 11 /\ N \in Nat
  BY BodyIs
<1>8. /\ Len(Request) = N + 16
      /\ \A i \in 1 .. N + 16 : Request[i] = IF i <= 5 THEN h[i] ELSE Body[i - 5]
  BY <1>3, <1>6, <1>7
<1>9. \A i \in 1 .. 5 : Request[i] = h[i]
  BY <1>7, <1>8
<1>10. \A i \in 1 .. N + 11 : Request[5 + i] = Body[i]
  <2> TAKE i \in 1 .. N + 11
  <2>1. 5 + i \in 1 .. N + 16 /\ ~(5 + i <= 5) /\ (5 + i) - 5 = i
    BY <1>7
  <2> QED BY <1>8, <2>1
<1> QED BY <1>1, <1>3, <1>6, <1>8, <1>9, <1>10

\* A part of the request behind its head is a part of the body.
LEMMA BodyPart ==
    ASSUME NEW m \in Nat, NEW n \in Nat, m <= n, n <= N + 11
    PROVE  SubSeq(Request, 5 + m + 1, 5 + n) = SubSeq(Body, m + 1, n)
<1>1. PICK r, d : r = Request /\ d = Body
  OBVIOUS
<1>2. /\ r \in Seq(Words) /\ Len(r) = N + 16 /\ d \in Seq(Words) /\ Len(d) = N + 11
      /\ N \in Nat /\ \A i \in 1 .. N + 11 : r[5 + i] = d[i]
  BY <1>1, RequestIs, BodyIs
<1>3. PICK x, y : x = SubSeq(r, (5 + m) + 1, 5 + n) /\ y = SubSeq(d, m + 1, n)
  BY Zenon
<1>4. 5 + m \in Nat /\ 5 + n \in Nat /\ 5 + m <= 5 + n /\ 5 + n <= N + 16
  BY <1>2
<1>5. /\ x \in Seq(Words) /\ Len(x) = (5 + n) - (5 + m)
      /\ \A i \in 1 .. (5 + n) - (5 + m) : x[i] = r[(5 + m) + i]
  <2>1. r \in Seq(Words) /\ 5 + n <= Len(r)
    BY <1>2, <1>4
  <2>2. PICK j, k : j = 5 + m /\ k = 5 + n
    OBVIOUS
  <2>3. j \in Nat /\ k \in Nat /\ j <= k /\ k <= Len(r)
    BY <1>4, <2>1, <2>2
  <2>4. /\ SubSeq(r, j + 1, k) \in Seq(Words) /\ Len(SubSeq(r, j + 1, k)) = k - j
        /\ \A i \in 1 .. k - j : SubSeq(r, j + 1, k)[i] = r[j + i]
    BY <2>1, <2>3, Cut
  <2> QED BY <1>3, <2>2, <2>4
<1>6. y \in Seq(Words) /\ Len(y) = n - m /\ \A i \in 1 .. n - m : y[i] = d[m + i]
  BY <1>2, <1>3, Cut, SMTT(30)
<1>7. Len(x) = n - m /\ \A i \in 1 .. n - m : x[i] = r[5 + (m + i)]
  <2>1. (5 + n) - (5 + m) = n - m /\ \A i \in 1 .. n - m : (5 + m) + i = 5 + (m + i)
    OBVIOUS
  <2>2. \A i \in 1 .. n - m : x[i] = r[(5 + m) + i]
    BY <1>5, <2>1
  <2> QED BY <1>5, <2>1, <2>2
<1>8. \A i \in 1 .. n - m : x[i] = y[i]
  <2> TAKE i \in 1 .. n - m
  <2>1. m + i \in 1 .. N + 11
    BY <1>2
  <2> QED BY <1>2, <1>6, <1>7, <2>1
<1>9. x = y
  BY <1>5, <1>6, <1>7, <1>8, Alike
<1> QED BY <1>1, <1>3, <1>9

----------------------------------------------------------------------------
\* std::string::find.
LEMMA LeastExists ==
    ASSUME NEW T \in SUBSET Nat, T # {}
    PROVE  \E x \in T : \A y \in T : x <= y
<1> DEFINE R == OpToRel(<, Nat)
<1>1. IsWellFoundedOn(R, Nat)
  BY NatLessThanWellFounded, Zenon
<1>2. \E x \in T : \A y \in T : ~(<<y, x>> \in R)
  <2> HIDE DEF R
  <2> QED BY <1>1, WFMin, Zenon
<1>3. \A x, y \in T : ~(<<y, x>> \in R) => x <= y
  BY DEF OpToRel
<1> QED BY <1>2, <1>3, Zenon

\* It returns a place in s, or npos.
LEMMA FindRange ==
    ASSUME NEW s, NEW p, NEW i \in Nat, i >= 1, Len(s) \in Nat, Len(p) \in Nat
    PROVE  \/ FindFrom(s, p, i) = 0
           \/ FindFrom(s, p, i) \in i .. Len(s) - Len(p) + 1
<1> DEFINE found == {j \in i .. Len(s) - Len(p) + 1 : SubSeq(s, j, j + Len(p) - 1) = p}
<1>1. found \in SUBSET Nat /\ \A j \in found : j \in i .. Len(s) - Len(p) + 1
  OBVIOUS
<1>2. FindFrom(s, p, i) = IF found = {} THEN 0
                            ELSE CHOOSE j \in found : \A k \in found : j <= k
  BY DEF FindFrom
<1> HIDE DEF found
<1>3. CASE found = {}
  BY <1>2, <1>3
<1>4. CASE found # {}
  <2>1. \E j \in found : \A k \in found : j <= k
    BY <1>1, <1>4, LeastExists
  <2>2. (CHOOSE j \in found : \A k \in found : j <= k) \in found
    BY <2>1
  <2> QED BY <1>1, <1>2, <1>4, <2>2, Zenon
<1> QED BY <1>3, <1>4

LEMMA FindNone ==
    ASSUME NEW s, NEW p, NEW i,
           \A j \in i .. Len(s) - Len(p) + 1 : SubSeq(s, j, j + Len(p) - 1) # p
    PROVE  FindFrom(s, p, i) = 0
BY Zenon DEF FindFrom

\* p comes first at j of s.
FirstAt(s, p, j) == /\ j \in Nat /\ Len(s) \in Nat /\ Len(p) \in Nat
                    /\ j \in 1 .. Len(s) - Len(p) + 1 /\ SubSeq(s, j, j + Len(p) - 1) = p
                    /\ \A k \in 1 .. j - 1 : SubSeq(s, k, k + Len(p) - 1) # p

LEMMA FindFirst ==
    ASSUME NEW s, NEW p, NEW j, FirstAt(s, p, j)
    PROVE  Find(s, p) = j
<1> DEFINE found == {k \in 1 .. Len(s) - Len(p) + 1 : SubSeq(s, k, k + Len(p) - 1) = p}
<1>1. j \in found /\ \A k \in found : k \in Nat /\ j <= k
  <2>1. j \in found
    BY DEF FirstAt
  <2>2. ASSUME NEW k \in found
        PROVE  k \in Nat /\ j <= k
    <3>1. k \in 1 .. Len(s) - Len(p) + 1 /\ SubSeq(s, k, k + Len(p) - 1) = p
      OBVIOUS
    <3>2. k \in Nat /\ k \notin 1 .. j - 1
      BY <3>1 DEF FirstAt
    <3> QED BY <3>1, <3>2 DEF FirstAt
  <2> QED BY <2>1, <2>2, Zenon
<1>2. Find(s, p) = IF found = {} THEN 0
                     ELSE CHOOSE l \in found : \A k \in found : l <= k
  BY DEF Find, FindFrom
<1> HIDE DEF found
<1>3. PICK l : l = CHOOSE m \in found : \A k \in found : m <= k
  OBVIOUS
<1>4. l \in found /\ \A k \in found : l <= k
  BY <1>1, <1>3
<1>5. l = j
  BY <1>1, <1>4 DEF FirstAt
<1> QED BY <1>1, <1>2, <1>3, <1>5
\* The first place of one token.
LEMMA FindToken ==
    ASSUME NEW S, NEW s \in Seq(S), NEW t, NEW p, p = <<t>>, NEW j, j = Find(s, p)
    PROVE  \/ j = 0
           \/ /\ j \in 1 .. Len(s) /\ s[j] = t
              /\ \A k \in 1 .. j - 1 : s[k] # t
<1>1. p = <<t>>
  OBVIOUS
<1>2. Len(p) = 1 /\ p[1] = t
  BY <1>1
<1>3. \A k \in 1 .. Len(s) : SubSeq(s, k, k) = p <=> s[k] = t
  <2> TAKE k \in 1 .. Len(s)
  <2>1. PICK q : q = SubSeq(s, k, k)
    BY Zenon
  <2>2. q \in Seq(S) /\ Len(q) = 1 /\ q[1] = s[k]
    BY <2>1
  <2>3. q \in Seq(S \cup {t}) /\ p \in Seq(S \cup {t})
    BY <1>1, <2>2, Elements
  <2>4. q[1] = t => q = p
    BY <1>2, <2>2, <2>3, Alike
  <2> QED BY <1>2, <2>1, <2>2, <2>4, Zenon
<1> DEFINE found == {k \in 1 .. Len(s) - Len(p) + 1 : SubSeq(s, k, k + Len(p) - 1) = p}
<1>4. j = IF found = {} THEN 0 ELSE CHOOSE k \in found : \A l \in found : k <= l
  BY <1>1 DEF Find, FindFrom
<1>5. \A k : k \in found <=> k \in 1 .. Len(s) /\ s[k] = t
  <2> TAKE k
  <2>1. Len(s) - Len(p) + 1 = Len(s) /\ (k \in 1 .. Len(s) => k + Len(p) - 1 = k)
    BY <1>2
  <2> QED BY <1>3, <2>1
<1> HIDE DEF found
<1>6. CASE found = {}
  BY <1>4, <1>6
<1>7. CASE found # {}
  <2>1. found \in SUBSET Nat
    BY <1>5
  <2>2. \E k \in found : \A l \in found : k <= l
    BY <1>7, <2>1, LeastExists
  <2>3. j \in found /\ \A l \in found : j <= l
    BY <1>4, <1>7, <2>2
  <2>4. \A k \in 1 .. j - 1 : s[k] # t
    <3> SUFFICES ASSUME NEW k \in 1 .. j - 1, s[k] = t PROVE FALSE
      OBVIOUS
    <3>1. j \in 1 .. Len(s)
      BY <1>5, <2>3
    <3>2. k \in 1 .. Len(s) /\ k < j
      BY <3>1
    <3>3. k \in found
      BY <1>5, <3>2
    <3> QED BY <2>3, <3>1, <3>2, <3>3
  <2> QED BY <1>5, <2>3, <2>4
<1> QED BY <1>6, <1>7

----------------------------------------------------------------------------
\* Tokens.
LEMMA Tokens ==
           Request \in Seq(Token) /\ Body \in Seq(Token)
<1>1. Request \in Seq(Words) /\ Body \in Seq(Words) /\ N \in Nat
      /\ Len(Request) = N + 16 /\ Len(Body) = N + 11
  BY RequestIs, BodyIs
<1>2. \A i \in 1 .. Len(Request) : Request[i] \in Token
  BY DEF Token
<1>3. \A i \in 1 .. Len(Body) : Body[i] \in Token
  <2> TAKE i \in 1 .. Len(Body)
  <2>1. 5 + i \in 1 .. Len(Request) /\ i \in 1 .. N + 11
    BY <1>1
  <2>2. Request[5 + i] = Body[i]
    BY <2>1, RequestIs
  <2> QED BY <1>2, <2>1, <2>2
<1> QED BY <1>1, <1>2, <1>3, Elements

\* The content's tokens name their places.
Named == /\ \A i, j \in 1 .. N : Content[i] = Content[j] => i = j
         /\ "crlf" \notin Text

LEMMA PlaceInBody ==
    ASSUME Named, NEW m \in 1 .. Len(Body), Body[m] \in Text
    PROVE  Place(Body[m]) = m - 6 /\ m - 6 \in 1 .. N
<1>1. N \in Nat /\ Len(Body) = N + 11
  BY BodyIs
<1>2. Text = {Content[i] : i \in 1 .. N}
  BY DEF Text, N
<1>3. \A t \in Text : t \notin {"bound", "ary", "--", "request", "length", "disposition"}
  BY UploadAssumption DEF Text
<1>4. m \in 7 .. N + 6
  <2> SUFFICES ASSUME m \notin 7 .. N + 6 PROVE FALSE
    OBVIOUS
  <2>1. m \in {1, 2, 3, 4, 5, 6} \/ m \in {N + 7, N + 8, N + 9, N + 10, N + 11}
    BY <1>1
  <2>2. Body[m] \in {"bound", "ary", "crlf", "disposition", "--"}
    BY <2>1, BodyIs
  <2> QED BY <1>3, <2>2 DEF Named
<1>5. PICK i : i = m - 6
  OBVIOUS
<1>6. i \in 1 .. N /\ m = 6 + i
  BY <1>1, <1>4, <1>5
<1>7. Body[m] = Content[i]
  BY <1>6, BodyIs
<1>8. \A k \in 1 .. N : Content[k] = Content[i] => k = i
  BY <1>6 DEF Named
<1>9. (CHOOSE k \in 1 .. N : Content[k] = Content[i]) = i
  BY <1>6, <1>8
<1> QED BY <1>5, <1>6, <1>7, <1>9 DEF Place, N
----------------------------------------------------------------------------
\* The order of what is stored.  A store d, its tokens in order and up to k.
Ordered(d) ==
    \A f, g \in 1 .. Len(d) : \A i \in 1 .. Len(d[f]), j \in 1 .. Len(d[g]) :
       /\ f < g \/ (f = g /\ i < j)
       /\ d[f][i] \in Text /\ d[g][j] \in Text
       => Place(d[f][i]) < Place(d[g][j])

UpTo(d, k) ==
    \A f \in 1 .. Len(d) : \A i \in 1 .. Len(d[f]) :
       d[f][i] \in Text => Place(d[f][i]) <= k

Rising(p, k, l) ==
    /\ \A i \in 1 .. Len(p) : p[i] \in Text => Place(p[i]) \in k + 1 .. l
    /\ \A i, j \in 1 .. Len(p) : i < j /\ p[i] \in Text /\ p[j] \in Text
                                 => Place(p[i]) < Place(p[j])

\* A place is a number.
LEMMA PlaceIs ==
    ASSUME N \in Nat, NEW t \in Text
    PROVE  Place(t) \in 1 .. N
BY DEF Text, Place, N

\* A new file.
LEMMA NewFile ==
    ASSUME NEW S, NEW d \in Seq(Seq(S)), NEW k \in Int, Ordered(d), UpTo(d, k),
           NEW e, e = Append(d, <<>>)
    PROVE  /\ e \in Seq(Seq(S)) /\ Len(e) = Len(d) + 1 /\ e[Len(e)] = <<>>
           /\ \A f \in 1 .. Len(d) : e[f] = d[f]
           /\ Ordered(e) /\ UpTo(e, k)
<1>1. <<>> \in Seq(S)
  OBVIOUS
<1>2. e \in Seq(Seq(S)) /\ Len(e) = Len(d) + 1
  BY <1>1
<1>3. e[Len(e)] = <<>> /\ \A f \in 1 .. Len(d) : e[f] = d[f]
  BY <1>1, <1>2
<1>4. \A f \in 1 .. Len(e) : \A i \in 1 .. Len(e[f]) : f \in 1 .. Len(d) /\ e[f] = d[f]
  <2> TAKE f \in 1 .. Len(e)
  <2> TAKE i \in 1 .. Len(e[f])
  <2>1. CASE f = Len(e)
    <3>1. Len(e[f]) = 0
      BY <1>3, <2>1
    <3> QED BY <3>1
  <2>2. CASE f # Len(e)
    BY <1>2, <1>3, <2>2
  <2> QED BY <2>1, <2>2
<1>5. Ordered(e)
  BY <1>4 DEF Ordered
<1>6. UpTo(e, k)
  BY <1>4 DEF UpTo
<1> QED BY <1>2, <1>3, <1>5, <1>6

\* A piece written at the end of the last file.
LEMMA Extend ==
    ASSUME NEW S, NEW d \in Seq(Seq(S)), NEW p \in Seq(S), NEW n, n = Len(d), n >= 1,
           NEW e, e = [d EXCEPT ![n] = @ \o p]
    PROVE  /\ e \in Seq(Seq(S)) /\ Len(e) = n /\ e[n] = d[n] \o p
           /\ d[n] \in Seq(S) /\ Len(e[n]) = Len(d[n]) + Len(p)
           /\ \A f \in 1 .. n : f # n => e[f] = d[f]
<1>1. PICK w, x : w = d[n] /\ x = w \o p
  BY Zenon
<1>2. n \in Nat /\ n \in 1 .. n /\ w \in Seq(S)
  BY <1>1
<1>3. x \in Seq(S) /\ Len(x) = Len(w) + Len(p)
  BY <1>1, <1>2, JoinedAt
<1>4. /\ e \in Seq(Seq(S)) /\ Len(e) = n /\ e[n] = x
      /\ \A f \in 1 .. n : f # n => e[f] = d[f]
  <2>1. e = [d EXCEPT ![n] = x]
    BY <1>1
  <2>2. x \in Seq(S)
    BY <1>3
  <2> QED BY <1>1, <1>2, <2>1, <2>2
<1> QED BY <1>1, <1>2, <1>3, <1>4

Put(d, p) == [d EXCEPT ![Len(d)] = @ \o p]

LEMMA Write ==
    ASSUME N \in Nat, NEW S, NEW d \in Seq(Seq(S)), NEW p \in Seq(S),
           NEW k \in Int, NEW l \in Int, k <= l, Len(d) >= 1,
           Ordered(d), UpTo(d, k), Rising(p, k, l)
    PROVE  Ordered(Put(d, p)) /\ UpTo(Put(d, p), l)
<1> DEFINE e == Put(d, p)
           n == Len(d)
<1>0. PICK w, x : w = d[n] /\ x = w \o p
  BY Zenon
<1>1. e = [d EXCEPT ![n] = @ \o p] /\ n = Len(d) /\ n >= 1
  BY DEF Put
<1> HIDE DEF e, n
<1>2. n \in Nat /\ n \in 1 .. n /\ w \in Seq(S)
  BY <1>1, <1>0
<1>3. /\ x \in Seq(S) /\ Len(x) = Len(w) + Len(p)
      /\ \A i \in 1 .. Len(w) + Len(p) : x[i] = IF i <= Len(w) THEN w[i] ELSE p[i - Len(w)]
  BY <1>0, <1>2, JoinedAt
<1>4. /\ Len(e) = n /\ e[n] = x
      /\ \A f \in 1 .. n : f # n => e[f] = d[f]
  BY <1>1, <1>0, Extend
<1>5. Len(w) \in Nat /\ Len(p) \in Nat
  BY <1>2
\* A token of the new store is an old one at its place or one of the piece.
<1>6. ASSUME NEW f \in 1 .. n, NEW i \in 1 .. Len(e[f])
      PROVE  \/ i \in 1 .. Len(d[f]) /\ e[f][i] = d[f][i]
             \/ f = n /\ i - Len(w) \in 1 .. Len(p) /\ e[f][i] = p[i - Len(w)]
  <2>1. CASE f # n
    BY <1>4, <2>1
  <2>2. CASE f = n /\ i <= Len(w)
    BY <1>0, <1>3, <1>4, <1>5, <2>2
  <2>3. CASE f = n /\ ~(i <= Len(w))
    <3>1. i \in 1 .. Len(w) + Len(p) /\ e[f] = x
      BY <1>3, <1>4, <2>3
    <3>2. i - Len(w) \in 1 .. Len(p)
      BY <1>5, <2>3, <3>1
    <3> QED BY <1>3, <2>3, <3>1, <3>2
  <2> QED BY <2>1, <2>2, <2>3
<1>7. UpTo(e, l)
  <2> SUFFICES ASSUME NEW f \in 1 .. n, NEW i \in 1 .. Len(e[f]), e[f][i] \in Text
               PROVE  Place(e[f][i]) <= l
    BY <1>4 DEF UpTo
  <2>1. Place(e[f][i]) \in Int
    BY PlaceIs
  <2>2. CASE i \in 1 .. Len(d[f]) /\ e[f][i] = d[f][i]
    BY <1>1, <2>1, <2>2 DEF UpTo
  <2>3. CASE i - Len(w) \in 1 .. Len(p) /\ e[f][i] = p[i - Len(w)]
    <3>1. Place(e[f][i]) \in k + 1 .. l
      BY <2>3 DEF Rising
    <3> QED BY <3>1
  <2> QED BY <1>6, <2>2, <2>3
<1>8. Ordered(e)
  <2> SUFFICES ASSUME NEW f \in 1 .. n, NEW g \in 1 .. n,
                      NEW i \in 1 .. Len(e[f]), NEW j \in 1 .. Len(e[g]),
                      f < g \/ (f = g /\ i < j), e[f][i] \in Text, e[g][j] \in Text
               PROVE  Place(e[f][i]) < Place(e[g][j])
    BY <1>4 DEF Ordered
  <2>1. Place(e[f][i]) \in Int /\ Place(e[g][j]) \in Int
    <3>1. Place(e[f][i]) \in 1 .. N
      BY PlaceIs, Zenon
    <3>2. Place(e[g][j]) \in 1 .. N
      BY PlaceIs, Zenon
    <3>3. 1 .. N \subseteq Int
      OBVIOUS
    <3> QED BY <3>1, <3>2, <3>3, Zenon
  <2>2. CASE j \in 1 .. Len(d[g]) /\ e[g][j] = d[g][j]
    <3>1. i \in 1 .. Len(d[f]) /\ e[f][i] = d[f][i]
      <4>1. CASE f < g
        BY <1>4, <4>1, <1>2, SMTT(30)
      <4>2. CASE f = g /\ i < j
        <5>1. i \in 1 .. Len(d[f])
          BY <2>2, <4>2
        <5>2. f = n => i <= Len(w)
          BY <1>0, <5>1
        <5> QED BY <1>6, <5>1, <5>2, <1>5
      <4> QED BY <4>1, <4>2
    <3> QED BY <1>1, <2>2, <3>1 DEF Ordered
  <2>3. CASE g = n /\ j - Len(w) \in 1 .. Len(p) /\ e[g][j] = p[j - Len(w)]
    <3>1. Place(e[g][j]) \in k + 1 .. l
      BY <2>3, Zenon DEF Rising
    <3>2. CASE i \in 1 .. Len(d[f]) /\ e[f][i] = d[f][i]
      <4>1. Place(e[f][i]) <= k
        BY <1>1, <3>2 DEF UpTo
      <4>2. PICK a, z : a = Place(e[f][i]) /\ z = Place(e[g][j])
        OBVIOUS
      <4>3. a \in Int /\ z \in k + 1 .. l /\ a <= k
        BY <2>1, <3>1, <4>1, <4>2
      <4>4. a < z
        BY <4>3
      <4> QED BY <4>2, <4>4
    <3>3. CASE f = n /\ i - Len(w) \in 1 .. Len(p) /\ e[f][i] = p[i - Len(w)]
      <4>1. i - Len(w) < j - Len(w)
        <5>1. i \in Int /\ j \in Int /\ Len(w) \in Int
          BY <1>5
        <5>2. f = g /\ ~(f < g)
          BY <1>2, <2>3, <3>3
        <5>3. i < j
          BY <5>2, Zenon
        <5> QED BY <5>1, <5>3
      <4> QED BY <2>3, <3>3, <4>1, Zenon DEF Rising
    <3> QED BY <1>6, <3>2, <3>3
  <2> QED BY <1>6, <2>2, <2>3
<1> QED BY <1>7, <1>8 DEF e
----------------------------------------------------------------------------
\* What a call writes is a part of the body it is called with.
PieceOf(p, s) == \E i, j \in 0 .. Len(s) : i <= j /\ p = SubSeq(s, i + 1, j)

LEMMA EmptyCut ==
    ASSUME NEW S, NEW s \in Seq(S), NEW m \in Int, NEW n \in Int, n < m
    PROVE  SubSeq(s, m, n) = <<>>
OBVIOUS

LEMMA WholeCut ==
    ASSUME NEW S, NEW s \in Seq(S)
    PROVE  SubSeq(s, 1, Len(s)) = s
OBVIOUS

LEMMA EmptyPiece ==
    ASSUME NEW S, NEW s \in Seq(S)
    PROVE  PieceOf(<<>>, s)
<1>1. SubSeq(s, 0 + 1, 0) = <<>>
  BY EmptyCut
<1>2. 0 \in 0 .. Len(s) /\ 0 <= 0
  OBVIOUS
<1> QED BY <1>1, <1>2 DEF PieceOf

LEMMA CutPiece ==
    ASSUME NEW S, NEW s \in Seq(S), NEW m \in Nat, NEW n \in Nat, m >= 1, n <= Len(s)
    PROVE  PieceOf(SubSeq(s, m, n), s)
<1>1. CASE n < m
  <2>1. SubSeq(s, m, n) = <<>>
    BY <1>1, EmptyCut
  <2> QED BY <2>1, EmptyPiece
<1>2. CASE ~(n < m)
  <2>1. PICK i : i = m - 1
    OBVIOUS
  <2>2. i \in 0 .. Len(s) /\ n \in 0 .. Len(s) /\ i <= n /\ m = i + 1
    BY <1>2, <2>1
  <2> QED BY <2>2 DEF PieceOf
<1> QED BY <1>1, <1>2

LEMMA WholePiece ==
    ASSUME NEW S, NEW s \in Seq(S)
    PROVE  PieceOf(s, s)
<1>1. Len(s) \in Nat
  OBVIOUS
<1>2. CASE Len(s) = 0
  <2>1. s = <<>>
    BY <1>2
  <2> QED BY <2>1, EmptyPiece, Zenon
<1>3. CASE Len(s) # 0
  <2>1. PieceOf(SubSeq(s, 1, Len(s)), s)
    BY <1>1, CutPiece
  <2> QED BY <2>1, WholeCut, Zenon
<1> QED BY <1>2, <1>3

\* The places that the handler looks for.
LEMMA FindPlaces ==
    ASSUME NEW S, NEW s \in Seq(S), NEW n \in Nat, n >= 1
    PROVE  /\ \/ FindFrom(s, <<"crlf", "crlf">>, n) = 0
              \/ FindFrom(s, <<"crlf", "crlf">>, n) \in n .. Len(s) - 1
           /\ Find(s, EndBoundary) = 0 \/ Find(s, EndBoundary) \in 1 .. Len(s) - 2
           /\ Find(s, Boundary) = 0 \/ Find(s, Boundary) \in 1 .. Len(s) - 1
<1>1. PICK l : l = Len(s)
  OBVIOUS
<1>2. l \in Nat
  BY <1>1
<1>3. ASSUME NEW p, NEW k \in Nat, Len(p) = k, k >= 1, NEW i \in Nat, i >= 1
      PROVE  FindFrom(s, p, i) = 0 \/ FindFrom(s, p, i) \in i .. l - k + 1
  BY <1>1, <1>2, <1>3, FindRange
<1>4. PICK e : e = EndBoundary
  OBVIOUS
<1>5. Len(<<"crlf", "crlf">>) = 2 /\ Len(Boundary) = 2 /\ Len(e) = 3
  BY <1>4, EndIs DEF Boundary
<1>6. /\ \/ FindFrom(s, <<"crlf", "crlf">>, n) = 0
         \/ FindFrom(s, <<"crlf", "crlf">>, n) \in n .. l - 2 + 1
      /\ FindFrom(s, e, 1) = 0 \/ FindFrom(s, e, 1) \in 1 .. l - 3 + 1
      /\ FindFrom(s, Boundary, 1) = 0 \/ FindFrom(s, Boundary, 1) \in 1 .. l - 2 + 1
  <2>1. 1 \in Nat /\ 2 \in Nat /\ 3 \in Nat /\ 1 >= 1 /\ 2 >= 1 /\ 3 >= 1
    OBVIOUS
  <2> QED BY <1>3, <1>5, <2>1, Zenon
<1>7. l - 2 + 1 = l - 1 /\ l - 3 + 1 = l - 2
  BY <1>2
<1> QED BY <1>1, <1>4, <1>6, <1>7 DEF Find

LEMMA PartIs ==
    /\ \A w, p, n : Part(w, p, n).piece = p /\ Part(w, p, n).next = n
                    /\ Part(w, p, n).writes = w
    /\ \A n : Nothing(n).piece = <<>> /\ Nothing(n).next = n
BY DEF Part, Nothing

LEMMA FirstPiece ==
    ASSUME NEW S, NEW s \in Seq(S)
    PROVE  PieceOf(FirstPart(s).piece, s)
<1>1. PICK pos, end : pos = Find(s, <<"crlf", "crlf">>) /\ end = Find(s, EndBoundary)
  OBVIOUS
<1>2. /\ pos = 0 \/ pos \in 1 .. Len(s) - 1
      /\ end = 0 \/ end \in 1 .. Len(s) - 2
  BY <1>1, FindPlaces DEF Find
<1>3. Len(s) \in Nat
  OBVIOUS
<1>4. FirstPart(s) =
        CASE pos = 0 -> Nothing("kExpectHeaders")
          [] pos > 0 /\ end > 0 ->
                Part(end > 1, SubSeq(s, pos + 2, end - 1), "kComplete")
          [] OTHER -> Part(pos + 1 < Len(s), Rest(s, pos + 1), "kExpectBoundary")
  BY <1>1 DEF FirstPart
<1>5. CASE pos = 0
  <2>1. FirstPart(s).piece = <<>>
    BY <1>4, <1>5 DEF Nothing, Part
  <2> QED BY <2>1, EmptyPiece
<1>6. CASE pos # 0 /\ end # 0
  <2>1. pos > 0 /\ end > 0 /\ pos + 2 \in Nat /\ pos + 2 >= 1 /\ end - 1 \in Nat
        /\ end - 1 <= Len(s)
    BY <1>2, <1>3, <1>6
  <2>2. FirstPart(s).piece = SubSeq(s, pos + 2, end - 1)
    BY <1>4, <1>6, <2>1 DEF Part
  <2> QED BY <2>1, <2>2, CutPiece
<1>7. CASE pos # 0 /\ end = 0
  <2>1. pos > 0 /\ ~(end > 0) /\ pos + 1 + 1 \in Nat /\ pos + 1 + 1 >= 1
    BY <1>2, <1>3, <1>7
  <2>2. FirstPart(s).piece = SubSeq(s, pos + 1 + 1, Len(s))
    BY <1>4, <1>7, <2>1 DEF Part, Rest
  <2> QED BY <1>3, <2>1, <2>2, CutPiece
<1> QED BY <1>5, <1>6, <1>7

LEMMA NextPiece ==
    ASSUME NEW S, NEW s \in Seq(S), NEW st
    PROVE  PieceOf(NextPart(st, s).piece, s)
<1>1. PICK pos, end : pos = Find(s, Boundary) /\ end = Find(s, EndBoundary)
  OBVIOUS
<1>2. /\ pos = 0 \/ pos \in 1 .. Len(s) - 1
      /\ end = 0 \/ end \in 1 .. Len(s) - 2
  BY <1>1, FindPlaces
<1>3. Len(s) \in Nat
  OBVIOUS
<1> DEFINE p == NextPart(st, s).piece
<1>4. \/ p = <<>> \/ p = s
      \/ end > 0 /\ p = SubSeq(s, 1, end - 1)
      \/ pos > 0 /\ p = SubSeq(s, 1, pos - 1)
  <2>1. CASE s = <<>>
    BY <2>1 DEF NextPart, Nothing, Part
  <2>2. CASE s # <<>> /\ st = "kExpectBoundary"
    <3>1. NextPart(st, s) =
            IF end > 0 THEN Part(end > 1, SubSeq(s, 1, end - 1), "kComplete")
            ELSE IF pos = 0 THEN Part(TRUE, s, st)
            ELSE IF FindFrom(s, <<"crlf", "crlf">>, pos) = 0 THEN Nothing(st)
            ELSE Part(pos > 1, SubSeq(s, 1, pos - 1), "kExpectContent")
      BY <1>1, <2>2 DEF NextPart
    <3>2. pos = 0 \/ pos > 0
      BY <1>2, <1>3
    <3>3. PICK w, n, q :
             /\ NextPart(st, s) = Part(w, q, n)
             /\ \/ q = <<>> \/ q = s
                \/ end > 0 /\ q = SubSeq(s, 1, end - 1)
                \/ pos > 0 /\ q = SubSeq(s, 1, pos - 1)
      BY <3>1, <3>2, Zenon DEF Nothing
    <3>4. p = q
      BY <3>3 DEF Part
    <3> QED BY <3>3, <3>4, Zenon
  <2>3. CASE s # <<>> /\ st = "kExpectContent"
    <3>1. NextPart(st, s) =
            IF pos > 0 THEN Part(TRUE, SubSeq(s, 1, pos - 1), "kExpectBoundary")
            ELSE Part(TRUE, s, st)
      BY <1>1, <2>3 DEF NextPart
    <3>2. PICK w, n, q :
             /\ NextPart(st, s) = Part(w, q, n)
             /\ q = s \/ (pos > 0 /\ q = SubSeq(s, 1, pos - 1))
      BY <3>1, Zenon
    <3>3. p = q
      BY <3>2 DEF Part
    <3> QED BY <3>2, <3>3, Zenon
  <2>4. CASE s # <<>> /\ st \notin {"kExpectBoundary", "kExpectContent"}
    BY <2>4 DEF NextPart, Nothing, Part
  <2> QED BY <2>1, <2>2, <2>3, <2>4
<1>5. ASSUME p = <<>> PROVE PieceOf(p, s)
  BY <1>5, EmptyPiece
<1>6. ASSUME p = s PROVE PieceOf(p, s)
  BY <1>6, WholePiece
<1>7. ASSUME NEW k, k = 0 \/ k \in 1 .. Len(s) - 1, k > 0, p = SubSeq(s, 1, k - 1)
      PROVE  PieceOf(p, s)
  <2>1. k - 1 \in Nat /\ k - 1 <= Len(s)
    BY <1>3, <1>7
  <2> QED BY <1>7, <2>1, CutPiece
<1>8. end = 0 \/ end \in 1 .. Len(s) - 1
  BY <1>2, <1>3
<1> HIDE DEF p
<1>9. PieceOf(p, s)
  BY <1>2, <1>4, <1>5, <1>6, <1>7, <1>8, Zenon
<1> QED BY <1>9 DEF p
----------------------------------------------------------------------------
(* The invariant.                                                          *)

\* Tokens of the body that a call has taken, or that were dropped with it.
Kept == received - Len(body)

\* Tokens of the request that parseRequest is done with.
Consumed ==
    IF state = "kExpectRequestLine" THEN 0
    ELSE IF state = "kExpectHeaders" THEN (IF length = 0 THEN 2 ELSE 4)
    ELSE 5 + received

\* inputBuffer_ holds what was read and not parsed, and the body what was
\* parsed of it and not taken by a call.
Parsing ==
    /\ Consumed <= at /\ buf = SubSeq(Request, Consumed + 1, at)
    /\ Len(body) <= received /\ body = SubSeq(Body, Kept + 1, received)
    /\ state = "kExpectRequestLine" => length = 0 /\ received = 0
    /\ state = "kExpectHeaders" => length \in {0, Len(Body)} /\ received = 0
    /\ state \in {"kExpectBody", "kGotAll"} => length = Len(Body)
    /\ state = "kExpectBody" => received < length
    /\ state = "kGotAll" => received = length /\ phase = "dispatch"
    /\ (result = "kGotRequest") <=> (state = "kGotAll")
    /\ phase = "dispatch" /\ result = "kHeadersComplete" => state = "kExpectBody"

ParserTypes ==
    /\ at \in 0 .. Len(Request) /\ buf \in Seq(Token)
    /\ phase \in {"idle", "parse", "dispatch"}
    /\ result \in {"kNeedMore", "kHeadersComplete", "kGotRequest"}
    /\ state \in {"kExpectRequestLine", "kExpectHeaders", "kExpectBody", "kGotAll"}
    /\ length \in Nat /\ received \in 0 .. length /\ body \in Seq(Token)

ParserInv ==
    /\ ParserTypes
    /\ conn = "open" => Parsing
    /\ conn = "closed" => phase = "idle"

\* n counts the m tokens stored, and what a flush has lost; n is a size that a
\* row may have for them.
Counts(n, m) == n >= m /\ (sc.mayFail \/ n = m)
Records(n, m) == n = m \/ (sc.mayFail /\ (n > m \/ n = 0))

\* A FileUploadContext has the last file, which no row stands for yet.
StoreInv ==
    /\ ctx.file \in 0 .. Len(disk) /\ ctx.total \in Nat /\ ctx.bad \in BOOLEAN
    /\ disk \in Seq(Seq(Token))
    /\ rows \in Seq([file : 1 .. Len(disk), size : Nat])
    /\ \A i \in 1 .. Len(rows) : Records(rows[i].size, Len(disk[rows[i].file]))
    /\ ctx # NoContext =>
          /\ ctx.file = Len(disk) /\ ctx.file >= 1
          /\ Counts(ctx.total, Len(disk[ctx.file])) \/ (sc.mayFail /\ ctx.bad)
          /\ \A i \in 1 .. Len(rows) : rows[i].file # ctx.file

RestTypes ==
    /\ sc \in Scenarios /\ session \in BOOLEAN
    /\ replies \in Seq({200, 401, 500}) /\ conn \in {"open", "closed"}

UploadInv == ParserInv /\ StoreInv /\ RestTypes

\* A write that throws may have stored some of the body that it leaves in place.
\* The context of such an upload never counts it: it has counted nothing and
\* ignores what follows, or the rest of the body holds something to write, which
\* throws again.
Behind(k) == k \in 1 .. N + 4 \/ k >= N + 9

ThrowInv ==
    /\ phase = "dispatch" /\ result = "kGotRequest" => body # <<>>
    /\ ctx # NoContext =>
          /\ ctx.state \in {"kExpectHeaders", "kExpectBoundary", "kExpectContent"}
          /\ ctx.state = "kExpectHeaders" => ctx.total = 0
          /\ ctx.state # "kExpectHeaders" => Kept >= 1
          /\ Counts(ctx.total, Len(disk[ctx.file])) \/ ctx.total = 0 \/ Behind(Kept)

\* What is stored is in order and comes from what was taken of the body, or,
\* once a write has thrown, from what was received of it.
Reach == IF ctx.bad THEN received ELSE Kept
OrderInv == Ordered(disk) /\ (conn = "open" => UpTo(disk, Reach - 6))

----------------------------------------------------------------------------
(* parseRequest, and the reads that feed it.                               *)

LEMMA BufIs ==
    ASSUME NEW m \in Nat, at \in Nat, m <= at, at <= N + 16,
           buf = SubSeq(Request, m + 1, at)
    PROVE  /\ buf \in Seq(Token) /\ Len(buf) = at - m
           /\ \A i \in 1 .. at - m : buf[i] = Request[m + i]
<1>1. PICK r : r = Request
  OBVIOUS
<1>2. r \in Seq(Token) /\ at <= Len(r)
  BY <1>1, Tokens, RequestIs
<1> QED BY <1>1, <1>2, Cut

LEMMA BufRest ==
    ASSUME NEW m \in Nat, at \in Nat, m <= at, at <= N + 16,
           buf = SubSeq(Request, m + 1, at), NEW n \in Nat, n <= at - m
    PROVE  Rest(buf, n) = SubSeq(Request, m + n + 1, at)
<1>1. PICK r : r = Request
  OBVIOUS
<1>2. r \in Seq(Token) /\ at <= Len(r)
  BY <1>1, Tokens, RequestIs
<1>3. Len(buf) = at - m
  BY BufIs
<1>4. PICK j : j = at - m
  OBVIOUS
<1>5. j \in Nat /\ n <= j /\ j <= at - m /\ m + j = at
  BY <1>4
<1>6. SubSeq(SubSeq(r, m + 1, at), n + 1, j) = SubSeq(r, m + n + 1, m + j)
  BY <1>2, <1>5, CutOfCut
<1> QED BY <1>1, <1>3, <1>4, <1>5, <1>6 DEF Rest

LEMMA CrlfFound ==
    ASSUME buf \in Seq(Token), CRLF # 0, NEW j, j = CRLF
    PROVE  j \in 1 .. Len(buf) /\ buf[j] = "crlf" /\ \A k \in 1 .. j - 1 : buf[k] # "crlf"
<1>1. PICK t, p : t = "crlf" /\ p = <<t>>
  BY Zenon
<1>2. j = Find(buf, p) /\ j # 0
  BY <1>1 DEF CRLF
<1>3. \/ j = 0
      \/ j \in 1 .. Len(buf) /\ buf[j] = t /\ \A k \in 1 .. j - 1 : buf[k] # t
  BY <1>1, <1>2, FindToken
<1> QED BY <1>1, <1>2, <1>3

\* Where the lines of the head end.
LEMMA CrlfIs ==
    ASSUME NEW m \in {0, 2, 4}, at \in Nat, m <= at, at <= N + 16,
           buf = SubSeq(Request, m + 1, at), CRLF # 0
    PROVE  CRLF = (IF m = 4 THEN 1 ELSE 2) /\ m + CRLF <= at
<1>1. PICK j : j = CRLF
  OBVIOUS
<1>2. PICK r : r = Request
  OBVIOUS
<1>3. m \in Nat
  OBVIOUS
<1>4. buf \in Seq(Token)
  BY <1>3, BufIs
<1>5. Len(buf) = at - m /\ \A i \in 1 .. at - m : buf[i] = r[m + i]
  BY <1>2, <1>3, BufIs
<1>6. j \in 1 .. Len(buf) /\ buf[j] = "crlf" /\ \A k \in 1 .. j - 1 : buf[k] # "crlf"
  BY <1>1, <1>4, CrlfFound
<1>7. j \in 1 .. at - m /\ r[m + j] = "crlf" /\ \A k \in 1 .. j - 1 : r[m + k] # "crlf"
  <2>1. j \in 1 .. at - m
    BY <1>5, <1>6
  <2>2. \A k \in 1 .. j - 1 : k \in 1 .. at - m
    BY <1>3, <2>1
  <2> QED BY <1>5, <1>6, <2>1, <2>2, Zenon
<1>8. r[1] # "crlf" /\ r[2] = "crlf" /\ r[3] # "crlf" /\ r[4] = "crlf" /\ r[5] = "crlf"
  BY <1>2, RequestIs
<1>9. CASE m = 4
  <2>1. m + 1 = 5
    BY <1>9
  <2>2. ~(1 \in 1 .. j - 1)
    BY <1>7, <1>8, <2>1, Zenon
  <2> QED BY <1>1, <1>7, <1>9, <2>2
<1>10. CASE m = 0
  <2>1. ~(2 \in 1 .. j - 1) /\ j # 1
    BY <1>7, <1>8, <1>10
  <2> QED BY <1>1, <1>7, <1>10, <2>1
<1>11. CASE m = 2
  <2>1. m + 1 = 3 /\ m + 2 = 4
    BY <1>11
  <2>2. ~(2 \in 1 .. j - 1) /\ j # 1
    BY <1>7, <1>8, <2>1, Zenon
  <2> QED BY <1>1, <1>7, <1>11, <2>2
<1> QED BY <1>9, <1>10, <1>11

\* parseRequest runs for an open connection.
LEMMA Running ==
    ASSUME ParserInv, RestTypes, phase # "idle"
    PROVE  conn = "open" /\ Parsing
BY DEF ParserInv, RestTypes

LEMMA AtIs ==
    ASSUME ParserInv
    PROVE  /\ N \in Nat /\ Len(Body) = N + 11
           /\ at \in Nat /\ at <= N + 16 /\ length \in Nat /\ received \in 0 .. length
           /\ Len(body) \in Nat
<1>1. N \in Nat /\ Len(Request) = N + 16 /\ Len(Body) = N + 11
  BY RequestIs, BodyIs
<1>2. at \in 0 .. N + 16 /\ length \in Nat /\ received \in 0 .. length /\ body \in Seq(Token)
  BY <1>1 DEF ParserInv, ParserTypes
<1> QED BY <1>1, <1>2

LEMMA LineStep ==
    ASSUME UploadInv, ParseRequestLine
    PROVE  ParserInv' /\ Kept' = Kept
<1>1. /\ N \in Nat /\ Len(Body) = N + 11 /\ at \in Nat /\ at <= N + 16 /\ Len(body) \in Nat
  BY AtIs DEF UploadInv
<1>2. phase = "parse" /\ state = "kExpectRequestLine"
  BY DEF ParseRequestLine, Parses
<1>3. conn = "open" /\ Parsing /\ ParserTypes
  BY <1>2, Running DEF UploadInv, ParserInv
<1>4. Consumed = 0 /\ length = 0 /\ received = 0 /\ buf = SubSeq(Request, 0 + 1, at)
  BY <1>2, <1>3 DEF Parsing, Consumed
<1>5. UNCHANGED <<at, body, conn, length, received>>
  BY DEF ParseRequestLine, parseVars
<1>6. Kept' = Kept
  BY <1>5 DEF Kept
<1>7. CASE CRLF = 0
  <2>1. /\ phase' = "dispatch" /\ result' = "kNeedMore" /\ UNCHANGED <<buf, state>>
    BY <1>7 DEF ParseRequestLine, Returns, parseVars
  <2>2. ParserTypes'
    BY <1>3, <1>5, <2>1 DEF ParserTypes
  <2>3. Consumed' = Consumed
    BY <1>5, <2>1 DEF Consumed
  <2>4. Parsing'
    BY <1>2, <1>3, <1>5, <1>6, <2>1, <2>3, Zenon DEF Parsing
  <2> QED BY <1>3, <1>5, <1>6, <2>2, <2>4 DEF ParserInv
<1>8. CASE CRLF # 0
  <2>1. CRLF = 2 /\ 2 <= at
    BY <1>1, <1>4, <1>8, CrlfIs
  <2>2. /\ phase' = "parse" /\ result' = result /\ buf' = Rest(buf, 2)
        /\ state' = "kExpectHeaders"
    BY <1>8, <2>1 DEF ParseRequestLine, Goes
  <2>3. Rest(buf, 2) = SubSeq(Request, 0 + 2 + 1, at)
    <3>1. 0 \in Nat /\ 2 \in Nat /\ 0 <= at /\ 2 <= at - 0
      BY <1>1, <2>1
    <3> QED BY <1>1, <1>4, <3>1, BufRest, Zenon
  <2>4. buf' = SubSeq(Request, 2 + 1, at)
    BY <2>2, <2>3
  <2>5. Consumed' = 2
    BY <1>4, <1>5, <2>2 DEF Consumed
  <2>6. buf' \in Seq(Token)
    <3>1. Request \in Seq(Token) /\ Len(Request) = N + 16
      BY Tokens, RequestIs
    <3> QED BY <1>1, <2>1, <2>4, <3>1, Cut
  <2>7. ParserTypes'
    BY <1>3, <1>5, <2>2, <2>6 DEF ParserTypes
  <2>8. result # "kGotRequest"
    BY <1>2, <1>3 DEF Parsing
  <2>9. Parsing'
    BY <1>3, <1>4, <1>5, <1>6, <2>1, <2>2, <2>4, <2>5, <2>8, Zenon DEF Parsing
  <2> QED BY <1>3, <1>5, <1>6, <2>2, <2>7, <2>9 DEF ParserInv
<1> QED BY <1>7, <1>8

LEMMA HeaderStep ==
    ASSUME UploadInv, ProcessHeader
    PROVE  ParserInv' /\ Kept' = Kept
<1>1. /\ N \in Nat /\ Len(Body) = N + 11 /\ at \in Nat /\ at <= N + 16 /\ Len(body) \in Nat
  BY AtIs DEF UploadInv
<1>2. phase = "parse" /\ state = "kExpectHeaders" /\ CRLF # 0
  BY DEF ProcessHeader, Parses
<1>3. conn = "open" /\ Parsing /\ ParserTypes
  BY <1>2, Running DEF UploadInv, ParserInv
<1>4. PICK m : m = Consumed
  OBVIOUS
<1>5. /\ m = (IF length = 0 THEN 2 ELSE 4) /\ length \in {0, Len(Body)} /\ received = 0
      /\ m <= at /\ buf = SubSeq(Request, m + 1, at) /\ result # "kGotRequest"
  BY <1>2, <1>3, <1>4 DEF Parsing, Consumed
<1>6. m \in {0, 2, 4} /\ m \in Nat
  BY <1>5
<1>7. CRLF = (IF m = 4 THEN 1 ELSE 2) /\ m + CRLF <= at
  BY <1>1, <1>2, <1>5, <1>6, CrlfIs, Zenon
<1>8. PICK n : n = CRLF
  OBVIOUS
<1>9. n \in Nat /\ n <= at - m /\ n = (IF m = 4 THEN 1 ELSE 2)
  BY <1>1, <1>6, <1>7, <1>8
<1>10. buf' = SubSeq(Request, m + n + 1, at)
  <2>1. buf' = Rest(buf, n)
    BY <1>8 DEF ProcessHeader
  <2>2. Rest(buf, n) = SubSeq(Request, m + n + 1, at)
    BY <1>1, <1>5, <1>6, <1>9, BufRest, Zenon
  <2> QED BY <2>1, <2>2
<1>11. buf[1] = Request[m + 1]
  <2>1. \A i \in 1 .. at - m : buf[i] = Request[m + i]
    BY <1>1, <1>5, <1>6, BufIs
  <2>2. 1 \in 1 .. at - m
    BY <1>1, <1>6, <1>9
  <2> QED BY <2>1, <2>2
<1>12. UNCHANGED <<at, body, conn, received>>
  BY DEF ProcessHeader
<1>13. Kept' = Kept
  BY <1>12 DEF Kept
<1>14. buf' \in Seq(Token)
  <2>1. Request \in Seq(Token) /\ Len(Request) = N + 16
    BY Tokens, RequestIs
  <2>2. m + n \in Nat /\ m + n <= at /\ at <= Len(Request)
    BY <1>1, <1>6, <1>9, <2>1
  <2> QED BY <1>1, <1>10, <2>1, <2>2, Cut
<1>15. CASE length = 0
  <2>1. m = 2 /\ n = 2 /\ m + n = 4
    BY <1>5, <1>9, <1>15
  <2>2. buf[1] = "length"
    <3>1. m + 1 = 3
      BY <2>1
    <3> QED BY <1>11, <3>1, RequestIs
  <2>3. /\ length' = Len(Body) /\ phase' = "parse" /\ UNCHANGED <<result, state>>
    <3>1. CRLF > 1
      BY <1>8, <2>1
    <3> QED BY <2>2, <3>1 DEF ProcessHeader, Goes
  <2>4. Consumed' = 4 /\ 4 <= at
    BY <1>1, <1>2, <1>9, <2>1, <2>3 DEF Consumed
  <2>5. ParserTypes'
    BY <1>1, <1>3, <1>5, <1>12, <1>14, <2>3 DEF ParserTypes
  <2>6. buf' = SubSeq(Request, 4 + 1, at)
    BY <1>10, <2>1
  <2>7. Parsing'
    BY <1>2, <1>3, <1>5, <1>12, <1>13, <2>3, <2>4, <2>6, Zenon DEF Parsing
  <2> QED BY <1>3, <1>12, <1>13, <2>3, <2>5, <2>7 DEF ParserInv
<1>16. CASE length # 0
  <2>1. m = 4 /\ n = 1 /\ m + n = 5 /\ length = Len(Body)
    BY <1>5, <1>9, <1>16
  <2>2. buf[1] # "length"
    <3>1. m + 1 = 5
      BY <2>1
    <3> QED BY <1>11, <3>1, RequestIs
  <2>3. /\ length' = length /\ state' = "kExpectBody" /\ phase' \in {"parse", "dispatch"}
        /\ result' \in {result, "kHeadersComplete"}
    <3>1. ~(CRLF > 1)
      BY <1>8, <2>1
    <3> QED BY <1>16, <2>2, <3>1 DEF ProcessHeader, Goes, Returns
  <2>4. Consumed' = 5 /\ 5 <= at
    BY <1>1, <1>5, <1>9, <1>12, <2>1, <2>3 DEF Consumed
  <2>5. ParserTypes'
    BY <1>1, <1>3, <1>5, <1>12, <1>14, <2>3 DEF ParserTypes
  <2>6. buf' = SubSeq(Request, 5 + 1, at)
    BY <1>10, <2>1
  <2>7. received < length
    BY <1>1, <1>5, <2>1
  <2>8. Parsing'
    BY <1>3, <1>5, <1>12, <1>13, <2>1, <2>3, <2>4, <2>6, <2>7, Zenon DEF Parsing
  <2> QED BY <1>3, <1>12, <1>13, <2>3, <2>5, <2>8 DEF ParserInv
<1> QED BY <1>15, <1>16

LEMMA BodyStep ==
    ASSUME UploadInv, ProcessBody
    PROVE  ParserInv' /\ Kept' = Kept
<1>1. /\ N \in Nat /\ Len(Body) = N + 11 /\ at \in Nat /\ at <= N + 16 /\ Len(body) \in Nat
      /\ received \in 0 .. length /\ length \in Nat
  BY AtIs DEF UploadInv
<1>2. phase = "parse" /\ state = "kExpectBody"
  BY DEF ProcessBody, Parses
<1>3. conn = "open" /\ Parsing /\ ParserTypes
  BY <1>2, Running DEF UploadInv, ParserInv
<1>4. PICK m, k : m = Consumed /\ k = Kept
  OBVIOUS
<1>5. /\ m = 5 + received /\ length = N + 11 /\ received < length
      /\ m <= at /\ buf = SubSeq(Request, m + 1, at)
      /\ Len(body) <= received /\ body = SubSeq(Body, k + 1, received)
  BY <1>1, <1>2, <1>3, <1>4, Zenon DEF Parsing, Consumed
<1>6. k = received - Len(body) /\ k \in Nat /\ k <= received /\ m \in Nat /\ received \in Nat
  BY <1>1, <1>4, <1>5 DEF Kept
<1>7. PICK n : n = IF Len(buf) < length - received THEN Len(buf) ELSE length - received
  OBVIOUS
<1>8. Len(buf) = at - m
  BY <1>1, <1>5, <1>6, BufIs
<1>9. n \in Nat /\ n <= at - m /\ n <= length - received
  BY <1>1, <1>5, <1>6, <1>7, <1>8
<1>10. /\ body' = body \o SubSeq(buf, 1, n) /\ buf' = Rest(buf, n)
       /\ received' = received + n
       /\ IF n = length - received
          THEN state' = "kGotAll" /\ Returns("kGotRequest")
          ELSE UNCHANGED state /\ Returns("kHeadersComplete")
       /\ UNCHANGED <<at, length, conn>>
  BY <1>7 DEF ProcessBody
<1>11. buf' = SubSeq(Request, m + n + 1, at) /\ buf' \in Seq(Token)
  <2>1. Rest(buf, n) = SubSeq(Request, m + n + 1, at)
    BY <1>1, <1>5, <1>6, <1>9, BufRest, Zenon
  <2>2. Request \in Seq(Token) /\ Len(Request) = N + 16
    BY Tokens, RequestIs
  <2>3. m + n \in Nat /\ m + n <= at /\ at <= Len(Request)
    BY <1>1, <1>6, <1>9, <2>2
  <2> QED BY <1>1, <1>10, <2>1, <2>2, <2>3, Cut, SMTT(30)
<1>12. SubSeq(buf, 1, n) = SubSeq(Body, received + 1, received + n)
  <2>1. PICK r : r = Request
    OBVIOUS
  <2>2. r \in Seq(Token) /\ Len(r) = N + 16
    BY <2>1, Tokens, RequestIs
  <2>3. 0 \in Nat /\ 0 <= n /\ at <= Len(r)
    BY <1>1, <1>9, <2>2
  <2>4. SubSeq(SubSeq(r, m + 1, at), 0 + 1, n) = SubSeq(r, m + 0 + 1, m + n)
    BY <1>1, <1>5, <1>6, <1>9, <2>2, <2>3, CutOfCut
  <2>5. m + 0 + 1 = 5 + received + 1 /\ m + n = 5 + (received + n) /\ 0 + 1 = 1
    BY <1>5, <1>6, <1>9
  <2>6. received + n \in Nat /\ received <= received + n /\ received + n <= N + 11
    BY <1>1, <1>5, <1>6, <1>9
  <2>7. SubSeq(Request, 5 + received + 1, 5 + (received + n))
          = SubSeq(Body, received + 1, received + n)
    BY <1>6, <2>6, BodyPart, Zenon
  <2> QED BY <1>5, <2>1, <2>4, <2>5, <2>7, Zenon
<1>13. body' = SubSeq(Body, k + 1, received + n) /\ body' \in Seq(Token)
       /\ Len(body') = (received + n) - k
  <2>1. PICK d, z : d = Body /\ z = received + n
    OBVIOUS
  <2>2. d \in Seq(Token) /\ z \in Nat /\ received <= z /\ z <= Len(d) /\ k <= z
    BY <1>1, <1>5, <1>6, <1>9, <2>1, Tokens
  <2>3. SubSeq(d, k + 1, received) \o SubSeq(d, received + 1, z) = SubSeq(d, k + 1, z)
    BY <1>6, <2>2, CutsMeet, ZenonT(40)
  <2>4. body' = SubSeq(d, k + 1, z)
    BY <1>5, <1>10, <1>12, <2>1, <2>3, Zenon
  <2>5. SubSeq(d, k + 1, z) \in Seq(Token) /\ Len(SubSeq(d, k + 1, z)) = z - k
    BY <1>6, <2>2, Cut
  <2>6. body' \in Seq(Token) /\ Len(body') = z - k
    BY <2>4, <2>5
  <2>7. body' = SubSeq(Body, k + 1, received + n)
    BY <2>1, <2>4
  <2>8. Len(body') = (received + n) - k
    BY <2>1, <2>6
  <2> QED BY <2>6, <2>7, <2>8
<1>14. Kept' = k
  <2>1. Kept' = received' - Len(body')
    BY DEF Kept
  <2> QED BY <1>6, <1>9, <1>10, <1>13, <2>1
<1>15. /\ state' \in {"kExpectBody", "kGotAll"} /\ phase' = "dispatch"
       /\ state' = "kGotAll" => result' = "kGotRequest" /\ received' = length
       /\ state' = "kExpectBody" => result' = "kHeadersComplete" /\ received' < length
  BY <1>1, <1>2, <1>6, <1>9, <1>10 DEF Returns
<1>16. Consumed' = m + n
  <2>1. Consumed' = 5 + received'
    BY <1>15 DEF Consumed
  <2> QED BY <1>5, <1>6, <1>9, <1>10, <2>1
<1>17. received' \in 0 .. length /\ Len(body') <= received' /\ m + n <= at
  BY <1>1, <1>6, <1>9, <1>10, <1>13
<1>18. ParserTypes'
  BY <1>3, <1>10, <1>11, <1>13, <1>15, <1>17, Zenon DEF ParserTypes
<1>19. Parsing'
  <2>1. body' = SubSeq(Body, Kept' + 1, received')
    BY <1>10, <1>13, <1>14, Zenon
  <2>2. buf' = SubSeq(Request, Consumed' + 1, at')
    BY <1>10, <1>11, <1>16
  <2> QED BY <1>1, <1>5, <1>10, <1>15, <1>16, <1>17, <2>1, <2>2, Zenon DEF Parsing
<1> QED BY <1>3, <1>4, <1>10, <1>14, <1>18, <1>19 DEF ParserInv

\* The reads of a scenario end in the request.
LEMMA CutIs ==
    ASSUME RestTypes, NEW n \in sc.cuts
    PROVE  n \in 1 .. N + 16
<1>1. sc \in Scenarios
  BY DEF RestTypes
<1>2. sc.cuts \subseteq CutAnywhere
  BY <1>1, UploadAssumption
<1> QED BY <1>2, RequestIs DEF CutAnywhere

LEMMA DeliverStep ==
    ASSUME UploadInv, Deliver
    PROVE  ParserInv' /\ Kept' = Kept
<1>1. /\ N \in Nat /\ at \in Nat /\ at <= N + 16
  BY AtIs DEF UploadInv
<1>2. phase = "idle" /\ conn = "open" /\ Parsing /\ ParserTypes
  BY DEF Deliver, UploadInv, ParserInv
<1>3. PICK n \in sc.cuts : n > at /\ buf' = buf \o SubSeq(Request, at + 1, n) /\ at' = n
  BY Zenon DEF Deliver
<1>4. n \in 1 .. N + 16
  BY CutIs DEF UploadInv
<1>5. n \in Nat /\ at <= n
  BY <1>1, <1>3, <1>4
<1>6. /\ phase' = "parse"
      /\ UNCHANGED <<result, state, length, received, body, conn>>
  BY DEF Deliver
<1>7. Kept' = Kept /\ Consumed' = Consumed
  BY <1>6 DEF Kept, Consumed
<1>8. PICK m, r : m = Consumed /\ r = Request
  OBVIOUS
<1>9. m \in Nat /\ m <= at /\ buf = SubSeq(r, m + 1, at)
  <2>1. received \in Nat
    BY <1>2 DEF ParserTypes
  <2>2. Consumed \in Nat
    BY <2>1 DEF Consumed
  <2> QED BY <1>2, <1>8, <2>2 DEF Parsing
<1>10. r \in Seq(Token) /\ Len(r) = N + 16 /\ n <= Len(r)
  BY <1>4, <1>8, Tokens, RequestIs
<1>11. SubSeq(r, m + 1, at) \o SubSeq(r, at + 1, n) = SubSeq(r, m + 1, n)
  BY <1>1, <1>5, <1>9, <1>10, CutsMeet, Zenon
<1>12. buf' = SubSeq(r, m + 1, n)
  BY <1>3, <1>8, <1>9, <1>11, Zenon
<1>13. buf' \in Seq(Token)
  <2>1. m <= n
    BY <1>1, <1>5, <1>9
  <2>2. SubSeq(r, m + 1, n) \in Seq(Token)
    BY <1>5, <1>9, <1>10, <2>1, Cut
  <2> QED BY <1>12, <2>2
<1>14. at' \in 0 .. Len(Request) /\ m <= at'
  BY <1>1, <1>3, <1>4, <1>5, <1>8, <1>9, <1>10
<1>15. ParserTypes'
  BY <1>2, <1>6, <1>13, <1>14 DEF ParserTypes
<1>16. Parsing'
  <2>1. buf' = SubSeq(Request, Consumed' + 1, at')
    BY <1>3, <1>7, <1>8, <1>12, Zenon
  <2>2. Consumed' <= at'
    BY <1>7, <1>8, <1>14
  <2>3. state # "kGotAll"
    BY <1>2 DEF Parsing
  <2> QED BY <1>2, <1>6, <1>7, <2>1, <2>2, <2>3, Zenon DEF Parsing
<1> QED BY <1>2, <1>6, <1>7, <1>15, <1>16 DEF ParserInv

LEMMA CloseStep ==
    ASSUME UploadInv, PeerCloses
    PROVE  ParserInv' /\ conn' = "closed"
<1>1. /\ phase = "idle" /\ conn' = "closed" /\ UNCHANGED <<at, buf, phase, result>>
      /\ state' = "kExpectRequestLine" /\ length' = 0 /\ received' = 0 /\ body' = <<>>
  BY DEF PeerCloses, reset
<1>2. ParserTypes
  BY DEF UploadInv, ParserInv
<1>3. ParserTypes'
  BY <1>1, <1>2 DEF ParserTypes
<1> QED BY <1>1, <1>3 DEF ParserInv

LEMMA NothingStep ==
    ASSUME UploadInv, NothingToDo
    PROVE  ParserInv' /\ Kept' = Kept
<1>1. /\ phase = "dispatch" /\ result # "kGotRequest" /\ phase' = "idle"
      /\ UNCHANGED <<at, buf, state, length, received, result, body, conn>>
  BY DEF NothingToDo, parseVars
<1>2. conn = "open" /\ Parsing /\ ParserTypes
  BY <1>1, Running DEF UploadInv, ParserInv
<1>3. Kept' = Kept /\ Consumed' = Consumed
  BY <1>1 DEF Kept, Consumed
<1>4. ParserTypes'
  BY <1>1, <1>2 DEF ParserTypes
<1>5. Parsing'
  BY <1>1, <1>2, <1>3, Zenon DEF Parsing
<1> QED BY <1>1, <1>2, <1>3, <1>4, <1>5 DEF ParserInv

LEMMA ParserSame ==
    ASSUME UploadInv, UNCHANGED <<at, buf, phase, result, state, length, received, body, conn>>
    PROVE  ParserInv' /\ Kept' = Kept
<1>1. Kept' = Kept /\ Consumed' = Consumed
  BY DEF Kept, Consumed
<1>2. ParserTypes => ParserTypes'
  BY DEF ParserTypes
<1>3. Parsing => Parsing'
  BY <1>1, Zenon DEF Parsing
<1> QED BY <1>1, <1>2, <1>3 DEF UploadInv, ParserInv

\* What leaves the store alone.
LEMMA StoreSame ==
    ASSUME StoreInv, UNCHANGED <<sc, disk, rows>>, ctx' \in {ctx, NoContext}
    PROVE  StoreInv'
<1>1. \A n, m : (Counts(n, m)' <=> Counts(n, m)) /\ (Records(n, m)' <=> Records(n, m))
  BY DEF Counts, Records
<1>2. disk \in Seq(Seq(Token)) /\ rows \in Seq([file : 1 .. Len(disk), size : Nat])
  BY DEF StoreInv
<1>3. CASE ctx' = ctx
  <2>1. NoContext' = NoContext
    BY DEF NoContext, Context
  <2> QED BY <1>1, <1>3, <2>1, Zenon DEF StoreInv
<1>4. CASE ctx' = NoContext
  <2>1. ctx'.file = 0 /\ ctx'.total = 0 /\ ctx'.bad = FALSE
    BY <1>4 DEF NoContext, Context
  <2>2. Len(disk) \in Nat
    BY <1>2
  <2>3. (\A i \in 1 .. Len(rows) : Records(rows[i].size, Len(disk[rows[i].file])))'
    BY <1>1, Zenon DEF StoreInv
  <2>4. ctx'.file \in 0 .. Len(disk') /\ ctx'.total \in Nat /\ ctx'.bad \in BOOLEAN
    <3>1. ctx'.file \in 0 .. Len(disk') /\ ctx'.total \in Nat
      BY <2>1, <2>2
    <3> QED BY <2>1, <3>1, Zenon
  <2>5. disk' \in Seq(Seq(Token)) /\ rows' \in Seq([file : 1 .. Len(disk'), size : Nat])
    BY <1>2
  <2> QED BY <1>4, <2>3, <2>4, <2>5, Zenon DEF StoreInv
<1> QED BY <1>3, <1>4

\* The body that a call may take.
LEMMA BodyToCall ==
    ASSUME UploadInv, phase = "dispatch"
    PROVE  /\ conn = "open" /\ StoreInv /\ body \in Seq(Token)
           /\ Kept \in Nat /\ received \in Nat /\ Kept <= received
           /\ received <= Len(Body) /\ body = SubSeq(Body, Kept + 1, received)
<1>1. conn = "open" /\ Parsing /\ ParserTypes /\ StoreInv
  BY Running DEF UploadInv, ParserInv
<1>2. /\ body \in Seq(Token) /\ Len(body) <= received /\ received \in 0 .. length
      /\ body = SubSeq(Body, Kept + 1, received) /\ length \in Nat
      /\ length \in {0, Len(Body)}
  BY <1>1 DEF Parsing, ParserTypes
<1>3. Len(Body) = N + 11 /\ N \in Nat
  BY BodyIs
<1>4. received \in Nat /\ received <= Len(Body)
  BY <1>2, <1>3
<1>5. PICK n : n = Len(body)
  BY Zenon
<1>6. n \in Nat /\ n <= received
  BY <1>2, <1>5
<1>7. Kept = received - n
  BY <1>5 DEF Kept
<1>8. Kept \in Nat /\ Kept <= received
  BY <1>4, <1>6, <1>7
<1> QED BY <1>1, <1>2, <1>4, <1>8
----------------------------------------------------------------------------
(* What find returns in parts of the body.                                *)

\* r is the sequence of x and y.
Pair(r, x, y) == r = <<x, y>>

\* p is in s at j.
Matches(s, p, j) == SubSeq(s, j, j + Len(p) - 1) = p

LEMMA PairMatches ==
    ASSUME NEW S, NEW s \in Seq(S), NEW j \in 1 .. Len(s) - 1, NEW x, NEW y, NEW p, Pair(p, x, y)
    PROVE  Matches(s, p, j) <=> s[j] = x /\ s[j + 1] = y
<1>1. PICK q : q = SubSeq(s, j, j + 1)
  BY Zenon
<1>2. Len(p) = 2 /\ p[1] = x /\ p[2] = y
  BY DEF Pair
<1>3. q \in Seq(S) /\ Len(q) = 2 /\ q[1] = s[j] /\ q[2] = s[j + 1]
  <2>1. PICK m, n : m = j - 1 /\ n = j + 1
    OBVIOUS
  <2>2. /\ m \in Nat /\ n \in Nat /\ m <= n /\ n <= Len(s)
        /\ m + 1 = j /\ m + 2 = j + 1 /\ n - m = 2
    BY <2>1
  <2>3. /\ SubSeq(s, m + 1, n) \in Seq(S) /\ Len(SubSeq(s, m + 1, n)) = n - m
        /\ \A i \in 1 .. n - m : SubSeq(s, m + 1, n)[i] = s[m + i]
    BY <2>2, Cut
  <2>4. q \in Seq(S) /\ Len(q) = 2 /\ \A i \in 1 .. 2 : q[i] = s[m + i]
    BY <1>1, <2>1, <2>2, <2>3
  <2> QED BY <2>2, <2>4
<1>4. PICK T : T = S \cup {x, y}
  BY Zenon
<1>5. p \in Seq(T)
  BY <1>4 DEF Pair
<1>6. q \in Seq(T)
  <2>1. \A i \in 1 .. Len(q) : q[i] \in S
    BY <1>3
  <2>2. \A i \in 1 .. Len(q) : q[i] \in T
    BY <1>4, <2>1
  <2> QED BY <1>3, <2>2, Elements
<1>7. q[1] = x /\ q[2] = y => q = p
  BY <1>2, <1>3, <1>5, <1>6, Alike
<1>8. (j + Len(p)) - 1 = j + 1 /\ j + Len(p) - 1 = j + 1
  BY <1>2
<1> QED BY <1>1, <1>2, <1>3, <1>7, <1>8, Zenon DEF Matches

LEMMA EndAt ==
    ASSUME NEW S, NEW s \in Seq(S), NEW j \in Nat, j >= 1, j + 2 <= Len(s)
    PROVE  SubSeq(s, j, j + 2) = EndBoundary
              <=> s[j] = "bound" /\ s[j + 1] = "ary" /\ s[j + 2] = "--"
<1>1. PICK p, q : p = EndBoundary /\ q = SubSeq(s, j, j + 2)
  BY Zenon
<1>2. p \in Seq(Words) /\ Len(p) = 3 /\ p[1] = "bound" /\ p[2] = "ary" /\ p[3] = "--"
  BY <1>1, EndIs
<1>3. q \in Seq(S) /\ Len(q) = 3 /\ q[1] = s[j] /\ q[2] = s[j + 1] /\ q[3] = s[j + 2]
  <2>1. PICK m, n : m = j - 1 /\ n = j + 2
    OBVIOUS
  <2>2. m \in Nat /\ n \in Nat /\ m <= n /\ n <= Len(s) /\ m + 1 = j /\ n - m = 3
    BY <2>1
  <2>3. /\ SubSeq(s, m + 1, n) \in Seq(S) /\ Len(SubSeq(s, m + 1, n)) = n - m
        /\ \A i \in 1 .. n - m : SubSeq(s, m + 1, n)[i] = s[m + i]
    BY <2>2, Cut
  <2>4. q \in Seq(S) /\ Len(q) = 3 /\ \A i \in 1 .. 3 : q[i] = s[m + i]
    BY <1>1, <2>1, <2>2, <2>3
  <2>5. m + 1 = j /\ m + 2 = j + 1 /\ m + 3 = j + 2
    BY <2>1
  <2> QED BY <2>4, <2>5
<1>4. PICK T : T = S \cup Words
  BY Zenon
<1>5. p \in Seq(T)
  <2>1. p \in Seq(Words)
    BY <1>2
  <2>2. \A i \in 1 .. Len(p) : p[i] \in Words
    BY <2>1
  <2>3. \A i \in 1 .. Len(p) : p[i] \in T
    BY <1>4, <2>2
  <2> QED BY <2>1, <2>3, Elements
<1>6. q \in Seq(T)
  <2>1. q \in Seq(S)
    BY <1>3
  <2>2. \A i \in 1 .. Len(q) : q[i] \in S
    BY <2>1
  <2>3. \A i \in 1 .. Len(q) : q[i] \in T
    BY <1>4, <2>2
  <2> QED BY <2>1, <2>3, Elements
<1>7. q[1] = p[1] /\ q[2] = p[2] /\ q[3] = p[3] => q = p
  <2> SUFFICES ASSUME q[1] = p[1], q[2] = p[2], q[3] = p[3] PROVE q = p
    OBVIOUS
  <2>1. Len(q) = Len(p) /\ \A i \in 1 .. Len(q) : q[i] = p[i]
    BY <1>2, <1>3
  <2> QED BY <1>5, <1>6, <2>1, Alike
<1> QED BY <1>1, <1>2, <1>3, <1>7

\* x and y, or the end boundary, come first at e of s.
FirstPair(s, x, y, e) == /\ e \in 1 .. Len(s) - 1 /\ s[e] = x /\ s[e + 1] = y
                         /\ \A j \in 1 .. e - 1 : ~(s[j] = x /\ s[j + 1] = y)

FirstEnd(s, e) == /\ e \in 1 .. Len(s) - 2
                  /\ s[e] = "bound" /\ s[e + 1] = "ary" /\ s[e + 2] = "--"
                  /\ \A j \in 1 .. e - 1 : s[j + 2] # "--"

LEMMA NoPairIn ==
    ASSUME NEW S, NEW s \in Seq(S), NEW x, NEW y, NEW p, Pair(p, x, y),
           \A j \in 1 .. Len(s) - 1 : ~(s[j] = x /\ s[j + 1] = y)
    PROVE  Find(s, p) = 0
<1>1. Len(s) \in Nat /\ Len(p) = 2 /\ Len(s) - Len(p) + 1 = Len(s) - 1
  BY DEF Pair
<1>2. \A j \in 1 .. Len(s) - 1 : Matches(s, p, j) <=> s[j] = x /\ s[j + 1] = y
  BY PairMatches
<1>3. ASSUME NEW j \in 1 .. Len(s) - Len(p) + 1
      PROVE  SubSeq(s, j, j + Len(p) - 1) # p
  <2>1. j \in 1 .. Len(s) - 1
    BY <1>1
  <2>2. ~Matches(s, p, j)
    BY <1>2, <2>1
  <2> QED BY <2>2 DEF Matches
<1>4. FindFrom(s, p, 1) = 0
  BY <1>3, FindNone, Zenon
<1> QED BY <1>4 DEF Find

LEMMA FirstPairInAt ==
    ASSUME NEW S, NEW s \in Seq(S), NEW x, NEW y, NEW p, Pair(p, x, y), NEW e, FirstPair(s, x, y, e)
    PROVE  Find(s, p) = e
<1>1. PICK l : l = Len(s)
  OBVIOUS
<1>2. l \in Nat /\ Len(p) = 2 /\ l - Len(p) + 1 = l - 1
  BY <1>1 DEF Pair
<1>3. \A j \in 1 .. l - 1 : Matches(s, p, j) <=> s[j] = x /\ s[j + 1] = y
  BY <1>1, PairMatches
<1>4. e \in 1 .. l - 1
  BY <1>1 DEF FirstPair
<1>5. Matches(s, p, e)
  BY <1>3, <1>4 DEF FirstPair
<1>6. ASSUME NEW k \in 1 .. e - 1
      PROVE  ~Matches(s, p, k)
  <2>1. k \in 1 .. l - 1
    BY <1>2, <1>4
  <2> QED BY <1>3, <2>1 DEF FirstPair
<1>7. FirstAt(s, p, e)
  BY <1>1, <1>2, <1>4, <1>5, <1>6 DEF FirstAt, Matches
<1> QED BY <1>7, FindFirst

LEMMA NoEndIn ==
    ASSUME NEW S, NEW s \in Seq(S), NEW p, p = EndBoundary,
           \A j \in 1 .. Len(s) - 2 : s[j + 2] # "--"
    PROVE  Find(s, p) = 0
<1>1. PICK l : l = Len(s)
  OBVIOUS
<1>2. l \in Nat /\ Len(p) = 3 /\ l - Len(p) + 1 = l - 2
  BY <1>1, EndIs
<1>3. ASSUME NEW j \in 1 .. l - 2
      PROVE  SubSeq(s, j, j + Len(p) - 1) = p
                <=> s[j] = "bound" /\ s[j + 1] = "ary" /\ s[j + 2] = "--"
  <2>1. j \in Nat /\ j >= 1 /\ j + 2 <= Len(s) /\ j + Len(p) - 1 = j + 2
    BY <1>1, <1>2
  <2>2. SubSeq(s, j, j + 2) = p
           <=> s[j] = "bound" /\ s[j + 1] = "ary" /\ s[j + 2] = "--"
    BY <2>1, EndAt
  <2> QED BY <2>1, <2>2, Zenon
<1>4. ASSUME NEW j \in 1 .. Len(s) - Len(p) + 1
      PROVE  SubSeq(s, j, j + Len(p) - 1) # p
  <2>1. j \in 1 .. l - 2 /\ j \in 1 .. Len(s) - 2
    BY <1>1, <1>2
  <2> QED BY <1>3, <2>1
<1>5. FindFrom(s, p, 1) = 0
  BY <1>4, FindNone, Zenon
<1> QED BY <1>5 DEF Find

LEMMA FirstEndInAt ==
    ASSUME NEW S, NEW s \in Seq(S), NEW p, p = EndBoundary, NEW e, FirstEnd(s, e)
    PROVE  Find(s, p) = e
<1>1. PICK l : l = Len(s)
  OBVIOUS
<1>2. l \in Nat /\ Len(p) = 3 /\ l - Len(p) + 1 = l - 2
  BY <1>1, EndIs
<1>3. ASSUME NEW j \in 1 .. l - 2
      PROVE  SubSeq(s, j, j + Len(p) - 1) = p
                <=> s[j] = "bound" /\ s[j + 1] = "ary" /\ s[j + 2] = "--"
  <2>1. j \in Nat /\ j >= 1 /\ j + 2 <= Len(s) /\ j + Len(p) - 1 = j + 2
    BY <1>1, <1>2
  <2>2. SubSeq(s, j, j + 2) = p
           <=> s[j] = "bound" /\ s[j + 1] = "ary" /\ s[j + 2] = "--"
    BY <2>1, EndAt
  <2> QED BY <2>1, <2>2, Zenon
<1>4. e \in 1 .. l - 2
  BY <1>1 DEF FirstEnd
<1>5. SubSeq(s, e, e + Len(p) - 1) = p
  BY <1>3, <1>4 DEF FirstEnd
<1>6. ASSUME NEW k \in 1 .. e - 1
      PROVE  SubSeq(s, k, k + Len(p) - 1) # p
  <2>1. k \in 1 .. l - 2
    BY <1>2, <1>4
  <2> QED BY <1>3, <2>1, Zenon DEF FirstEnd
<1>7. FirstAt(s, p, e)
  BY <1>1, <1>2, <1>4, <1>5, <1>6 DEF FirstAt
<1> QED BY <1>7, FindFirst

\* Where the boundary is in the body.
LEMMA BodyMarks ==
    ASSUME NEW m \in 1 .. N + 11
    PROVE  /\ Body[m] = "--" => m = N + 10
           /\ Body[m] = "bound" => m = 1 \/ m = N + 8
<1>1. N \in Nat
  BY BodyIs
<1>2. \A i \in 1 .. N : Content[i] # "--" /\ Content[i] # "bound"
  BY UploadAssumption DEF N
<1>3. CASE m \in 7 .. N + 6
  <2>1. PICK i : i = m - 6
    OBVIOUS
  <2>2. i \in 1 .. N /\ 6 + i = m
    BY <1>1, <1>3, <2>1
  <2>3. Body[m] = Content[i]
    BY <2>2, BodyIs
  <2> QED BY <1>2, <2>2, <2>3
<1>4. CASE m \in {1, 2, 3, 4, 5, 6}
  BY <1>4, BodyIs
<1>5. CASE m \in {N + 7, N + 8, N + 9, N + 10, N + 11}
  BY <1>5, BodyIs
<1>6. m \in 7 .. N + 6 \/ m \in {1, 2, 3, 4, 5, 6} \/ m \in {N + 7, N + 8, N + 9, N + 10, N + 11}
  BY <1>1
<1> QED BY <1>3, <1>4, <1>5, <1>6

\* s holds the tokens of the body behind k up to z.
Window(s, k, z) == /\ s \in Seq(Token) /\ Len(s) = z - k
                   /\ \A n \in 1 .. z - k : s[n] = Body[k + n]

LEMMA WindowIs ==
    ASSUME NEW k \in Nat, NEW z \in Nat, k <= z, z <= N + 11
    PROVE  Window(SubSeq(Body, k + 1, z), k, z)
<1>1. PICK d : d = Body
  OBVIOUS
<1>2. d \in Seq(Token) /\ z <= Len(d)
  BY <1>1, Tokens, BodyIs
<1> QED BY <1>1, <1>2, Cut DEF Window

\* No end boundary before all of it has come.
LEMMA NoEnd ==
    ASSUME NEW k \in Nat, NEW z \in Nat, k <= z, z <= N + 7, NEW s, Window(s, k, z)
    PROVE  Find(s, EndBoundary) = 0
<1>1. N \in Nat
  BY BodyIs
<1>2. s \in Seq(Token)
  BY DEF Window
<1>3. ASSUME NEW j \in 1 .. Len(s) - 2 PROVE s[j + 2] # "--"
  <2>1. PICK n : n = j + 2
    OBVIOUS
  <2>2. Len(s) = z - k
    BY DEF Window
  <2>3. n \in 1 .. z - k /\ k + n \in 1 .. N + 11 /\ k + n # N + 10
    BY <1>1, <2>1, <2>2
  <2>4. s[n] = Body[k + n]
    BY <2>3 DEF Window
  <2>5. s[n] # "--"
    BY <2>3, <2>4, BodyMarks
  <2> QED BY <2>1, <2>5
<1> QED BY <1>2, <1>3, NoEndIn

\* No boundary in the content.
LEMMA NoBoundary ==
    ASSUME NEW k \in Nat, NEW z \in Nat, k >= 6, k <= z, z <= N + 7,
           NEW s, Window(s, k, z)
    PROVE  Find(s, Boundary) = 0
<1>1. N \in Nat
  BY BodyIs
<1>2. s \in Seq(Token)
  BY DEF Window
<1>3. PICK x, y : x = "bound" /\ y = "ary"
  OBVIOUS
<1>4. Pair(Boundary, x, y)
  BY <1>3 DEF Boundary, Pair
<1>5. ASSUME NEW j \in 1 .. Len(s) - 1 PROVE s[j] # x
  <2>1. Len(s) = z - k
    BY DEF Window
  <2>2. j \in 1 .. z - k /\ k + j \in 1 .. N + 11 /\ k + j # N + 8 /\ k + j # 1
    BY <1>1, <2>1
  <2>3. s[j] = Body[k + j]
    BY <2>2 DEF Window
  <2> QED BY <1>3, <2>2, <2>3, BodyMarks
<1> QED BY <1>2, <1>4, <1>5, NoPairIn

\* The end boundary when all of the body has come.
LEMMA EndFound ==
    ASSUME NEW k \in Nat, k <= N + 7, NEW s, Window(s, k, N + 11)
    PROVE  Find(s, EndBoundary) = (N + 8) - k
<1>1. N \in Nat
  BY BodyIs
<1>2. PICK z, e : z = N + 11 /\ e = (N + 8) - k
  OBVIOUS
<1>3. z \in Nat /\ e \in Nat /\ e >= 1 /\ k + e = N + 8 /\ e + 3 = z - k
  BY <1>1, <1>2
<1>4. s \in Seq(Token) /\ Len(s) = z - k
  BY <1>2 DEF Window
<1>5. \A n \in 1 .. z - k : s[n] = Body[k + n]
  BY <1>2 DEF Window
<1>6. s[e] = "bound" /\ s[e + 1] = "ary" /\ s[e + 2] = "--"
  <2>1. /\ e \in 1 .. z - k /\ e + 1 \in 1 .. z - k /\ e + 2 \in 1 .. z - k
        /\ k + (e + 1) = N + 9 /\ k + (e + 2) = N + 10
    BY <1>1, <1>3
  <2>2. s[e] = Body[N + 8] /\ s[e + 1] = Body[N + 9] /\ s[e + 2] = Body[N + 10]
    BY <1>3, <1>5, <2>1
  <2> QED BY <2>2, BodyIs
<1>7. ASSUME NEW j \in 1 .. e - 1 PROVE s[j + 2] # "--"
  <2>1. PICK n : n = j + 2
    OBVIOUS
  <2>2. n \in 1 .. z - k /\ k + n \in 1 .. N + 11 /\ k + n # N + 10
    BY <1>1, <1>2, <1>3, <2>1
  <2>3. s[n] = Body[k + n]
    BY <1>5, <2>2
  <2>4. s[n] # "--"
    BY <2>2, <2>3, BodyMarks
  <2> QED BY <2>1, <2>4
<1>8. e \in 1 .. Len(s) - 2
  BY <1>3, <1>4
<1>9. FirstEnd(s, e)
  BY <1>6, <1>7, <1>8 DEF FirstEnd
<1>10. Find(s, EndBoundary) = e
  BY <1>4, <1>9, FirstEndInAt
<1> QED BY <1>2, <1>10

\* The empty line that ends the part's head.
LEMMA HeadEnds ==
    ASSUME NEW z \in Nat, z >= 6, z <= N + 11, NEW s, Window(s, 0, z)
    PROVE  Find(s, <<"crlf", "crlf">>) = 5
<1>1. s \in Seq(Token) /\ Len(s) = z
  BY DEF Window
<1>2. \A n \in 1 .. z : s[n] = Body[n]
  BY DEF Window
<1>3. /\ s[1] = "bound" /\ s[2] = "ary" /\ s[3] = "crlf" /\ s[4] = "disposition"
      /\ s[5] = "crlf" /\ s[6] = "crlf"
  <2>1. 1 \in 1 .. z /\ 2 \in 1 .. z /\ 3 \in 1 .. z /\ 4 \in 1 .. z /\ 5 \in 1 .. z /\ 6 \in 1 .. z
    OBVIOUS
  <2> QED BY <1>2, <2>1, BodyIs
<1>4. PICK x, p, e : x = "crlf" /\ p = <<x, x>> /\ e = 5
  BY Zenon
<1>5. e \in 1 .. Len(s) - 1 /\ e + 1 = 6
  BY <1>1, <1>4
<1>6. s[e] = x /\ s[e + 1] = x
  BY <1>3, <1>4, <1>5
<1>7. ASSUME NEW j \in 1 .. e - 1 PROVE ~(s[j] = x /\ s[j + 1] = x)
  <2>1. j = 1 \/ j = 2 \/ (j = 3 /\ j + 1 = 4) \/ j = 4
    BY <1>4
  <2> QED BY <1>3, <1>4, <2>1
<1>8. FirstPair(s, x, x, e) /\ Pair(p, x, x)
  BY <1>4, <1>5, <1>6, <1>7 DEF FirstPair, Pair
<1>9. Find(s, p) = e
  BY <1>1, <1>8, FirstPairInAt
<1> QED BY <1>4, <1>9
----------------------------------------------------------------------------
(* What a call of a smooth upload writes.                                  *)

\* The part's head and some of the content have come.
LEMMA FirstOf ==
    ASSUME NEW z \in Nat, z >= 6, z <= N + 7, NEW s, Window(s, 0, z)
    PROVE  /\ FirstPart(s).piece = SubSeq(s, 6 + 1, z)
           /\ FirstPart(s).next = "kExpectBoundary"
<1>1. N \in Nat
  BY BodyIs
<1>2. Find(s, <<"crlf", "crlf">>) = 5
  <2>1. z <= N + 11
    BY <1>1
  <2> QED BY <2>1, HeadEnds
<1>3. Find(s, EndBoundary) = 0
  <2>1. PICK k : k = 0
    OBVIOUS
  <2>2. k \in Nat /\ k <= z /\ Window(s, k, z)
    BY <2>1
  <2> QED BY <2>2, NoEnd
<1>4. Len(s) = z
  BY DEF Window
<1>5. PICK w : w = (5 + 1 < Len(s))
  OBVIOUS
<1>6. FirstPart(s) = Part(w, Rest(s, 5 + 1), "kExpectBoundary")
  BY <1>2, <1>3, <1>5 DEF FirstPart
<1>7. Rest(s, 5 + 1) = SubSeq(s, 6 + 1, z)
  BY <1>4 DEF Rest
<1> QED BY <1>6, <1>7 DEF Part

\* All of the body has come before the first call.
LEMMA FirstOfAll ==
    ASSUME NEW s, Window(s, 0, N + 11)
    PROVE  /\ FirstPart(s).piece = SubSeq(s, 6 + 1, N + 7)
           /\ FirstPart(s).next = "kComplete"
<1>1. N \in Nat
  BY BodyIs
<1>2. Find(s, <<"crlf", "crlf">>) = 5
  <2>1. PICK z : z = N + 11
    OBVIOUS
  <2>2. z \in Nat /\ z >= 6 /\ z <= N + 11 /\ Window(s, 0, z)
    BY <1>1, <2>1
  <2> QED BY <2>2, HeadEnds
<1>3. Find(s, EndBoundary) = N + 8
  <2>1. PICK k : k = 0
    OBVIOUS
  <2>2. k \in Nat /\ k <= N + 7 /\ Window(s, k, N + 11)
    BY <1>1, <2>1
  <2>3. Find(s, EndBoundary) = (N + 8) - k
    BY <2>2, EndFound
  <2> QED BY <1>1, <2>1, <2>3
<1>4. PICK w : w = (N + 8 > 1)
  OBVIOUS
<1>5. FirstPart(s) = Part(w, SubSeq(s, 5 + 2, (N + 8) - 1), "kComplete")
  BY <1>1, <1>2, <1>3, <1>4 DEF FirstPart
<1>6. PICK p : p = SubSeq(s, 6 + 1, N + 7)
  BY Zenon
<1>7. SubSeq(s, 5 + 2, (N + 8) - 1) = p
  BY <1>1, <1>6
<1>8. FirstPart(s) = Part(w, p, "kComplete")
  BY <1>5, <1>7, Zenon
<1>9. FirstPart(s).piece = p /\ FirstPart(s).next = "kComplete"
  BY <1>8 DEF Part
<1> QED BY <1>6, <1>9

\* More of the content, for a context that awaits the boundary.
LEMMA NextOf ==
    ASSUME NEW k \in Nat, NEW z \in Nat, k >= 6, k < z, z <= N + 7,
           NEW s, Window(s, k, z)
    PROVE  /\ NextPart("kExpectBoundary", s).piece = s
           /\ NextPart("kExpectBoundary", s).next = "kExpectBoundary"
<1>1. Find(s, EndBoundary) = 0 /\ Find(s, Boundary) = 0
  BY NoEnd, NoBoundary
<1>2. s # <<>>
  <2>1. Len(s) = z - k
    BY DEF Window
  <2> QED BY <2>1
<1>3. NextPart("kExpectBoundary", s) = Part(TRUE, s, "kExpectBoundary")
  BY <1>1, <1>2 DEF NextPart
<1> QED BY <1>3 DEF Part

\* The rest of the body, for a context that awaits the boundary.
LEMMA NextOfAll ==
    ASSUME NEW k \in Nat, k <= N + 7, NEW s, Window(s, k, N + 11)
    PROVE  /\ NextPart("kExpectBoundary", s).piece = SubSeq(s, 1, (N + 7) - k)
           /\ NextPart("kExpectBoundary", s).next = "kComplete"
<1>1. N \in Nat
  BY BodyIs
<1>2. PICK e : e = (N + 8) - k
  OBVIOUS
<1>3. e \in Nat /\ e > 0 /\ e - 1 = (N + 7) - k
  BY <1>1, <1>2
<1>4. Find(s, EndBoundary) = e
  BY <1>2, EndFound
<1>5. s # <<>>
  <2>1. Len(s) = (N + 11) - k
    BY DEF Window
  <2> QED BY <1>1, <2>1
<1>6. PICK w : w = (e > 1)
  OBVIOUS
<1>7. NextPart("kExpectBoundary", s) = Part(w, SubSeq(s, 1, e - 1), "kComplete")
  BY <1>3, <1>4, <1>5, <1>6 DEF NextPart
<1> QED BY <1>3, <1>7 DEF Part
----------------------------------------------------------------------------
(* handleFileUpload.                                                       *)

\* A call ends with the file c, the last one; the rows stand for other files.
After(c) ==
    /\ c \in Nat /\ c >= 1
    /\ disk' \in Seq(Seq(Token)) /\ Len(disk') = c
    /\ \A i \in 1 .. Len(rows) :
          /\ rows[i].file \in 1 .. c /\ rows[i].file # c
          /\ Records(rows[i].size, Len(disk'[rows[i].file]))

\* The file and the context of a call, before it writes.
LEMMA CurrentIs ==
    ASSUME StoreInv, NEW c, c = Current, NEW d, d = Files
    PROVE  /\ d \in Seq(Seq(Token)) /\ Len(d) = c.file /\ c.file \in Nat /\ c.file >= 1
           /\ c.total \in Nat /\ c.bad \in BOOLEAN
           /\ Counts(c.total, Len(d[c.file])) \/ (sc.mayFail /\ c.bad)
           /\ Len(disk) \in Nat /\ Len(disk) <= c.file
           /\ \A f \in 1 .. Len(disk) : d[f] = disk[f]
           /\ \A i \in 1 .. Len(rows) : rows[i].file \in 1 .. Len(disk) /\ rows[i].file # c.file
<1>1. /\ disk \in Seq(Seq(Token)) /\ Len(disk) \in Nat
      /\ rows \in Seq([file : 1 .. Len(disk), size : Nat])
  BY DEF StoreInv
<1>2. \A i \in 1 .. Len(rows) : rows[i].file \in 1 .. Len(disk)
  <2>1. PICK R : R = [file : 1 .. Len(disk), size : Nat]
    BY Zenon
  <2>2. rows \in Seq(R)
    BY <1>1, <2>1, Zenon
  <2>3. \A i \in 1 .. Len(rows) : rows[i] \in R
    BY <2>2
  <2> QED BY <2>1, <2>3
<1>3. CASE ctx = NoContext
  <2>1. c.file = Len(disk) + 1 /\ c.total = 0 /\ c.bad = FALSE
    BY <1>3 DEF Current, Context
  <2>2. d = Append(disk, <<>>)
    BY <1>3 DEF Files
  <2>3. <<>> \in Seq(Token) /\ Len(<<>>) = 0
    OBVIOUS
  <2>4. /\ d \in Seq(Seq(Token)) /\ Len(d) = Len(disk) + 1 /\ d[Len(disk) + 1] = <<>>
        /\ \A f \in 1 .. Len(disk) : d[f] = disk[f]
    BY <1>1, <2>2, <2>3
  <2>5. c.bad \in BOOLEAN
    BY <2>1, Zenon
  <2>6. c.total \in Nat /\ Counts(c.total, Len(d[c.file]))
    BY <2>1, <2>3, <2>4 DEF Counts
  <2>7. c.file \in Nat /\ c.file >= 1 /\ Len(disk) <= c.file /\ Len(d) = c.file
    BY <1>1, <2>1, <2>4
  <2>8. \A i \in 1 .. Len(rows) : rows[i].file # c.file
    BY <1>1, <1>2, <2>1
  <2> QED BY <1>1, <1>2, <2>4, <2>5, <2>6, <2>7, <2>8, Zenon
<1>4. CASE ctx # NoContext
  <2>1. c = ctx /\ d = disk
    BY <1>4 DEF Current, Files
  <2>2. /\ ctx.file = Len(disk) /\ ctx.file >= 1
        /\ Counts(ctx.total, Len(disk[ctx.file])) \/ (sc.mayFail /\ ctx.bad)
        /\ \A i \in 1 .. Len(rows) : rows[i].file # ctx.file
    BY <1>4, Zenon DEF StoreInv
  <2>3. ctx.total \in Nat /\ ctx.bad \in BOOLEAN
    BY Zenon DEF StoreInv
  <2>4. ctx.file \in Nat /\ Len(disk) <= ctx.file
    BY <1>1, <2>2
  <2> QED BY <1>1, <1>2, <2>1, <2>2, <2>3, <2>4, Zenon
<1> QED BY <1>3, <1>4

\* The rows keep their sizes when only the last file changes.
LEMMA RowsAfter ==
    ASSUME StoreInv, NEW c, c = Current,
           \A f \in 1 .. Len(disk) : f # c.file => disk'[f] = disk[f]
    PROVE  \A i \in 1 .. Len(rows) :
              /\ rows[i].file \in 1 .. c.file /\ rows[i].file # c.file
              /\ Records(rows[i].size, Len(disk'[rows[i].file]))
<1> TAKE i \in 1 .. Len(rows)
<1>1. PICK d : d = Files
  OBVIOUS
<1>2. /\ rows[i].file \in 1 .. Len(disk) /\ rows[i].file # c.file
      /\ Len(disk) \in Nat /\ c.file \in Nat /\ Len(disk) <= c.file
  BY <1>1, CurrentIs
<1>3. rows[i].file \in 1 .. c.file
  BY <1>2
<1>4. Records(rows[i].size, Len(disk[rows[i].file]))
  BY Zenon DEF StoreInv
<1>5. disk'[rows[i].file] = disk[rows[i].file]
  BY <1>2
<1> QED BY <1>2, <1>3, <1>4, <1>5, Zenon

LEMMA PieceIs ==
    ASSUME body \in Seq(Token)
    PROVE  PieceOf(ThisPart.piece, body) /\ ThisPart.piece \in Seq(Token)
<1>1. PICK p : p = ThisPart.piece
  OBVIOUS
<1>2. PieceOf(p, body)
  <2>1. CASE ctx = NoContext
    <3>1. p = FirstPart(body).piece
      BY <1>1, <2>1, Zenon DEF ThisPart
    <3> QED BY <3>1, FirstPiece
  <2>2. CASE ctx # NoContext
    <3>1. p = NextPart(ctx.state, body).piece
      BY <1>1, <2>2, Zenon DEF ThisPart
    <3> QED BY <3>1, NextPiece
  <2> QED BY <2>1, <2>2
<1>3. PICK i, j \in 0 .. Len(body) : i <= j /\ p = SubSeq(body, i + 1, j)
  BY <1>2 DEF PieceOf
<1>4. i \in Nat /\ j \in Nat /\ j <= Len(body)
  OBVIOUS
<1>5. p \in Seq(Token)
  BY <1>3, <1>4, Cut
<1> QED BY <1>1, <1>2, <1>5

\* The start of a sequence.
LEMMA StartIs ==
    ASSUME NEW S, NEW s \in Seq(S), NEW n \in 0 .. Len(s)
    PROVE  /\ SubSeq(s, 1, n) \in Seq(S) /\ Len(SubSeq(s, 1, n)) = n
           /\ \A i \in 1 .. n : SubSeq(s, 1, n)[i] = s[i]
<1>1. PICK m : m = 0
  OBVIOUS
<1>2. m \in Nat /\ n \in Nat /\ m <= n /\ n <= Len(s) /\ m + 1 = 1 /\ n - m = n
  BY <1>1
<1>3. /\ SubSeq(s, m + 1, n) \in Seq(S) /\ Len(SubSeq(s, m + 1, n)) = n - m
      /\ \A i \in 1 .. n - m : SubSeq(s, m + 1, n)[i] = s[m + i]
  BY <1>2, Cut
<1>4. \A i \in 1 .. n : m + i = i
  BY <1>1
<1> QED BY <1>2, <1>3, <1>4

\* The first n tokens of the part have got to the file.
LEMMA StoresAfter ==
    ASSUME StoreInv, body \in Seq(Token), NEW n \in 0 .. Len(ThisPart.piece), Stores(n)
    PROVE  /\ After(Current.file)
           /\ Len(Files[Current.file]) \in Nat
           /\ Len(disk'[Current.file]) = Len(Files[Current.file]) + n
<1>1. PICK c, d, p : c = Current /\ d = Files /\ p = ThisPart.piece
  OBVIOUS
<1>2. /\ d \in Seq(Seq(Token)) /\ Len(d) = c.file /\ c.file \in Nat /\ c.file >= 1
      /\ \A f \in 1 .. Len(disk) : d[f] = disk[f]
      /\ Len(disk) \in Nat /\ Len(disk) <= c.file
  BY <1>1, CurrentIs
<1>3. PICK q : q = SubSeq(p, 1, n)
  BY Zenon
<1>4. q \in Seq(Token) /\ Len(q) = n
  BY <1>1, <1>3, PieceIs, StartIs
<1>5. disk' = [d EXCEPT ![c.file] = @ \o q]
  BY <1>1, <1>3, Zenon DEF Stores
<1>6. /\ disk' \in Seq(Seq(Token)) /\ Len(disk') = c.file
      /\ d[c.file] \in Seq(Token) /\ Len(disk'[c.file]) = Len(d[c.file]) + Len(q)
      /\ \A f \in 1 .. c.file : f # c.file => disk'[f] = d[f]
  <2>1. PICK e : e = [d EXCEPT ![c.file] = @ \o q]
    BY Zenon
  <2>2. /\ e \in Seq(Seq(Token)) /\ Len(e) = c.file
        /\ d[c.file] \in Seq(Token) /\ Len(e[c.file]) = Len(d[c.file]) + Len(q)
        /\ \A f \in 1 .. c.file : f # c.file => e[f] = d[f]
    <3>1. PICK m : m = c.file
      OBVIOUS
    <3>2. m = Len(d) /\ m >= 1 /\ d \in Seq(Seq(Token)) /\ e = [d EXCEPT ![m] = @ \o q]
      BY <1>2, <2>1, <3>1, Zenon
    <3>3. /\ e \in Seq(Seq(Token)) /\ Len(e) = m
          /\ d[m] \in Seq(Token) /\ Len(e[m]) = Len(d[m]) + Len(q)
          /\ \A f \in 1 .. m : f # m => e[f] = d[f]
      BY <1>4, <3>2, Extend
    <3> QED BY <3>1, <3>3, Zenon
  <2> QED BY <1>5, <2>1, <2>2, Zenon
<1>7. Len(d[c.file]) \in Nat
  BY <1>6
<1>8. \A f \in 1 .. Len(disk) : f # c.file => disk'[f] = disk[f]
  <2> TAKE f \in 1 .. Len(disk)
  <2>1. f \in 1 .. c.file
    BY <1>2
  <2> QED BY <1>2, <1>6, <2>1, Zenon
<1>9. \A i \in 1 .. Len(rows) :
          /\ rows[i].file \in 1 .. c.file /\ rows[i].file # c.file
          /\ Records(rows[i].size, Len(disk'[rows[i].file]))
  BY <1>1, <1>8, RowsAfter, Zenon
<1>10. After(c.file)
  BY <1>2, <1>6, <1>9, Zenon DEF After
<1> QED BY <1>1, <1>4, <1>6, <1>7, <1>10, Zenon

\* A part that is not written is empty.
LEMMA FirstSilent ==
    ASSUME NEW S, NEW s \in Seq(S), ~FirstPart(s).writes
    PROVE  FirstPart(s).piece = <<>>
<1>1. PICK pos, end : pos = Find(s, <<"crlf", "crlf">>) /\ end = Find(s, EndBoundary)
  OBVIOUS
<1>2. /\ pos = 0 \/ pos \in 1 .. Len(s) - 1
      /\ end = 0 \/ end \in 1 .. Len(s) - 2
  BY <1>1, FindPlaces DEF Find
<1>3. Len(s) \in Nat
  OBVIOUS
<1>4. FirstPart(s) =
        CASE pos = 0 -> Nothing("kExpectHeaders")
          [] pos > 0 /\ end > 0 ->
                Part(end > 1, SubSeq(s, pos + 2, end - 1), "kComplete")
          [] OTHER -> Part(pos + 1 < Len(s), Rest(s, pos + 1), "kExpectBoundary")
  BY <1>1 DEF FirstPart
<1>5. CASE pos = 0
  BY <1>4, <1>5 DEF Nothing, Part
<1>6. CASE pos # 0 /\ end # 0
  <2>1. pos > 0 /\ end > 0
    BY <1>2, <1>3, <1>6
  <2>2. FirstPart(s) = Part(end > 1, SubSeq(s, pos + 2, end - 1), "kComplete")
    BY <1>4, <1>6, <2>1, Zenon
  <2>3. FirstPart(s).writes = (end > 1) /\ FirstPart(s).piece = SubSeq(s, pos + 2, end - 1)
    <3>1. /\ Part(end > 1, SubSeq(s, pos + 2, end - 1), "kComplete").writes = (end > 1)
          /\ Part(end > 1, SubSeq(s, pos + 2, end - 1), "kComplete").piece
               = SubSeq(s, pos + 2, end - 1)
      BY Zenon DEF Part
    <3> QED BY <2>2, <3>1, Zenon
  <2>4. ~(end > 1)
    BY <2>3, Zenon
  <2>5. pos + 2 \in Int /\ end - 1 \in Int /\ end - 1 < pos + 2
    BY <1>2, <1>3, <1>6, <2>4
  <2> QED BY <2>3, <2>5, EmptyCut
<1>7. CASE pos # 0 /\ end = 0
  <2>1. pos > 0 /\ ~(end > 0)
    BY <1>2, <1>3, <1>7
  <2>2. FirstPart(s) = Part(pos + 1 < Len(s), Rest(s, pos + 1), "kExpectBoundary")
    BY <1>4, <1>7, <2>1, Zenon
  <2>3. /\ FirstPart(s).writes = (pos + 1 < Len(s))
        /\ FirstPart(s).piece = SubSeq(s, pos + 1 + 1, Len(s))
    <3>1. /\ Part(pos + 1 < Len(s), Rest(s, pos + 1), "kExpectBoundary").writes
               = (pos + 1 < Len(s))
          /\ Part(pos + 1 < Len(s), Rest(s, pos + 1), "kExpectBoundary").piece
               = Rest(s, pos + 1)
      BY Zenon DEF Part
    <3> QED BY <2>2, <3>1, Zenon DEF Rest
  <2>4. ~(pos + 1 < Len(s))
    BY <2>3, Zenon
  <2>5. pos + 1 + 1 \in Int /\ Len(s) \in Int /\ Len(s) < pos + 1 + 1
    BY <1>2, <1>3, <1>7, <2>4
  <2> QED BY <2>3, <2>5, EmptyCut
<1> QED BY <1>5, <1>6, <1>7

\* What a later call does with a body, by the state of the context.
LEMMA NextCases ==
    ASSUME NEW S, NEW s \in Seq(S), NEW st
    PROVE  /\ ~NextPart(st, s).writes => NextPart(st, s).piece = <<>>
           /\ s # <<>> /\ st = "kExpectContent" => NextPart(st, s).writes
           /\ s # <<>> /\ st = "kExpectBoundary" =>
                 \/ NextPart(st, s).writes \/ Find(s, EndBoundary) = 1
                 \/ Find(s, EndBoundary) = 0 /\ Find(s, Boundary) # 0
           /\ NextPart(st, s).next \in {st, "kExpectBoundary", "kExpectContent", "kComplete"}
           /\ st \notin {"kExpectBoundary", "kExpectContent"} =>
                 ~NextPart(st, s).writes /\ NextPart(st, s).next = st
           /\ st \in {"kExpectBoundary", "kExpectContent"} =>
                 NextPart(st, s).next \in {"kExpectBoundary", "kExpectContent", "kComplete"}
<1>1. PICK pos, end : pos = Find(s, Boundary) /\ end = Find(s, EndBoundary)
  OBVIOUS
<1>2. /\ pos = 0 \/ pos \in 1 .. Len(s) - 1
      /\ end = 0 \/ end \in 1 .. Len(s) - 2
  BY <1>1, FindPlaces
<1>3. Len(s) \in Nat
  OBVIOUS
<1>4. CASE s = <<>>
  <2>1. NextPart(st, s) = Nothing(st)
    BY <1>4 DEF NextPart
  <2>2. ~Nothing(st).writes /\ Nothing(st).piece = <<>> /\ Nothing(st).next = st
    BY DEF Nothing, Part
  <2> QED BY <1>4, <2>1, <2>2
<1>5. CASE s # <<>> /\ st = "kExpectBoundary"
  <2>1. NextPart(st, s) =
          IF end > 0 THEN Part(end > 1, SubSeq(s, 1, end - 1), "kComplete")
          ELSE IF pos = 0 THEN Part(TRUE, s, st)
          ELSE IF FindFrom(s, <<"crlf", "crlf">>, pos) = 0 THEN Nothing(st)
          ELSE Part(pos > 1, SubSeq(s, 1, pos - 1), "kExpectContent")
    BY <1>1, <1>5 DEF NextPart
  <2>2. CASE end # 0
    <3>1. end > 0 /\ (end > 1 \/ end = 1)
      BY <1>2, <1>3, <2>2
    <3>2. NextPart(st, s) = Part(end > 1, SubSeq(s, 1, end - 1), "kComplete")
      BY <2>1, <3>1
    <3>3. /\ NextPart(st, s).writes = (end > 1) /\ NextPart(st, s).next = "kComplete"
          /\ NextPart(st, s).piece = SubSeq(s, 1, end - 1)
      <4>1. /\ Part(end > 1, SubSeq(s, 1, end - 1), "kComplete").writes = (end > 1)
            /\ Part(end > 1, SubSeq(s, 1, end - 1), "kComplete").next = "kComplete"
            /\ Part(end > 1, SubSeq(s, 1, end - 1), "kComplete").piece = SubSeq(s, 1, end - 1)
        BY Zenon DEF Part
      <4> QED BY <3>2, <4>1, Zenon
    <3>4. end = 1 => SubSeq(s, 1, end - 1) = <<>>
      BY EmptyCut
    <3> QED BY <1>1, <1>5, <3>1, <3>3, <3>4, Zenon
  <2>3. CASE end = 0 /\ pos = 0
    <3>1. NextPart(st, s) = Part(TRUE, s, st)
      BY <2>1, <2>3
    <3>2. NextPart(st, s).writes = TRUE /\ NextPart(st, s).next = st
      BY <3>1 DEF Part, Nothing
    <3> QED BY <1>5, <3>2, Zenon
  <2>4. CASE end = 0 /\ pos # 0
    <3>1. ~(end > 0)
      BY <2>4
    <3>2. CASE FindFrom(s, <<"crlf", "crlf">>, pos) = 0
      <4>1. NextPart(st, s) = Nothing(st)
        BY <2>1, <2>4, <3>1, <3>2, Zenon
      <4>2. ~Nothing(st).writes /\ Nothing(st).piece = <<>> /\ Nothing(st).next = st
        BY DEF Nothing, Part
      <4> QED BY <1>1, <1>5, <2>4, <4>1, <4>2, Zenon
    <3>3. CASE FindFrom(s, <<"crlf", "crlf">>, pos) # 0
      <4>1. NextPart(st, s) = Part(pos > 1, SubSeq(s, 1, pos - 1), "kExpectContent")
        BY <2>1, <2>4, <3>1, <3>3, Zenon
      <4>2. /\ NextPart(st, s).writes = (pos > 1) /\ NextPart(st, s).next = "kExpectContent"
            /\ NextPart(st, s).piece = SubSeq(s, 1, pos - 1)
        <5>1. /\ Part(pos > 1, SubSeq(s, 1, pos - 1), "kExpectContent").writes = (pos > 1)
              /\ Part(pos > 1, SubSeq(s, 1, pos - 1), "kExpectContent").next
                   = "kExpectContent"
              /\ Part(pos > 1, SubSeq(s, 1, pos - 1), "kExpectContent").piece
                   = SubSeq(s, 1, pos - 1)
          BY Zenon DEF Part
        <5> QED BY <4>1, <5>1, Zenon
      <4>3. pos > 1 \/ pos = 1
        BY <1>2, <1>3, <2>4
      <4>4. pos = 1 => SubSeq(s, 1, pos - 1) = <<>>
        BY EmptyCut
      <4> QED BY <1>1, <1>5, <2>4, <4>2, <4>3, <4>4, Zenon
    <3> QED BY <3>2, <3>3, Zenon
  <2> QED BY <2>2, <2>3, <2>4, Zenon
<1>6. CASE s # <<>> /\ st = "kExpectContent"
  <2>1. NextPart(st, s) =
          IF pos > 0 THEN Part(TRUE, SubSeq(s, 1, pos - 1), "kExpectBoundary")
          ELSE Part(TRUE, s, st)
    BY <1>1, <1>6 DEF NextPart
  <2>2. PICK q, n : NextPart(st, s) = Part(TRUE, q, n) /\ n \in {st, "kExpectBoundary"}
    BY <2>1, Zenon
  <2>3. NextPart(st, s).writes = TRUE /\ NextPart(st, s).next = n
    BY <2>2 DEF Part, Nothing
  <2> QED BY <1>6, <2>2, <2>3, Zenon
<1>7. CASE s # <<>> /\ st \notin {"kExpectBoundary", "kExpectContent"}
  <2>1. NextPart(st, s) = Nothing(st)
    BY <1>7 DEF NextPart
  <2>2. ~Nothing(st).writes /\ Nothing(st).piece = <<>> /\ Nothing(st).next = st
    BY DEF Nothing, Part
  <2> QED BY <1>7, <2>1, <2>2, Zenon
<1> QED BY <1>4, <1>5, <1>6, <1>7, Zenon

LEMMA Silent ==
    ASSUME body \in Seq(Token), ~ThisPart.writes
    PROVE  ThisPart.piece = <<>> /\ Len(ThisPart.piece) = 0
<1>1. ThisPart.piece = <<>>
  <2>1. CASE ctx = NoContext
    <3>1. ThisPart = FirstPart(body)
      BY <2>1, Zenon DEF ThisPart
    <3> QED BY <3>1, FirstSilent, Zenon
  <2>2. CASE ctx # NoContext
    <3>1. ThisPart = NextPart(ctx.state, body)
      BY <2>2, Zenon DEF ThisPart
    <3> QED BY <3>1, NextCases, Zenon
  <2> QED BY <2>1, <2>2
<1>2. Len(<<>>) = 0
  OBVIOUS
<1> QED BY <1>1, <1>2, Zenon

\* What is counted of a part that could be written.
LEMMA WrittenCounts ==
    ASSUME StoreInv, body \in Seq(Token), NEW n \in Amounts, Written(n)
    PROVE  /\ n \in 0 .. Len(ThisPart.piece) /\ After(Current.file) /\ Total \in Nat
           /\ \/ Counts(Total, Len(disk'[Current.file]))
              \/ /\ ~ThisPart.writes /\ ctx # NoContext /\ sc.mayFail /\ ctx.bad
                 /\ Total = ctx.total /\ Current.file = ctx.file
                 /\ Len(disk'[Current.file]) = Len(disk[ctx.file])
<1>1. PICK l : l = Len(ThisPart.piece)
  BY Zenon
<1>2. l \in Nat
  BY <1>1, PieceIs
<1>3. n \in 0 .. l /\ (sc.mayFail \/ n = l)
  BY <1>1, <1>2 DEF Amounts
<1>4. PICK f, k : f = Current.file /\ k = Current.total
  OBVIOUS
<1>5. PICK x, y : x = Len(Files[f]) /\ y = Len(disk'[f])
  BY Zenon
<1>6. n \in 0 .. Len(ThisPart.piece)
  BY <1>1, <1>3, Zenon
<1>7. After(f) /\ x \in Nat /\ y = x + n
  <2>1. Stores(n)
    BY Zenon DEF Written
  <2> QED BY <1>4, <1>5, <1>6, <2>1, StoresAfter, Zenon
<1>8. k \in Nat /\ (Counts(k, x) \/ (sc.mayFail /\ Current.bad))
  BY <1>4, <1>5, CurrentIs, Zenon
<1>9. Total = k + l
  BY <1>1, <1>4, Zenon DEF Total
<1>10. Total \in Nat
  BY <1>2, <1>8, <1>9
<1>11. CASE Counts(k, x)
  <2>1. Counts(k + l, y)
    BY <1>2, <1>3, <1>7, <1>8, <1>11 DEF Counts
  <2> QED BY <1>4, <1>5, <1>6, <1>7, <1>9, <1>10, <2>1, Zenon
<1>12. CASE ~Counts(k, x)
  <2>1. sc.mayFail /\ Current.bad
    BY <1>8, <1>12, Zenon
  <2>2. ~ThisPart.writes
    BY <2>1, Zenon DEF Written
  <2>3. ctx # NoContext
    <3>1. ~Context(Len(disk) + 1, "kExpectHeaders", 0, FALSE).bad
      BY DEF Context
    <3> QED BY <2>1, <3>1, Zenon DEF Current
  <2>4. Current = ctx /\ Files = disk
    BY <2>3, Zenon DEF Current, Files
  <2>5. l = 0
    BY <1>1, <2>2, Silent, Zenon
  <2>6. k + l = k /\ y = x
    BY <1>3, <1>7, <1>8, <2>5
  <2> QED BY <1>4, <1>5, <1>6, <1>7, <1>9, <1>10, <2>1, <2>2, <2>3, <2>4, <2>6, Zenon
<1> QED BY <1>11, <1>12

\* A call that ends so keeps the store in order.
LEMMA AfterStore ==
    ASSUME StoreInv, sc' = sc, NEW c, NEW total \in Nat, After(c),
           \/ ctx' = NoContext
           \/ /\ ctx'.file = c /\ ctx'.total = total /\ ctx'.bad \in BOOLEAN
              /\ Counts(total, Len(disk'[c])) \/ (sc.mayFail /\ ctx'.bad),
           \/ rows' = rows
           \/ /\ rows' = Append(rows, [file |-> c, size |-> total]) /\ ctx' = NoContext
              /\ Records(total, Len(disk'[c]))
    PROVE  StoreInv'
<1>1. c \in Nat /\ c >= 1 /\ disk' \in Seq(Seq(Token)) /\ Len(disk') = c
  BY Zenon DEF After
<1>2. \A i \in 1 .. Len(rows) :
         /\ rows[i].file \in 1 .. c /\ rows[i].file # c
         /\ Records(rows[i].size, Len(disk'[rows[i].file]))
  BY Zenon DEF After
<1>3. \A n, m : (Counts(n, m)' <=> Counts(n, m)) /\ (Records(n, m)' <=> Records(n, m))
  BY DEF Counts, Records
<1>4. PICK R : R = [file : 1 .. c, size : Nat]
  BY Zenon
<1>5. rows \in Seq(R)
  <2>1. PICK Q : Q = [file : 1 .. Len(disk), size : Nat]
    BY Zenon
  <2>2. rows \in Seq(Q)
    BY <2>1, Zenon DEF StoreInv
  <2>3. ASSUME NEW i \in 1 .. Len(rows) PROVE rows[i] \in R
    <3>1. rows[i] \in Q
      BY <2>2
    <3>2. rows[i].file \in 1 .. c
      BY <1>2
    <3> QED BY <1>4, <2>1, <3>1, <3>2
  <2> QED BY <2>2, <2>3, Elements
<1>6. PICK row : row = [file |-> c, size |-> total]
  OBVIOUS
<1>7. row \in R /\ row.file = c /\ row.size = total
  BY <1>1, <1>4, <1>6
<1>8. rows' \in Seq(R) /\ \A i \in 1 .. Len(rows') :
                             \/ i \in 1 .. Len(rows) /\ rows'[i] = rows[i]
                             \/ rows'[i] = row /\ Records(total, Len(disk'[c]))
  <2>1. CASE rows' = rows
    BY <1>5, <2>1
  <2>2. CASE rows' = Append(rows, row) /\ Records(total, Len(disk'[c]))
    BY <1>5, <1>7, <2>2
  <2> QED BY <1>6, <2>1, <2>2, Zenon
<1>9. ASSUME NEW i \in 1 .. Len(rows')
      PROVE  Records(rows'[i].size, Len(disk'[rows'[i].file]))
  BY <1>2, <1>7, <1>8, Zenon
<1>10. (\A i \in 1 .. Len(rows) : Records(rows[i].size, Len(disk[rows[i].file])))'
  BY <1>3, <1>9, Zenon
<1>11. ctx'.file \in 0 .. c /\ ctx'.total \in Nat /\ ctx'.bad \in BOOLEAN
  <2>1. CASE ctx' = NoContext
    <3>1. ctx'.file = 0 /\ ctx'.total = 0 /\ ctx'.bad = FALSE
      BY <2>1 DEF NoContext, Context
    <3>2. ctx'.file \in 0 .. c /\ ctx'.total \in Nat
      BY <1>1, <3>1
    <3> QED BY <3>1, <3>2, Zenon
  <2>2. CASE ctx'.file = c /\ ctx'.total = total /\ ctx'.bad \in BOOLEAN
    <3>1. c \in 0 .. c
      BY <1>1
    <3> QED BY <2>2, <3>1, Zenon
  <2> QED BY <2>1, <2>2, Zenon
<1>12. ASSUME ctx' # NoContext
       PROVE  /\ ctx'.file = Len(disk') /\ ctx'.file >= 1
              /\ (Counts(ctx.total, Len(disk[ctx.file])) \/ (sc.mayFail /\ ctx.bad))'
              /\ \A i \in 1 .. Len(rows') : rows'[i].file # ctx'.file
  <2>1. /\ ctx'.file = c /\ ctx'.total = total /\ rows' = rows
        /\ Counts(total, Len(disk'[c])) \/ (sc.mayFail /\ ctx'.bad)
    BY <1>12, Zenon
  <2>2. (Counts(ctx.total, Len(disk[ctx.file])) \/ (sc.mayFail /\ ctx.bad))'
    BY <1>3, <2>1, Zenon
  <2> QED BY <1>1, <1>2, <2>1, <2>2, Zenon
<1>13. NoContext' = NoContext
  BY DEF NoContext, Context
<1> QED BY <1>1, <1>4, <1>8, <1>10, <1>11, <1>12, <1>13, Zenon DEF StoreInv

----------------------------------------------------------------------------
\* What the handler does to the store and the context, whatever it answers.  An
\* upload is finished with what its context has counted, or with nothing.
FinishSound ==
    \/ ThisPart.writes \/ ctx = NoContext \/ ctx.total = 0
    \/ Counts(ctx.total, Len(disk[ctx.file]))

LEMMA ContextIs ==
    \A f, s, n, b : /\ Context(f, s, n, b).file = f /\ Context(f, s, n, b).state = s
                    /\ Context(f, s, n, b).total = n /\ Context(f, s, n, b).bad = b
BY DEF Context

LEMMA CallStore ==
    ASSUME StoreInv, body \in Seq(Token), sc' = sc, NEW reply, handleFileUpload(reply),
           Complete => FinishSound
    PROVE  StoreInv'
<1>1. PICK f, t : f = Current.file /\ t = Total
  OBVIOUS
<1>2. ASSUME NEW c, NEW b, Leaves(c, b) PROVE ctx' = NoContext \/ ctx' = c
  BY <1>2, Zenon DEF Leaves, reset
<1>3. CASE Denied \/ CannotOpen
  <2>1. ctx' = ctx \/ ctx' = NoContext
    BY <1>2, <1>3, Zenon DEF Denied, CannotOpen
  <2>2. UNCHANGED <<disk, rows>>
    BY <1>3, Zenon DEF Denied, CannotOpen, storeVars
  <2> QED BY <2>1, <2>2, StoreSame
<1>4. CASE WriteThrows
  <2>1. PICK n, s : n = Current.total /\ s = Current.state
    OBVIOUS
  <2>2. rows' = rows /\ (ctx' = NoContext \/ ctx' = Context(f, s, n, TRUE))
    BY <1>1, <1>2, <1>4, <2>1, Zenon DEF WriteThrows
  <2>3. n \in Nat /\ Current.bad \in BOOLEAN
        /\ (Counts(n, Len(Files[f])) \/ (sc.mayFail /\ Current.bad))
    BY <1>1, <2>1, CurrentIs, Zenon
  <2>4. PICK k \in 0 .. Len(ThisPart.piece) : Stores(k) /\ (sc.mayFail \/ k = 0)
    <3>1. Len(ThisPart.piece) \in Nat
      BY PieceIs
    <3>2. 0 \in 0 .. Len(ThisPart.piece)
      BY <3>1
    <3>3. \A j \in 0 .. Len(ThisPart.piece) - 1 : j \in 0 .. Len(ThisPart.piece)
      BY <3>1
    <3> QED BY <1>4, <3>2, <3>3, Zenon DEF WriteThrows
  <2>5. /\ After(f) /\ Len(Files[f]) \in Nat
        /\ Len(disk'[f]) = Len(Files[f]) + k
    BY <1>1, <2>4, StoresAfter, Zenon
  <2>6. Counts(n, Len(disk'[f])) \/ sc.mayFail
    <3>1. CASE sc.mayFail
      BY <3>1
    <3>2. CASE ~sc.mayFail
      <4>1. k = 0 /\ Counts(n, Len(Files[f]))
        BY <2>3, <2>4, <3>2, Zenon
      <4>2. Len(disk'[f]) = Len(Files[f])
        BY <2>5, <4>1
      <4> QED BY <4>1, <4>2, Zenon
    <3> QED BY <3>1, <3>2, Zenon
  <2>7. \/ ctx' = NoContext
        \/ /\ ctx'.file = f /\ ctx'.total = n /\ ctx'.bad \in BOOLEAN
           /\ Counts(n, Len(disk'[f])) \/ (sc.mayFail /\ ctx'.bad)
    <3>1. /\ Context(f, s, n, TRUE).file = f /\ Context(f, s, n, TRUE).total = n
          /\ Context(f, s, n, TRUE).bad = TRUE
      BY Zenon DEF Context
    <3>2. ASSUME ctx' = Context(f, s, n, TRUE)
          PROVE  ctx'.file = f /\ ctx'.total = n /\ ctx'.bad = TRUE
      BY <3>1, <3>2, Zenon
    <3> QED BY <2>2, <2>6, <3>2, Zenon
  <2> QED BY <2>2, <2>3, <2>5, <2>7, AfterStore, Zenon
<1>5. ASSUME NEW n \in Amounts, Finished(n)
      PROVE  StoreInv'
  <2>1. Written(n) /\ Complete
    BY <1>5, Zenon DEF Finished
  <2>2. /\ After(f) /\ t \in Nat
        /\ \/ Counts(t, Len(disk'[f]))
           \/ /\ ~ThisPart.writes /\ ctx # NoContext /\ sc.mayFail
              /\ t = ctx.total /\ Len(disk'[f]) = Len(disk[ctx.file])
    BY <1>1, <2>1, WrittenCounts, Zenon
  <2>3. Counts(t, Len(disk'[f])) \/ (sc.mayFail /\ t = 0)
    BY <2>1, <2>2, Zenon DEF FinishSound
  <2>4. Len(disk'[f]) \in Nat
    <3>1. disk' \in Seq(Seq(Token)) /\ f \in 1 .. Len(disk')
      BY <2>2 DEF After
    <3> QED BY <3>1
  <2>5. Records(t, Len(disk'[f]))
    BY <2>2, <2>3, <2>4 DEF Counts, Records
  <2>6. ctx' = NoContext
    BY <1>2, <1>5, Zenon DEF Finished
  <2>7. rows' = rows \/ rows' = Append(rows, [file |-> f, size |-> t])
    BY <1>1, <1>5, Zenon DEF Finished
  <2> QED BY <2>2, <2>5, <2>6, <2>7, AfterStore, Zenon
<1>6. ASSUME NEW n \in Amounts, Waiting(n)
      PROVE  StoreInv'
  <2>1. Written(n)
    BY <1>6, Zenon DEF Waiting
  <2>2. /\ After(f) /\ t \in Nat
        /\ Counts(t, Len(disk'[f])) \/ (sc.mayFail /\ ctx # NoContext /\ ctx.bad)
    BY <1>1, <2>1, WrittenCounts, Zenon
  <2>3. PICK s, b : s = ThisPart.next /\ b = Failing(n)
    OBVIOUS
  <2>4. b \in BOOLEAN
    BY <2>3, Zenon DEF Failing
  <2>5. ctx # NoContext /\ ctx.bad => b
    BY <2>3, Zenon DEF Failing, Current
  <2>6. rows' = rows /\ (ctx' = NoContext \/ ctx' = Context(f, s, t, b))
    BY <1>1, <1>2, <1>6, <2>3, Zenon DEF Waiting
  <2>7. \/ ctx' = NoContext
        \/ /\ ctx'.file = f /\ ctx'.total = t /\ ctx'.bad \in BOOLEAN
           /\ Counts(t, Len(disk'[f])) \/ (sc.mayFail /\ ctx'.bad)
    <3>1. /\ Context(f, s, t, b).file = f /\ Context(f, s, t, b).total = t
          /\ Context(f, s, t, b).bad = b
      BY Zenon DEF Context
    <3>2. ASSUME ctx' = Context(f, s, t, b)
          PROVE  ctx'.file = f /\ ctx'.total = t /\ ctx'.bad = b
      BY <3>1, <3>2, Zenon
    <3> QED BY <2>2, <2>4, <2>5, <2>6, <3>2, Zenon
  <2> QED BY <2>2, <2>6, <2>7, AfterStore, Zenon
<1> QED BY <1>3, <1>4, <1>5, <1>6, Zenon DEF handleFileUpload
----------------------------------------------------------------------------
(* onMessage's calls of the handler.                                       *)

\* A call leaves the body where it is or takes all of it.
LEMMA CallLeaves ==
    ASSUME NEW reply, handleFileUpload(reply)
    PROVE  \E c : Leaves(c, body) \/ Leaves(c, <<>>)
<1>1. Denied \/ CannotOpen \/ WriteThrows \/ \E n \in Amounts : Finished(n) \/ Waiting(n)
  BY DEF handleFileUpload
<1>2. Denied \/ CannotOpen \/ WriteThrows => \E c : Leaves(c, body)
  BY Zenon DEF Denied, CannotOpen, WriteThrows
<1>3. ASSUME NEW n \in Amounts, Finished(n) \/ Waiting(n) PROVE \E c : Leaves(c, <<>>)
  BY <1>3, Zenon DEF Finished, Waiting
<1> QED BY <1>1, <1>2, <1>3, Zenon

LEMMA ChunkParser ==
    ASSUME UploadInv, ChunkCall
    PROVE  ParserInv' /\ conn' = "open" /\ received' = received /\ body' \in {body, <<>>}
<1>1. /\ N \in Nat /\ Len(Body) = N + 11 /\ length \in Nat /\ received \in 0 .. length
  BY AtIs DEF UploadInv
<1>2. /\ phase = "dispatch" /\ result = "kHeadersComplete" /\ phase' = "idle"
      /\ UNCHANGED <<at, buf, result, conn>>
  BY DEF ChunkCall
<1>3. conn = "open" /\ Parsing /\ ParserTypes
  BY <1>2, Running DEF UploadInv, ParserInv
<1>4. /\ state = "kExpectBody" /\ length = Len(Body)
      /\ Len(body) <= received /\ body = SubSeq(Body, Kept + 1, received)
  BY <1>2, <1>3, Zenon DEF Parsing
<1>5. PICK c : Leaves(c, body) \/ Leaves(c, <<>>)
  BY CallLeaves DEF ChunkCall
<1>6. body' \in {body, <<>>} /\ UNCHANGED <<state, length, received>>
  BY <1>2, <1>5 DEF Leaves
<1>7. Consumed' = Consumed
  BY <1>6 DEF Consumed
<1>8. body' \in Seq(Token)
  <2>1. body \in Seq(Token)
    BY <1>3 DEF ParserTypes
  <2>2. <<>> \in Seq(Token)
    OBVIOUS
  <2> QED BY <1>6, <2>1, <2>2, Zenon
<1>9. Len(body') <= received /\ body' = SubSeq(Body, Kept' + 1, received)
  <2>1. CASE body' = body
    <3>1. Kept' = Kept
      BY <1>6, <2>1 DEF Kept
    <3> QED BY <1>4, <2>1, <3>1, Zenon
  <2>2. CASE body' = <<>>
    <3>1. Kept' = received
      BY <1>1, <1>6, <2>2 DEF Kept
    <3>2. SubSeq(Body, received + 1, received) = <<>>
      <4>1. received + 1 \in Int /\ received \in Int /\ received < received + 1
        BY <1>1
      <4>2. Body \in Seq(Token)
        BY Tokens
      <4> QED BY <4>1, <4>2, EmptyCut
    <3> QED BY <1>1, <2>2, <3>1, <3>2
  <2> QED BY <1>6, <2>1, <2>2
<1>10. ParserTypes'
  BY <1>2, <1>3, <1>6, <1>8 DEF ParserTypes
<1>11. Parsing'
  BY <1>2, <1>3, <1>4, <1>6, <1>7, <1>9, Zenon DEF Parsing
<1> QED BY <1>2, <1>3, <1>6, <1>10, <1>11 DEF ParserInv

LEMMA RequestParser ==
    ASSUME UploadInv, RequestCall
    PROVE  ParserInv' /\ conn' = "closed"
<1>1. /\ result = "kGotRequest" /\ phase' = "idle" /\ conn' = "closed"
      /\ UNCHANGED <<at, buf, result>>
  BY DEF RequestCall
<1>2. PICK reply : handleFileUpload(reply)
  BY DEF RequestCall
<1>3. PICK c : Leaves(c, body) \/ Leaves(c, <<>>)
  BY <1>2, CallLeaves
<1>4. state' = "kExpectRequestLine" /\ length' = 0 /\ received' = 0 /\ body' = <<>>
  BY <1>1, <1>3 DEF Leaves, reset
<1>5. ParserTypes
  BY DEF UploadInv, ParserInv
<1>6. ParserTypes'
  BY <1>1, <1>4, <1>5 DEF ParserTypes
<1> QED BY <1>1, <1>6 DEF ParserInv

\* Replies.
LEMMA RepliesType ==
    ASSUME UploadInv, RequestCall
    PROVE  replies' \in Seq({200, 401, 500})
<1>1. PICK reply \in {200, 401, 500} : replies' = Append(replies, reply)
  BY DEF RequestCall
<1>2. replies \in Seq({200, 401, 500})
  BY DEF UploadInv, RestTypes
<1> QED BY <1>1, <1>2
----------------------------------------------------------------------------
(* What a thrown write leaves behind.                                      *)

\* Where the boundary is found in any part of the body.
LEMMA NoEndYet ==
    ASSUME NEW k \in Nat, NEW z \in Nat, k <= z, z <= N + 11, z <= N + 9 \/ k >= N + 9,
           NEW s, Window(s, k, z)
    PROVE  Find(s, EndBoundary) = 0
<1>1. N \in Nat
  BY BodyIs
<1>2. s \in Seq(Token)
  BY DEF Window
<1>3. ASSUME NEW j \in 1 .. Len(s) - 2 PROVE s[j + 2] # "--"
  <2>1. PICK n : n = j + 2
    OBVIOUS
  <2>2. Len(s) = z - k
    BY DEF Window
  <2>3. n \in 1 .. z - k /\ k + n \in 1 .. N + 11 /\ k + n # N + 10
    BY <1>1, <2>1, <2>2
  <2>4. s[n] = Body[k + n]
    BY <2>3 DEF Window
  <2>5. s[n] # "--"
    BY <2>3, <2>4, BodyMarks
  <2> QED BY <2>1, <2>5
<1> QED BY <1>2, <1>3, NoEndIn

LEMMA NoBoundaryYet ==
    ASSUME NEW k \in Nat, NEW z \in Nat, k >= 1, k <= z, z <= N + 11,
           z <= N + 8 \/ k >= N + 9, NEW s, Window(s, k, z)
    PROVE  Find(s, Boundary) = 0
<1>1. N \in Nat
  BY BodyIs
<1>2. s \in Seq(Token)
  BY DEF Window
<1>3. PICK x, y : x = "bound" /\ y = "ary"
  OBVIOUS
<1>4. Pair(Boundary, x, y)
  BY <1>3 DEF Boundary, Pair
<1>5. ASSUME NEW j \in 1 .. Len(s) - 1 PROVE s[j] # x
  <2>1. Len(s) = z - k
    BY DEF Window
  <2>2. j \in 1 .. z - k /\ k + j \in 1 .. N + 11 /\ k + j # N + 8 /\ k + j # 1
    BY <1>1, <2>1
  <2>3. s[j] = Body[k + j]
    BY <2>2 DEF Window
  <2> QED BY <1>3, <2>2, <2>3, BodyMarks
<1> QED BY <1>2, <1>4, <1>5, NoPairIn

\* A context whose write has thrown writes again when the request is whole.
LEMMA ThrowsAgain ==
    ASSUME NEW k \in Nat, k < N + 11, Behind(k), NEW s, Window(s, k, N + 11),
           NEW st \in {"kExpectBoundary", "kExpectContent"}
    PROVE  NextPart(st, s).writes
<1>1. N \in Nat
  BY BodyIs
<1>2. s \in Seq(Token) /\ s # <<>>
  <2>1. s \in Seq(Token) /\ Len(s) = (N + 11) - k
    BY DEF Window
  <2>2. Len(s) # 0
    BY <1>1, <2>1
  <2> QED BY <2>1, <2>2
<1>3. CASE st = "kExpectContent"
  BY <1>2, <1>3, NextCases
<1>4. CASE st = "kExpectBoundary"
  <2>1. CASE k \in 1 .. N + 4
    <3>1. k <= N + 7
      BY <1>1, <2>1
    <3>2. Find(s, EndBoundary) = (N + 8) - k
      BY <3>1, EndFound
    <3>3. (N + 8) - k # 1 /\ (N + 8) - k # 0
      BY <1>1, <2>1
    <3>4. \/ NextPart(st, s).writes \/ Find(s, EndBoundary) = 1
          \/ Find(s, EndBoundary) = 0 /\ Find(s, Boundary) # 0
      BY <1>2, <1>4, NextCases
    <3> QED BY <3>2, <3>3, <3>4, Zenon
  <2>2. CASE k >= N + 9
    <3>1. PICK z : z = N + 11
      OBVIOUS
    <3>2. z \in Nat /\ k <= z /\ z <= N + 11 /\ k >= 1
      BY <1>1, <2>2, <3>1
    <3>3. Find(s, EndBoundary) = 0 /\ Find(s, Boundary) = 0
      BY <2>2, <3>1, <3>2, NoEndYet, NoBoundaryYet
    <3>4. \/ NextPart(st, s).writes \/ Find(s, EndBoundary) = 1
          \/ Find(s, EndBoundary) = 0 /\ Find(s, Boundary) # 0
      BY <1>2, <1>4, NextCases
    <3>5. 0 # 1
      OBVIOUS
    <3> QED BY <3>3, <3>4, <3>5, Zenon
  <2> QED BY <2>1, <2>2 DEF Behind
<1> QED BY <1>3, <1>4

\* In the middle of a request it writes again, or drops the body together with
\* both halves of the boundary.
LEMMA ThrowsOrDrops ==
    ASSUME NEW k \in 1 .. N + 4, NEW z \in Nat, k < z, z <= N + 10, NEW s, Window(s, k, z),
           NEW st \in {"kExpectBoundary", "kExpectContent"}
    PROVE  /\ NextPart(st, s).writes \/ z >= N + 9
           /\ NextPart(st, s).writes \/ NextPart(st, s).next # "kComplete"
<1>1. N \in Nat /\ k \in Nat /\ k >= 1
  BY BodyIs
<1>2. s \in Seq(Token) /\ s # <<>> /\ Len(s) = z - k
  <2>1. s \in Seq(Token) /\ Len(s) = z - k
    BY DEF Window
  <2>2. Len(s) # 0
    BY <1>1, <2>1
  <2> QED BY <2>1, <2>2
<1>3. CASE st = "kExpectContent"
  BY <1>2, <1>3, NextCases
<1>4. CASE st = "kExpectBoundary" /\ z <= N + 9
  <2>1. Find(s, EndBoundary) = 0 /\ k <= z /\ z <= N + 11
    <3>1. k <= z /\ z <= N + 11
      BY <1>1
    <3> QED BY <1>1, <1>4, <3>1, NoEndYet
  <2>2. z <= N + 8 => Find(s, Boundary) = 0
    BY <1>1, <2>1, NoBoundaryYet
  <2>3. z <= N + 8 \/ z >= N + 9
    BY <1>1
  <2>4. NextPart(st, s).writes \/ z >= N + 9
    <3>1. \/ NextPart(st, s).writes \/ Find(s, EndBoundary) = 1
          \/ Find(s, EndBoundary) = 0 /\ Find(s, Boundary) # 0
      BY <1>2, <1>4, NextCases
    <3>2. 0 # 1
      OBVIOUS
    <3> QED BY <2>1, <2>2, <2>3, <3>1, <3>2, Zenon
  <2>5. NextPart(st, s).next # "kComplete"
    <3>1. PICK pos : pos = Find(s, Boundary)
      OBVIOUS
    <3>2. NextPart(st, s) = IF pos = 0 THEN Part(TRUE, s, st)
            ELSE IF FindFrom(s, <<"crlf", "crlf">>, pos) = 0 THEN Nothing(st)
            ELSE Part(pos > 1, SubSeq(s, 1, pos - 1), "kExpectContent")
      BY <1>2, <1>4, <2>1, <3>1 DEF NextPart
    <3>3. NextPart(st, s).next \in {st, "kExpectContent"}
      BY <3>2 DEF Part, Nothing
    <3> QED BY <1>4, <3>3
  <2> QED BY <2>4, <2>5
<1>5. CASE st = "kExpectBoundary" /\ z = N + 10
  <2>1. PICK e : e = (N + 8) - k
    OBVIOUS
  <2>2. e \in Nat /\ e > 1 /\ k + e = N + 8 /\ e + 2 = z - k /\ e \in 1 .. Len(s) - 2
    BY <1>1, <1>2, <1>5, <2>1
  <2>3. s[e] = "bound" /\ s[e + 1] = "ary" /\ s[e + 2] = "--"
    <3>1. /\ e \in 1 .. z - k /\ e + 1 \in 1 .. z - k /\ e + 2 \in 1 .. z - k
          /\ k + (e + 1) = N + 9 /\ k + (e + 2) = N + 10
      BY <1>1, <2>2
    <3>2. s[e] = Body[N + 8] /\ s[e + 1] = Body[N + 9] /\ s[e + 2] = Body[N + 10]
      BY <2>2, <3>1 DEF Window
    <3> QED BY <3>2, BodyIs
  <2>4. ASSUME NEW j \in 1 .. e - 1 PROVE s[j + 2] # "--"
    <3>1. PICK n : n = j + 2
      OBVIOUS
    <3>2. n \in 1 .. z - k /\ k + n \in 1 .. N + 11 /\ k + n # N + 10
      BY <1>1, <1>5, <2>2, <3>1
    <3>3. s[n] = Body[k + n]
      BY <3>2 DEF Window
    <3>4. s[n] # "--"
      BY <3>2, <3>3, BodyMarks
    <3> QED BY <3>1, <3>4
  <2>5. FirstEnd(s, e)
    BY <2>2, <2>3, <2>4 DEF FirstEnd
  <2>6. Find(s, EndBoundary) = e /\ e # 0 /\ e # 1
    BY <1>2, <2>2, <2>5, FirstEndInAt
  <2>7. NextPart(st, s).writes
    <3>1. \/ NextPart(st, s).writes \/ Find(s, EndBoundary) = 1
          \/ Find(s, EndBoundary) = 0 /\ Find(s, Boundary) # 0
      BY <1>2, <1>5, NextCases
    <3> QED BY <2>6, <3>1, Zenon
  <2> QED BY <2>7
<1>6. z <= N + 9 \/ z = N + 10
  BY <1>1
<1> QED BY <1>3, <1>4, <1>5, <1>6

\* The body of a call, as a window on the request's.
LEMMA CallWindow ==
    ASSUME UploadInv, phase = "dispatch"
    PROVE  /\ Window(body, Kept, received) /\ Kept \in Nat /\ received \in Nat
           /\ Kept <= received /\ received <= N + 11 /\ Len(body) = received - Kept
<1>1. /\ conn = "open" /\ body \in Seq(Token)
      /\ Kept \in Nat /\ received \in Nat /\ Kept <= received
      /\ received <= Len(Body) /\ body = SubSeq(Body, Kept + 1, received)
  BY BodyToCall
<1>2. Len(Body) = N + 11
  BY BodyIs
<1>3. PICK k, z : k = Kept /\ z = received
  OBVIOUS
<1>4. k \in Nat /\ z \in Nat /\ k <= z /\ z <= N + 11
  BY <1>1, <1>2, <1>3
<1>5. Window(SubSeq(Body, k + 1, z), k, z)
  BY <1>4, WindowIs
<1>6. Window(body, k, z)
  BY <1>1, <1>3, <1>5, Zenon
<1>7. Len(body) = z - k
  BY <1>6 DEF Window
<1> QED BY <1>3, <1>4, <1>6, <1>7, Zenon

\* In a call for a chunk the boundary is still to come.
LEMMA ChunkWindow ==
    ASSUME UploadInv, phase = "dispatch", result = "kHeadersComplete", Len(body) >= MinChunk
    PROVE  /\ state = "kExpectBody" /\ received <= N + 10 /\ Kept <= N + 4
           /\ Kept < received /\ received >= 6
<1>1. /\ Kept \in Nat /\ received \in Nat /\ Len(body) = received - Kept
  BY CallWindow
<1>2. N \in Nat /\ Len(Body) = N + 11
  BY BodyIs
<1>3. conn = "open" /\ Parsing
  BY Running DEF UploadInv, ParserInv
<1>4. state = "kExpectBody" /\ received < N + 11
  BY <1>2, <1>3 DEF Parsing
<1>5. MinChunk \in Nat /\ MinChunk >= 6
  BY HeadIs, UploadAssumption
<1>6. PICK k, z, l : k = Kept /\ z = received /\ l = Len(body)
  BY Zenon
<1>7. k \in Nat /\ z \in Nat /\ l = z - k /\ z < N + 11 /\ l >= MinChunk
  BY <1>1, <1>4, <1>6
<1>8. z <= N + 10 /\ k <= N + 4 /\ k < z /\ z >= 6
  BY <1>2, <1>5, <1>7
<1> QED BY <1>4, <1>6, <1>8

\* No upload is finished with less counted than stored, unless it is none.
LEMMA FinishIsSound ==
    ASSUME UploadInv, ThrowInv, phase = "dispatch",
           \/ result = "kGotRequest"
           \/ result = "kHeadersComplete" /\ Len(body) >= MinChunk,
           Complete
    PROVE  FinishSound
<1>1. PICK k, z, st : k = Kept /\ z = received /\ st = ctx.state
  OBVIOUS
<1>2. /\ Window(body, k, z) /\ k \in Nat /\ z \in Nat /\ k <= z /\ z <= N + 11
      /\ Len(body) = z - k /\ N \in Nat
  BY <1>1, CallWindow, BodyIs
<1>3. SUFFICES ASSUME ctx # NoContext, ctx.total # 0,
                      ~Counts(ctx.total, Len(disk[ctx.file]))
               PROVE  ThisPart.writes
  BY <1>3, Zenon DEF FinishSound
<1>4. st \in {"kExpectBoundary", "kExpectContent"} /\ Behind(k)
  BY <1>1, <1>3, Zenon DEF ThrowInv
<1>5. ThisPart = NextPart(st, body)
  BY <1>1, <1>3, Zenon DEF ThisPart
<1>6. CASE result = "kGotRequest"
  <2>1. body # <<>>
    BY <1>6, Zenon DEF ThrowInv
  <2>2. Parsing /\ Len(Body) = N + 11
    BY Running, BodyIs DEF UploadInv, ParserInv
  <2>3. z = N + 11
    BY <1>1, <1>6, <2>2 DEF Parsing
  <2>4. k < N + 11
    <3>1. Len(body) # 0
      <4>1. body \in Seq(Token)
        BY <1>2 DEF Window
      <4> QED BY <2>1, <4>1
    <3> QED BY <1>2, <2>3, <3>1
  <2>5. NextPart(st, body).writes
    BY <1>2, <1>4, <2>3, <2>4, ThrowsAgain, Zenon
  <2> QED BY <1>5, <2>5, Zenon
<1>7. CASE result = "kHeadersComplete" /\ Len(body) >= MinChunk
  <2>1. state = "kExpectBody" /\ z <= N + 10 /\ k <= N + 4 /\ k < z
    BY <1>1, <1>7, ChunkWindow
  <2>2. k \in 1 .. N + 4
    BY <1>2, <1>4, <2>1 DEF Behind
  <2>3. NextPart(st, body).writes \/ NextPart(st, body).next # "kComplete"
    BY <1>2, <1>4, <2>1, <2>2, ThrowsOrDrops, Zenon
  <2>4. ThisPart.next = "kComplete"
    BY <2>1 DEF Complete
  <2> QED BY <1>5, <2>3, <2>4, Zenon
<1> QED BY <1>6, <1>7

\* The state a first call leaves.
LEMMA FirstNext ==
    ASSUME NEW s
    PROVE  /\ FirstPart(s).next \in {"kExpectHeaders", "kExpectBoundary", "kComplete"}
           /\ FirstPart(s).next = "kExpectHeaders" => FirstPart(s).piece = <<>>
<1>1. PICK pos, end : pos = Find(s, <<"crlf", "crlf">>) /\ end = Find(s, EndBoundary)
  OBVIOUS
<1>2. FirstPart(s) =
        CASE pos = 0 -> Nothing("kExpectHeaders")
          [] pos > 0 /\ end > 0 ->
                Part(end > 1, SubSeq(s, pos + 2, end - 1), "kComplete")
          [] OTHER -> Part(pos + 1 < Len(s), Rest(s, pos + 1), "kExpectBoundary")
  BY <1>1 DEF FirstPart
<1>3. CASE pos = 0
  <2>1. FirstPart(s) = Nothing("kExpectHeaders")
    BY <1>2, <1>3
  <2> QED BY <2>1, PartIs
<1>4. CASE pos # 0 /\ pos > 0 /\ end > 0
  <2>1. FirstPart(s) = Part(end > 1, SubSeq(s, pos + 2, end - 1), "kComplete")
    BY <1>2, <1>4, Zenon
  <2>2. FirstPart(s).next = "kComplete"
    BY <2>1 DEF Part, Nothing
  <2> QED BY <2>2
<1>5. CASE pos # 0 /\ ~(pos > 0 /\ end > 0)
  <2>1. FirstPart(s) = Part(pos + 1 < Len(s), Rest(s, pos + 1), "kExpectBoundary")
    BY <1>2, <1>5, Zenon
  <2>2. FirstPart(s).next = "kExpectBoundary"
    BY <2>1 DEF Part, Nothing
  <2> QED BY <2>2
<1> QED BY <1>3, <1>4, <1>5, Zenon

\* A chunk that waits for more.
LEMMA WaitingThrow ==
    ASSUME UploadInv, ThrowInv, phase = "dispatch", result = "kHeadersComplete",
           Len(body) >= MinChunk, NEW n \in Amounts, Waiting(n)
    PROVE  /\ ThisPart.next \in {"kExpectHeaders", "kExpectBoundary", "kExpectContent"}
           /\ ThisPart.next = "kExpectHeaders" => Total = 0
           /\ \/ Counts(Total, Len(disk'[Current.file])) \/ Total = 0
              \/ Behind(received)
<1>1. PICK k, z, st : k = Kept /\ z = received /\ st = ctx.state
  OBVIOUS
<1>2. /\ Window(body, k, z) /\ k \in Nat /\ z \in Nat /\ N \in Nat /\ body \in Seq(Token)
  BY <1>1, CallWindow, BodyIs DEF Window
<1>3. z <= N + 10 /\ k <= N + 4 /\ k < z /\ z >= 6
  BY <1>1, ChunkWindow
<1>4. Written(n) /\ ThisPart.next # "kComplete"
  BY Zenon DEF Waiting, Complete
<1>5. StoreInv
  BY DEF UploadInv
<1>6. /\ Total = Current.total + Len(ThisPart.piece)
      /\ Total \in Nat
      /\ \/ Counts(Total, Len(disk'[Current.file]))
         \/ /\ ~ThisPart.writes /\ ctx # NoContext /\ Total = ctx.total
            /\ Len(disk'[Current.file]) = Len(disk[ctx.file])
  BY <1>2, <1>4, <1>5, WrittenCounts, Zenon DEF Total
<1>7. CASE ctx = NoContext
  <2>1. ThisPart = FirstPart(body)
    BY <1>7, Zenon DEF ThisPart
  <2>2. /\ ThisPart.next \in {"kExpectHeaders", "kExpectBoundary"}
        /\ ThisPart.next = "kExpectHeaders" => ThisPart.piece = <<>>
    BY <1>4, <2>1, FirstNext, Zenon
  <2>3. Current.total = 0
    BY <1>7 DEF Current, Context
  <2>4. ThisPart.piece = <<>> => Total = 0
    BY <1>6, <2>3
  <2> QED BY <1>6, <1>7, <2>2, <2>4, Zenon
<1>8. CASE ctx # NoContext
  <2>1. ThisPart = NextPart(st, body) /\ Current = ctx
    BY <1>1, <1>8, Zenon DEF ThisPart, Current
  <2>2. /\ st \in {"kExpectHeaders", "kExpectBoundary", "kExpectContent"}
        /\ st = "kExpectHeaders" => ctx.total = 0
        /\ st # "kExpectHeaders" => k >= 1
        /\ Counts(ctx.total, Len(disk[ctx.file])) \/ ctx.total = 0 \/ Behind(k)
    BY <1>1, <1>8, Zenon DEF ThrowInv
  <2>3. CASE st = "kExpectHeaders"
    <3>1. ~ThisPart.writes /\ ThisPart.next = "kExpectHeaders"
      <4>1. st \notin {"kExpectBoundary", "kExpectContent"}
        BY <2>3
      <4>2. ~NextPart(st, body).writes /\ NextPart(st, body).next = st
        BY <1>2, <4>1, NextCases
      <4> QED BY <2>1, <2>3, <4>2, Zenon
    <3>2. Len(ThisPart.piece) = 0
      BY <1>2, <3>1, Silent
    <3>3. Total = 0
      BY <1>6, <2>1, <2>2, <2>3, <3>2
    <3> QED BY <3>1, <3>3
  <2>4. CASE st # "kExpectHeaders"
    <3>1. st \in {"kExpectBoundary", "kExpectContent"} /\ k \in 1 .. N + 4
      BY <1>2, <1>3, <2>2, <2>4
    <3>2. ThisPart.next \in {"kExpectBoundary", "kExpectContent"}
      BY <1>2, <1>4, <2>1, <3>1, NextCases, Zenon
    <3>3. ThisPart.writes \/ Behind(z)
      <4>1. NextPart(st, body).writes \/ z >= N + 9
        BY <1>2, <1>3, <3>1, ThrowsOrDrops, Zenon
      <4> QED BY <2>1, <4>1, Zenon DEF Behind
    <3>4. "kExpectHeaders" \notin {"kExpectBoundary", "kExpectContent"}
      OBVIOUS
    <3> QED BY <1>1, <1>6, <3>2, <3>3, <3>4, Zenon
  <2> QED BY <2>3, <2>4
<1> QED BY <1>7, <1>8

LEMMA ThrowChunk ==
    ASSUME UploadInv, ThrowInv, sc' = sc, ChunkCall
    PROVE  ThrowInv'
<1>1. /\ phase = "dispatch" /\ result = "kHeadersComplete" /\ Len(body) >= MinChunk
      /\ phase' = "idle"
  BY DEF ChunkCall
<1>2. PICK reply : handleFileUpload(reply)
  BY DEF ChunkCall
<1>3. /\ received \in Nat /\ Kept \in Nat /\ N \in Nat
      /\ received >= 6 /\ Kept <= N + 4 /\ body \in Seq(Token)
  BY <1>1, CallWindow, ChunkWindow, BodyIs DEF Window
<1>4. ASSUME NEW c, NEW b, Leaves(c, b)
      PROVE  ctx' = c /\ body' = b /\ received' = received
  BY <1>1, <1>4 DEF Leaves
<1>5. \A n, m : Counts(n, m)' <=> Counts(n, m)
  BY DEF Counts
<1>6. NoContext' = NoContext /\ \A k : Behind(k)' <=> Behind(k)
  BY DEF NoContext, Context, Behind
<1>7. SUFFICES ASSUME ctx' # NoContext
               PROVE  /\ ctx'.state \in {"kExpectHeaders", "kExpectBoundary", "kExpectContent"}
                      /\ ctx'.state = "kExpectHeaders" => ctx'.total = 0
                      /\ ctx'.state # "kExpectHeaders" => Kept' >= 1
                      /\ \/ Counts(ctx'.total, Len(disk'[ctx'.file])) \/ ctx'.total = 0
                         \/ Behind(Kept')
  <2>1. phase' # "dispatch"
    BY <1>1
  <2> QED BY <1>5, <1>6, <1>7, <2>1, Zenon DEF ThrowInv
<1>8. CASE Denied \/ CannotOpen
  <2>1. UNCHANGED <<ctx, body, received, disk>>
    BY <1>4, <1>8, Zenon DEF Denied, CannotOpen, storeVars
  <2>2. Kept' = Kept
    BY <2>1 DEF Kept
  <2> QED BY <1>7, <2>1, <2>2, Zenon DEF ThrowInv
<1>9. CASE WriteThrows
  <2>1. /\ ctx' = Context(Current.file, Current.state, Current.total, TRUE)
        /\ UNCHANGED <<body, received>>
    BY <1>4, <1>9, Zenon DEF WriteThrows
  <2>2. Kept' = Kept
    BY <2>1 DEF Kept
  <2>3. ctx'.state = Current.state /\ ctx'.total = Current.total
    BY <2>1, Zenon DEF Context
  <2>4. CASE ctx = NoContext
    <3>1. Current.state = "kExpectHeaders" /\ Current.total = 0
      BY <2>4 DEF Current, Context
    <3> QED BY <2>3, <3>1
  <2>5. CASE ctx # NoContext
    <3>1. ctx'.state = ctx.state /\ ctx'.total = ctx.total
      BY <2>3, <2>5, Zenon DEF Current
    <3>2. /\ ctx.state \in {"kExpectHeaders", "kExpectBoundary", "kExpectContent"}
          /\ ctx.state = "kExpectHeaders" => ctx.total = 0
          /\ ctx.state # "kExpectHeaders" => Kept >= 1
      BY <2>5, Zenon DEF ThrowInv
    <3>3. Kept >= 1 => Behind(Kept)
      BY <1>3 DEF Behind
    <3> QED BY <2>2, <3>1, <3>2, <3>3, Zenon
  <2> QED BY <2>4, <2>5
<1>10. ASSUME NEW n \in Amounts, Finished(n) PROVE FALSE
  BY <1>4, <1>7, <1>10, Zenon DEF Finished
<1>11. ASSUME NEW n \in Amounts, Waiting(n)
       PROVE  /\ ctx'.state \in {"kExpectHeaders", "kExpectBoundary", "kExpectContent"}
              /\ ctx'.state = "kExpectHeaders" => ctx'.total = 0
              /\ ctx'.state # "kExpectHeaders" => Kept' >= 1
              /\ \/ Counts(ctx'.total, Len(disk'[ctx'.file])) \/ ctx'.total = 0
                 \/ Behind(Kept')
  <2>1. /\ ctx' = Context(Current.file, ThisPart.next, Total, Failing(n))
        /\ body' = <<>> /\ received' = received
    BY <1>4, <1>11, Zenon DEF Waiting
  <2>2. Kept' = received /\ Kept' >= 1
    <3>1. Len(body') = 0
      BY <2>1
    <3>2. Kept' = received' - Len(body')
      BY DEF Kept
    <3> QED BY <1>3, <2>1, <3>1, <3>2
  <2>3. /\ ctx'.state = ThisPart.next /\ ctx'.total = Total /\ ctx'.file = Current.file
    BY <2>1, Zenon DEF Context
  <2>4. /\ ThisPart.next \in {"kExpectHeaders", "kExpectBoundary", "kExpectContent"}
        /\ ThisPart.next = "kExpectHeaders" => Total = 0
        /\ \/ Counts(Total, Len(disk'[Current.file])) \/ Total = 0
           \/ Behind(received)
    BY <1>1, <1>11, WaitingThrow, Zenon
  <2> QED BY <2>2, <2>3, <2>4, Zenon
<1>12. Denied \/ CannotOpen \/ WriteThrows \/ \E n \in Amounts : Finished(n) \/ Waiting(n)
  BY <1>2, Zenon DEF handleFileUpload
<1> QED BY <1>8, <1>9, <1>10, <1>11, <1>12, Zenon

\* Steps that leave the context and what was taken alone.
LEMMA ThrowSame ==
    ASSUME ThrowInv, UNCHANGED <<sc, ctx, disk>>, Kept' = Kept,
           phase' = "dispatch" /\ result' = "kGotRequest" => body' # <<>>
    PROVE  ThrowInv'
<1>1. \A n, m : Counts(n, m)' <=> Counts(n, m)
  BY DEF Counts
<1>2. NoContext' = NoContext /\ \A k : Behind(k)' <=> Behind(k)
  BY DEF NoContext, Context, Behind
<1> QED BY <1>1, <1>2, Zenon DEF ThrowInv

LEMMA ThrowGone ==
    ASSUME ctx' = NoContext, phase' = "idle"
    PROVE  ThrowInv'
<1>1. NoContext' = NoContext
  BY DEF NoContext, Context
<1> QED BY <1>1 DEF ThrowInv

LEMMA ThrowStep ==
    ASSUME UploadInv, ThrowInv, [Next]_vars
    PROVE  ThrowInv'
<1>1. CASE UNCHANGED vars
  <2>1. UNCHANGED <<sc, ctx, disk, phase, result, body, received>>
    BY <1>1 DEF vars, parseVars, storeVars
  <2>2. Kept' = Kept
    BY <2>1 DEF Kept
  <2>3. phase' = "dispatch" /\ result' = "kGotRequest" => body' # <<>>
    BY <2>1, Zenon DEF ThrowInv
  <2> QED BY <2>1, <2>2, <2>3, ThrowSame, Zenon
<1>2. CASE Next
  <2>1. sc' = sc /\ Step
    BY <1>2 DEF Next
  <2>2. ASSUME UNCHANGED <<ctx, disk>>, Kept' = Kept, phase' # "dispatch"
        PROVE  ThrowInv'
    BY <2>1, <2>2, ThrowSame, Zenon
  <2>3. CASE ParseRequestLine
    <3>1. UNCHANGED <<ctx, disk>> /\ Kept' = Kept
      BY <2>3, LineStep DEF ParseRequestLine, storeVars
    <3>2. phase' = "dispatch" => result' = "kNeedMore"
      BY <2>3 DEF ParseRequestLine, Returns, Goes
    <3> QED BY <2>1, <3>1, <3>2, ThrowSame
  <2>4. CASE ProcessHeader
    <3>1. UNCHANGED <<ctx, disk, received>> /\ Kept' = Kept
      BY <2>4, HeaderStep DEF ProcessHeader, storeVars
    <3>2. ParserInv' /\ conn' = conn
      BY <2>4, HeaderStep DEF ProcessHeader
    <3>3. ~(phase' = "dispatch" /\ result' = "kGotRequest")
      <4> SUFFICES ASSUME phase' = "dispatch", result' = "kGotRequest" PROVE FALSE
        OBVIOUS
      <4>1. phase = "parse" /\ state = "kExpectHeaders"
        BY <2>4 DEF ProcessHeader, Parses
      <4>2. conn = "open" /\ Parsing
        BY <4>1, Running DEF UploadInv, ParserInv
      <4>3. received = 0
        BY <4>1, <4>2 DEF Parsing
      <4>4. Parsing'
        BY <3>2, <4>2 DEF ParserInv
      <4>5. received' = Len(Body)
        BY <4>4 DEF Parsing
      <4>6. Len(Body) = N + 11 /\ N \in Nat
        BY BodyIs
      <4> QED BY <3>1, <4>3, <4>5, <4>6
    <3> QED BY <2>1, <3>1, <3>3, ThrowSame
  <2>5. CASE HeadersIncomplete
    BY <1>1, <2>5 DEF HeadersIncomplete
  <2>6. CASE ProcessBody
    <3>1. UNCHANGED <<ctx, disk>> /\ Kept' = Kept /\ ParserInv' /\ conn' = conn
      BY <2>6, BodyStep DEF ProcessBody, storeVars
    <3>2. phase = "parse" /\ state = "kExpectBody"
      BY <2>6 DEF ProcessBody, Parses
    <3>3. conn = "open" /\ Parsing /\ ParserTypes
      BY <3>2, Running DEF UploadInv, ParserInv
    <3>4. received < Len(Body) /\ Len(Body) = N + 11 /\ N \in Nat
      BY <3>2, <3>3, BodyIs DEF Parsing
    <3>5. ASSUME phase' = "dispatch", result' = "kGotRequest" PROVE body' # <<>>
      <4>1. Parsing'
        BY <3>1, <3>3 DEF ParserInv
      <4>2. received' = Len(Body)
        BY <3>5, <4>1 DEF Parsing
      <4>3. PICK x, y : x = Len(body) /\ y = Len(body')
        BY Zenon
      <4>4. x \in Nat /\ received \in Nat
        BY <3>3, <4>3 DEF ParserTypes
      <4>5. received' - y = received - x
        BY <3>1, <4>3, Zenon DEF Kept
      <4>6. CASE body' = <<>>
        <5>1. y = 0
          BY <4>3, <4>6
        <5> QED BY <3>4, <4>2, <4>4, <4>5, <5>1
      <4> QED BY <4>6
    <3> QED BY <2>1, <3>1, <3>5, ThrowSame
  <2>7. CASE NothingToDo
    BY <2>2, <2>7, NothingStep DEF NothingToDo, storeVars
  <2>8. CASE ChunkCall
    BY <2>1, <2>8, ThrowChunk
  <2>9. CASE RequestCall
    <3>1. PICK reply : handleFileUpload(reply)
      BY <2>9 DEF RequestCall
    <3>2. phase' = "idle" /\ result = "kGotRequest"
      BY <2>9 DEF RequestCall
    <3>3. PICK c : Leaves(c, body) \/ Leaves(c, <<>>)
      BY <3>1, CallLeaves
    <3>4. ctx' = NoContext
      BY <3>2, <3>3 DEF Leaves, reset
    <3> QED BY <3>2, <3>4, ThrowGone
  <2>10. CASE Deliver
    <3>1. UNCHANGED <<ctx, disk>> /\ Kept' = Kept /\ phase' # "dispatch"
      BY <2>10, DeliverStep DEF Deliver, storeVars
    <3> QED BY <2>2, <3>1
  <2>11. CASE PeerCloses
    <3>1. ctx' = NoContext /\ phase' = "idle"
      BY <2>11 DEF PeerCloses, reset
    <3> QED BY <3>1, ThrowGone
  <2>12. CASE SessionEnds
    <3>1. UNCHANGED <<ctx, disk, phase, result, body, received>>
      BY <2>12 DEF SessionEnds, parseVars, storeVars
    <3>2. Kept' = Kept
      BY <3>1 DEF Kept
    <3>3. phase' = "dispatch" /\ result' = "kGotRequest" => body' # <<>>
      BY <3>1, Zenon DEF ThrowInv
    <3> QED BY <2>1, <3>1, <3>2, <3>3, ThrowSame, Zenon
  <2> QED BY <2>1, <2>3, <2>4, <2>5, <2>6, <2>7, <2>8, <2>9, <2>10, <2>11, <2>12
          DEF Step, OnMessage
<1> QED BY <1>1, <1>2

----------------------------------------------------------------------------
(* The invariant holds.                                                   *)

LEMMA UploadInitial ==
    ASSUME Init
    PROVE  UploadInv /\ ThrowInv /\ OrderInv
<1>1. /\ sc \in Scenarios /\ at = 0 /\ buf = <<>> /\ phase = "idle" /\ result = "kNeedMore"
      /\ state = "kExpectRequestLine" /\ length = 0 /\ received = 0
      /\ body = <<>> /\ ctx = NoContext /\ session = TRUE
      /\ disk = <<>> /\ rows = <<>> /\ replies = <<>> /\ conn = "open"
  BY DEF Init
<1>2. N \in Nat /\ Len(Request) = N + 16 /\ Request \in Seq(Token) /\ Body \in Seq(Token)
  BY BodyIs, RequestIs, Tokens
<1>3. ParserTypes
  BY <1>1, <1>2 DEF ParserTypes
<1>4. Parsing
  <2>1. Kept = 0 /\ Consumed = 0
    <3>1. Len(body) = 0 /\ received = 0
      BY <1>1
    <3>2. Consumed = 0
      BY <1>1 DEF Consumed
    <3> QED BY <3>1, <3>2 DEF Kept
  <2>2. SubSeq(Request, 0 + 1, 0) = <<>> /\ SubSeq(Body, 0 + 1, 0) = <<>>
    BY <1>2, EmptyCut
  <2> QED BY <1>1, <2>1, <2>2 DEF Parsing
<1>5. StoreInv
  <2>1. ctx.file = 0 /\ ctx.total = 0
    BY <1>1 DEF NoContext, Context
  <2>2. ctx.bad = FALSE
    BY <1>1 DEF NoContext, Context
  <2>3. ctx.bad \in BOOLEAN
    BY <2>2, Zenon
  <2>4. /\ ctx.file \in 0 .. Len(disk) /\ ctx.total \in Nat /\ disk \in Seq(Seq(Token))
        /\ rows \in Seq([file : 1 .. Len(disk), size : Nat]) /\ Len(rows) = 0
    BY <1>1, <2>1
  <2>5. \A i \in 1 .. Len(rows) : FALSE
    BY <2>4
  <2> QED BY <1>1, <2>3, <2>4, <2>5, Zenon DEF StoreInv
<1>6. session \in BOOLEAN
  BY <1>1, Zenon
<1>7. RestTypes
  BY <1>1, <1>6 DEF RestTypes
<1>8. OrderInv
  BY <1>1 DEF OrderInv, Ordered, UpTo
<1>9. ThrowInv
  BY <1>1 DEF ThrowInv
<1> QED BY <1>1, <1>3, <1>4, <1>5, <1>7, <1>8, <1>9 DEF UploadInv, ParserInv

\* Every step keeps the invariant.
LEMMA UploadStep ==
    ASSUME UploadInv, ThrowInv, [Next]_vars
    PROVE  UploadInv'
<1>1. StoreInv /\ RestTypes /\ ParserInv /\ body \in Seq(Token)
  BY DEF UploadInv, ParserInv, ParserTypes
<1>2. CASE UNCHANGED vars
  <2>1. UNCHANGED <<sc, at, buf, phase, result, state, length, received, body, ctx, session,
                    disk, rows, replies, conn>>
    BY <1>2 DEF vars, parseVars, storeVars
  <2>2. ParserInv'
    BY <2>1, ParserSame
  <2>3. StoreInv'
    BY <1>1, <2>1, StoreSame
  <2> QED BY <1>1, <2>1, <2>2, <2>3 DEF UploadInv, RestTypes
<1>3. CASE Next
  <2>1. sc' = sc /\ Step
    BY <1>3 DEF Next
  <2>2. ASSUME UNCHANGED <<ctx, disk, rows, session, replies, conn>>, ParserInv'
        PROVE  UploadInv'
    <3>1. StoreInv'
      BY <1>1, <2>1, <2>2, StoreSame
    <3> QED BY <1>1, <2>1, <2>2, <3>1 DEF UploadInv, RestTypes
  <2>3. CASE ParseRequestLine
    BY <2>2, <2>3, LineStep DEF ParseRequestLine, storeVars
  <2>4. CASE ProcessHeader
    BY <2>2, <2>4, HeaderStep DEF ProcessHeader, storeVars
  <2>5. CASE HeadersIncomplete
    BY <1>2, <2>5 DEF HeadersIncomplete
  <2>6. CASE ProcessBody
    BY <2>2, <2>6, BodyStep DEF ProcessBody, storeVars
  <2>7. CASE NothingToDo
    BY <2>2, <2>7, NothingStep DEF NothingToDo, storeVars
  <2>8. CASE ChunkCall
    <3>1. PICK reply : handleFileUpload(reply)
      BY <2>8 DEF ChunkCall
    <3>2. StoreInv'
      <4>1. Complete => FinishSound
        BY <2>8, FinishIsSound DEF ChunkCall
      <4> QED BY <1>1, <2>1, <3>1, <4>1, CallStore
    <3>3. ParserInv' /\ conn' = "open" /\ UNCHANGED <<session, replies>>
      BY <2>8, ChunkParser DEF ChunkCall
    <3> QED BY <1>1, <2>1, <3>2, <3>3 DEF UploadInv, RestTypes
  <2>9. CASE RequestCall
    <3>1. PICK reply : handleFileUpload(reply)
      BY <2>9 DEF RequestCall
    <3>2. StoreInv'
      <4>1. Complete => FinishSound
        BY <2>9, FinishIsSound DEF RequestCall
      <4> QED BY <1>1, <2>1, <3>1, <4>1, CallStore
    <3>3. ParserInv' /\ conn' = "closed" /\ UNCHANGED session
      BY <2>9, RequestParser DEF RequestCall
    <3>4. replies' \in Seq({200, 401, 500})
      BY <2>9, RepliesType
    <3> QED BY <1>1, <2>1, <3>2, <3>3, <3>4 DEF UploadInv, RestTypes
  <2>10. CASE Deliver
    BY <2>2, <2>10, DeliverStep, Zenon DEF Deliver, storeVars
  <2>11. CASE PeerCloses
    <3>1. ctx' = NoContext /\ UNCHANGED <<disk, rows, session, replies>>
      BY <2>11 DEF PeerCloses, reset, storeVars
    <3>2. StoreInv'
      BY <1>1, <2>1, <3>1, StoreSame
    <3> QED BY <1>1, <2>1, <2>11, <3>1, <3>2, CloseStep DEF UploadInv, RestTypes
  <2>12. CASE SessionEnds
    <3>1. /\ UNCHANGED <<at, buf, phase, result, state, length, received, body, ctx, disk,
                         rows, replies, conn>>
          /\ session' = FALSE
      BY <2>12 DEF SessionEnds, parseVars, storeVars
    <3>2. StoreInv'
      BY <1>1, <2>1, <3>1, StoreSame
    <3>3. ParserInv'
      BY <3>1, ParserSame
    <3>4. session' \in BOOLEAN
      BY <3>1, Zenon
    <3> QED BY <1>1, <2>1, <3>1, <3>2, <3>3, <3>4 DEF UploadInv, RestTypes
  <2> QED BY <2>1, <2>3, <2>4, <2>5, <2>6, <2>7, <2>8, <2>9, <2>10, <2>11, <2>12
          DEF Step, OnMessage
<1> QED BY <1>2, <1>3
----------------------------------------------------------------------------
(* The order of what is stored.                                            *)

LEMMA UpToMore ==
    ASSUME N \in Nat, NEW d, NEW k \in Int, NEW l \in Int, k <= l, UpTo(d, k)
    PROVE  UpTo(d, l)
<1> SUFFICES ASSUME NEW f \in 1 .. Len(d), NEW i \in 1 .. Len(d[f]), d[f][i] \in Text
             PROVE  Place(d[f][i]) <= l
  BY DEF UpTo
<1>1. PICK n : n = Place(d[f][i])
  OBVIOUS
<1>2. n <= k
  BY <1>1 DEF UpTo
<1>3. n \in 1 .. N
  BY <1>1, PlaceIs
<1>4. n <= l
  BY <1>2, <1>3
<1> QED BY <1>1, <1>4

\* The tokens of a part of the body, behind the first k, rise.
LEMMA PieceRises ==
    ASSUME Named, NEW k \in Nat, NEW z \in Nat, k <= z, z <= Len(Body),
           NEW s, s = SubSeq(Body, k + 1, z), NEW p, PieceOf(p, s)
    PROVE  Rising(p, k - 6, z - 6)
<1>1. PICK d : d = Body
  OBVIOUS
<1>2. d \in Seq(Token) /\ z <= Len(d)
  BY <1>1, Tokens
<1>3. s \in Seq(Token) /\ Len(s) = z - k /\ \A n \in 1 .. z - k : s[n] = d[k + n]
  BY <1>1, <1>2, Cut
<1>4. PICK i, j \in 0 .. Len(s) : i <= j /\ p = SubSeq(s, i + 1, j)
  BY Zenon DEF PieceOf
<1>5. i \in Nat /\ j \in Nat /\ j <= z - k
  BY <1>3, <1>4
<1>6. p \in Seq(Token) /\ Len(p) = j - i /\ \A n \in 1 .. j - i : p[n] = s[i + n]
  <2>1. s \in Seq(Token) /\ j <= Len(s)
    BY <1>3, <1>5
  <2> QED BY <1>4, <1>5, <2>1, Cut
<1>7. ASSUME NEW n \in 1 .. Len(p)
      PROVE  /\ k + i + n \in 1 .. Len(d) /\ k + i + n \in k + 1 .. z
             /\ p[n] = d[k + i + n]
  <2>1. n \in 1 .. j - i
    BY <1>6
  <2>2. i + n \in 1 .. z - k /\ k + (i + n) = k + i + n
    BY <1>5, <2>1
  <2>3. Len(d) \in Nat
    BY <1>2
  <2>4. k + i + n \in 1 .. Len(d) /\ k + i + n \in k + 1 .. z
    BY <1>2, <1>5, <2>2, <2>3
  <2>5. p[n] = d[k + i + n]
    BY <1>3, <1>6, <2>1, <2>2, Zenon
  <2> QED BY <2>4, <2>5
<1>8. ASSUME NEW n \in 1 .. Len(p), p[n] \in Text
      PROVE  Place(p[n]) = (k + i + n) - 6
  <2>1. PICK m : m = k + i + n
    OBVIOUS
  <2>2. m \in 1 .. Len(Body) /\ Body[m] = p[n]
    BY <1>1, <1>7, <2>1, Zenon
  <2>3. Place(Body[m]) = m - 6
    BY <1>8, <2>2, PlaceInBody
  <2> QED BY <2>1, <2>2, <2>3
<1>9. ASSUME NEW n \in 1 .. Len(p), p[n] \in Text
      PROVE  Place(p[n]) \in (k - 6) + 1 .. z - 6
  <2>1. PICK m : m = k + i + n
    OBVIOUS
  <2>2. m \in k + 1 .. z /\ Place(p[n]) = m - 6
    BY <1>7, <1>8, <1>9, <2>1
  <2>3. m - 6 \in (k - 6) + 1 .. z - 6
    BY <2>2
  <2> QED BY <2>2, <2>3
<1>10. ASSUME NEW m \in 1 .. Len(p), NEW n \in 1 .. Len(p), m < n,
              p[m] \in Text, p[n] \in Text
       PROVE  Place(p[m]) < Place(p[n])
  <2>1. Place(p[m]) = (k + i + m) - 6 /\ Place(p[n]) = (k + i + n) - 6
    BY <1>8, <1>10
  <2>2. (k + i + m) - 6 < (k + i + n) - 6
    BY <1>5, <1>10
  <2> QED BY <2>1, <2>2
<1> QED BY <1>9, <1>10, Zenon DEF Rising

\* The start of a rising sequence rises.
LEMMA StartRises ==
    ASSUME NEW S, NEW p \in Seq(S), NEW k, NEW l, Rising(p, k, l), NEW n \in 0 .. Len(p)
    PROVE  Rising(SubSeq(p, 1, n), k, l)
<1>1. PICK q : q = SubSeq(p, 1, n)
  BY Zenon
<1>2. Len(q) = n /\ \A i \in 1 .. n : q[i] = p[i]
  BY <1>1, StartIs
<1>3. \A i \in 1 .. n : i \in 1 .. Len(p)
  OBVIOUS
<1>4. Rising(q, k, l)
  BY <1>2, <1>3, Zenon DEF Rising
<1> QED BY <1>1, <1>4, Zenon

\* What a call stores is in order, and comes from the body up to here; where it
\* leaves the body in place, it has stored none of it, or the context is bad.
LEMMA CallOrder ==
    ASSUME Named, StoreInv, body \in Seq(Token), OrderInv, conn = "open",
           NEW k, k = Kept, k \in Nat, received \in Nat, k <= received,
           received <= Len(Body), body = SubSeq(Body, k + 1, received),
           NEW reply, handleFileUpload(reply)
    PROVE  /\ Ordered(disk')
           /\ \/ disk' = disk /\ Leaves(ctx, body)
              \/ /\ UpTo(disk', received - 6)
                 /\ \/ \E c : Leaves(c, <<>>)
                    \/ \E c : Leaves(c, body) /\ c.bad
<1>1. PICK f, d, p : f = Current.file /\ d = Files /\ p = ThisPart.piece
  OBVIOUS
<1>2. N \in Nat
  BY BodyIs
<1>3. PICK r : r = Reach
  OBVIOUS
<1>4. r \in Nat /\ r <= received /\ (~ctx.bad => r = k)
  BY <1>3 DEF Reach
<1>5. Ordered(disk) /\ UpTo(disk, r - 6) /\ disk \in Seq(Seq(Token))
  BY <1>3 DEF OrderInv, StoreInv
<1>6. r - 6 \in Int /\ received - 6 \in Int /\ r - 6 <= received - 6
  BY <1>4
<1>7. d \in Seq(Seq(Token)) /\ f = Len(d) /\ f >= 1
  BY <1>1, CurrentIs
<1>8. Ordered(d) /\ UpTo(d, r - 6)
  <2>1. CASE ctx = NoContext
    <3>1. d = Append(disk, <<>>)
      BY <1>1, <2>1 DEF Files
    <3> QED BY <1>5, <1>6, <3>1, NewFile, Zenon
  <2>2. CASE ctx # NoContext
    <3>1. d = disk
      BY <1>1, <2>2 DEF Files
    <3> QED BY <1>5, <3>1
  <2> QED BY <2>1, <2>2
<1>9. p \in Seq(Token) /\ PieceOf(p, body)
  BY <1>1, PieceIs
<1>10. Rising(p, k - 6, received - 6)
  BY <1>9, PieceRises, Zenon
<1>11. ~Current.bad => r = k
  <2>1. ctx = NoContext => ~ctx.bad
    BY DEF NoContext, Context
  <2>2. ctx # NoContext => Current = ctx
    BY Zenon DEF Current
  <2> QED BY <1>4, <2>1, <2>2, Zenon
<1>12. ASSUME NEW n \in 0 .. Len(p), ~Current.bad \/ n = 0, Stores(n)
       PROVE  Ordered(disk') /\ UpTo(disk', received - 6)
  <2>1. PICK q : q = SubSeq(p, 1, n)
    BY Zenon
  <2>2. q \in Seq(Token) /\ Len(q) = n
    BY <1>9, <2>1, StartIs
  <2>3. Rising(q, r - 6, received - 6)
    <3>1. CASE ~Current.bad
      <4>1. Rising(q, k - 6, received - 6)
        BY <1>9, <1>10, <2>1, StartRises, Zenon
      <4> QED BY <1>11, <3>1, <4>1, Zenon
    <3>2. CASE n = 0
      <4>1. \A i \in 1 .. Len(q) : FALSE
        BY <2>2, <3>2
      <4> QED BY <4>1, Zenon DEF Rising
    <3> QED BY <1>12, <3>1, <3>2
  <2>4. disk' = Put(d, q)
    <3>1. disk' = [d EXCEPT ![f] = @ \o q]
      BY <1>1, <1>12, <2>1, Zenon DEF Stores
    <3> QED BY <1>7, <3>1 DEF Put
  <2>5. Ordered(Put(d, q)) /\ UpTo(Put(d, q), received - 6)
    BY <1>2, <1>6, <1>7, <1>8, <2>2, <2>3, Write
  <2> QED BY <2>4, <2>5, Zenon
<1>13. CASE Denied \/ CannotOpen
  <2>1. disk' = disk /\ Leaves(ctx, body)
    BY <1>13, Zenon DEF Denied, CannotOpen, storeVars
  <2> QED BY <1>5, <2>1, Zenon
<1>14. Len(p) \in Nat
  BY <1>9
<1>15. CASE WriteThrows
  <2>1. PICK n \in 0 .. Len(p) : (~Current.bad \/ n = 0) /\ Stores(n)
    <3>1. 0 \in 0 .. Len(p) /\ \A j \in 0 .. Len(p) - 1 : j \in 0 .. Len(p)
      BY <1>14
    <3> QED BY <1>1, <1>15, <3>1, Zenon DEF WriteThrows
  <2>2. PICK c : c = Context(Current.file, Current.state, Current.total, TRUE)
    BY Zenon
  <2>3. Leaves(c, body) /\ c.bad
    BY <1>15, <2>2, Zenon DEF Context, WriteThrows
  <2> QED BY <1>12, <2>1, <2>3, Zenon
<1>16. ASSUME NEW n \in Amounts, Finished(n) \/ Waiting(n)
       PROVE  Ordered(disk') /\ UpTo(disk', received - 6) /\ \E c : Leaves(c, <<>>)
  <2>1. Written(n) /\ \E c : Leaves(c, <<>>)
    BY <1>16, Zenon DEF Finished, Waiting
  <2>2. n \in 0 .. Len(p)
    BY <1>1, <1>14 DEF Amounts
  <2>3. ~Current.bad \/ n = 0
    <3>1. CASE ThisPart.writes
      BY <2>1, <3>1, Zenon DEF Written
    <3>2. CASE ~ThisPart.writes
      <4>1. Len(p) = 0
        BY <1>1, <3>2, Silent, Zenon
      <4> QED BY <2>2, <4>1
    <3> QED BY <3>1, <3>2
  <2>4. Stores(n)
    BY <2>1, Zenon DEF Written
  <2> QED BY <1>12, <2>1, <2>2, <2>3, <2>4, Zenon
<1> QED BY <1>13, <1>15, <1>16, Zenon DEF handleFileUpload

LEMMA OrderStep ==
    ASSUME Named, UploadInv, OrderInv, [Next]_vars
    PROVE  OrderInv'
<1>1. ASSUME UNCHANGED <<disk, ctx, received>>, Kept' = Kept, conn' = conn
      PROVE  OrderInv'
  <2>1. Reach' = Reach
    BY <1>1, Zenon DEF Reach
  <2> QED BY <1>1, <2>1 DEF OrderInv
<1>2. CASE UNCHANGED vars
  <2>1. UNCHANGED <<at, buf, phase, result, state, length, received, body, ctx, disk,
                    conn>>
    BY <1>2 DEF vars, parseVars, storeVars
  <2> QED BY <1>1, <2>1, ParserSame
<1>3. CASE Next
  <2>1. Step
    BY <1>3 DEF Next
  <2>2. CASE ParseRequestLine
    <3>1. UNCHANGED <<disk, ctx, conn>> /\ Kept' = Kept
      BY <2>2, LineStep DEF ParseRequestLine, storeVars
    <3>2. UNCHANGED received
      BY <2>2 DEF ParseRequestLine, parseVars
    <3> QED BY <1>1, <3>1, <3>2
  <2>3. CASE ProcessHeader
    BY <1>1, <2>3, HeaderStep DEF ProcessHeader, storeVars
  <2>4. CASE HeadersIncomplete
    BY <1>2, <2>4 DEF HeadersIncomplete
  <2>5. CASE ProcessBody
    <3>1. UNCHANGED <<disk, ctx, conn>> /\ Kept' = Kept
      BY <2>5, BodyStep DEF ProcessBody, storeVars
    <3>2. CASE ~ctx.bad
      BY <3>1, <3>2 DEF OrderInv, Reach
    <3>3. CASE ctx.bad
      <4>1. PICK r, z : r = received /\ z = received'
        OBVIOUS
      <4>2. r \in Nat /\ z \in Nat /\ r <= z /\ N \in Nat
        <5>1. Len(buf) \in Nat /\ received \in 0 .. length /\ length \in Nat
          BY DEF UploadInv, ParserInv, ParserTypes
        <5>2. \/ received' = received + Len(buf)
              \/ received' = received + (length - received)
          BY <2>5 DEF ProcessBody
        <5> QED BY <4>1, <5>1, <5>2, BodyIs
      <4>3. Ordered(disk) /\ (conn = "open" => UpTo(disk, r - 6))
        BY <3>3, <4>1 DEF OrderInv, Reach
      <4>4. r - 6 \in Int /\ z - 6 \in Int /\ r - 6 <= z - 6
        BY <4>2
      <4>5. UpTo(disk, r - 6) => UpTo(disk, z - 6)
        BY <4>2, <4>4, UpToMore
      <4>6. Reach' = z
        BY <3>1, <3>3, <4>1 DEF Reach
      <4> QED BY <3>1, <4>3, <4>5, <4>6 DEF OrderInv
    <3> QED BY <3>2, <3>3
  <2>6. CASE NothingToDo
    <3>1. UNCHANGED <<disk, ctx, received, conn>>
      BY <2>6 DEF NothingToDo, parseVars, storeVars
    <3>2. Kept' = Kept
      BY <2>6, NothingStep
    <3> QED BY <1>1, <3>1, <3>2
  <2>7. CASE ChunkCall
    <3>1. PICK reply : handleFileUpload(reply)
      BY <2>7 DEF ChunkCall
    <3>2. phase = "dispatch" /\ result = "kHeadersComplete"
      BY <2>7 DEF ChunkCall
    <3>3. PICK k : k = Kept
      OBVIOUS
    <3>4. /\ conn = "open" /\ StoreInv /\ body \in Seq(Token)
          /\ k \in Nat /\ received \in Nat /\ k <= received
          /\ received <= Len(Body) /\ body = SubSeq(Body, k + 1, received)
      BY <3>2, <3>3, BodyToCall
    <3>5. /\ Ordered(disk')
          /\ \/ disk' = disk /\ Leaves(ctx, body)
             \/ /\ UpTo(disk', received - 6)
                /\ \/ \E c : Leaves(c, <<>>)
                   \/ \E c : Leaves(c, body) /\ c.bad
      BY <3>1, <3>3, <3>4, CallOrder, Zenon
    <3>6. conn' = conn
      BY <2>7 DEF ChunkCall
    <3>7. ASSUME NEW c, NEW b, Leaves(c, b)
          PROVE  ctx' = c /\ body' = b /\ received' = received
      BY <3>2, <3>7 DEF Leaves
    <3>8. CASE disk' = disk /\ Leaves(ctx, body)
      <4>1. UNCHANGED <<ctx, body, received>>
        BY <3>7, <3>8
      <4>2. Kept' = Kept
        BY <4>1 DEF Kept
      <4> QED BY <1>1, <3>6, <3>8, <4>1, <4>2
    <3>9. CASE UpTo(disk', received - 6) /\ \E c : Leaves(c, <<>>)
      <4>1. body' = <<>> /\ received' = received
        BY <3>7, <3>9, Zenon
      <4>2. Len(body') = 0
        BY <4>1
      <4>3. Kept' = received
        BY <3>4, <4>1, <4>2 DEF Kept
      <4>4. Reach' = received
        BY <4>1, <4>3 DEF Reach
      <4> QED BY <3>5, <3>9, <4>4 DEF OrderInv
    <3>10. CASE UpTo(disk', received - 6) /\ \E c : Leaves(c, body) /\ c.bad
      <4>1. ctx'.bad /\ received' = received
        BY <3>7, <3>10, Zenon
      <4>2. Reach' = received
        BY <4>1 DEF Reach
      <4> QED BY <3>5, <3>10, <4>2 DEF OrderInv
    <3> QED BY <3>5, <3>8, <3>9, <3>10, Zenon
  <2>8. CASE RequestCall
    <3>1. PICK reply : handleFileUpload(reply)
      BY <2>8 DEF RequestCall
    <3>2. phase = "dispatch" /\ conn' = "closed"
      BY <2>8 DEF RequestCall
    <3>3. PICK k : k = Kept
      OBVIOUS
    <3>4. /\ conn = "open" /\ StoreInv /\ body \in Seq(Token)
          /\ k \in Nat /\ received \in Nat /\ k <= received
          /\ received <= Len(Body) /\ body = SubSeq(Body, k + 1, received)
      BY <3>2, <3>3, BodyToCall
    <3>5. Ordered(disk')
      BY <3>1, <3>3, <3>4, CallOrder
    <3> QED BY <3>2, <3>5 DEF OrderInv
  <2>9. CASE Deliver
    BY <1>1, <2>9, DeliverStep, Zenon DEF Deliver, storeVars
  <2>10. CASE PeerCloses
    BY <2>10 DEF PeerCloses, storeVars, OrderInv
  <2>11. CASE SessionEnds
    <3>1. UNCHANGED <<at, buf, phase, result, state, length, received, body, ctx, disk,
                    conn>>
      BY <2>11 DEF SessionEnds, parseVars, storeVars
    <3> QED BY <1>1, <3>1, ParserSame
  <2> QED BY <2>1, <2>2, <2>3, <2>4, <2>5, <2>6, <2>7, <2>8, <2>9, <2>10, <2>11
          DEF Step, OnMessage
<1> QED BY <1>2, <1>3

\* Upload.InOrder.  However the request is cut into reads and whichever opens,
\* writes, flushes and inserts fail, handleFileUpload stores no token of the
\* content a second time or after a later one, although a write that throws may
\* have stored a part of the body it leaves in place.  A row's size is that of
\* its file, or more where a flush lost what was counted, or 0 where the first
\* write threw.  The content's tokens have names of their own, so that a name
\* says a place.
THEOREM UploadInOrder ==
    ASSUME \A i, j \in 1 .. Len(Content) : Content[i] = Content[j] => i = j,
           "crlf" \notin Text
    PROVE  Spec => []InOrder
<1>1. Named
  BY DEF Named, N
<1>2. Init => UploadInv /\ ThrowInv /\ OrderInv
  BY <1>1, UploadInitial
<1>3. UploadInv /\ ThrowInv /\ OrderInv /\ [Next]_vars => UploadInv' /\ ThrowInv' /\ OrderInv'
  BY <1>1, UploadStep, ThrowStep, OrderStep
<1>4. UploadInv /\ OrderInv => InOrder
  <2> SUFFICES ASSUME UploadInv, OrderInv PROVE InOrder
    OBVIOUS
  <2>1. TypeOK
    BY DEF UploadInv, ParserInv, ParserTypes, StoreInv, RestTypes, TypeOK
  <2>2. \A i \in 1 .. Len(rows) :
           LET stored == Len(disk[rows[i].file])
           IN  \/ rows[i].size = stored
               \/ sc.mayFail /\ (rows[i].size > stored \/ rows[i].size = 0)
    BY Zenon DEF UploadInv, StoreInv, Records
  <2>3. Ordered(disk)
    BY DEF OrderInv
  <2> QED BY <2>1, <2>2, <2>3, Zenon DEF InOrder, Ordered
<1> QED BY <1>2, <1>3, <1>4, PTL DEF Spec
----------------------------------------------------------------------------
(* A smooth upload.                                                        *)

\* The file of the upload holds the content up to k.
Holds(k) == disk = <<SubSeq(Body, 6 + 1, k)>>

\* No call has stored anything, or a context awaits the boundary.
NotBegun == ctx = NoContext /\ disk = <<>> /\ Kept = 0
Begun == /\ Kept \in 6 .. N + 7 /\ Holds(Kept) /\ ctx # NoContext
         /\ ctx = Context(1, "kExpectBoundary", Kept - 6, FALSE)

Streaming ==
    /\ at = 0 \/ at \in 5 .. N + 12 \/ at = N + 16
    /\ received = N + 11 \/ received <= N + 7
    /\ rows = <<>> /\ replies = <<>>
    /\ NotBegun \/ Begun

SmoothInv == Smooth => (conn = "open" => Streaming) /\ RowIsWholeFile

\* What a call of a smooth upload stores ends at z.
Upto(z) == /\ z \in Nat
           /\ \/ z = received /\ received <= N + 7 /\ Len(body) >= 6
              \/ z = N + 7 /\ received = N + 11

\* Where the part that a call writes begins in the body.
StartsAt(k) == (NotBegun /\ k = 6) \/ (Begun /\ k = Kept)

\* The body that a call gets is the one received behind what was taken.
ToCall == /\ Kept \in Nat /\ received \in Nat /\ Kept <= received /\ received <= N + 11
          /\ Len(body) = received - Kept /\ body = SubSeq(Body, Kept + 1, received)

\* What a call begins with.
LEMMA CallBegins ==
    ASSUME NotBegun \/ Begun
    PROVE  \E k : /\ k \in 6 .. N + 7
                  /\ Current.file = 1 /\ Current.total = k - 6 /\ Current.bad = FALSE
                  /\ Files = <<SubSeq(Body, 6 + 1, k)>>
                  /\ StartsAt(k)
<1>1. N \in Nat
  BY BodyIs
<1>2. CASE NotBegun
  <2>1. PICK k : k = 6
    OBVIOUS
  <2>2. Current = Context(Len(disk) + 1, "kExpectHeaders", 0, FALSE) /\ disk = <<>>
    BY <1>2 DEF Current, NotBegun
  <2>3. Len(disk) + 1 = 1
    BY <2>2
  <2>4. Current.file = 1 /\ Current.total = 0
    BY <2>2, <2>3 DEF Context
  <2>5. Current.bad = FALSE
    BY <2>2, <2>3 DEF Context
  <2>6. SubSeq(Body, 6 + 1, k) = <<>>
    <3>1. Body \in Seq(Token)
      BY Tokens
    <3>2. 6 + 1 \in Int /\ k \in Int /\ k < 6 + 1
      BY <2>1
    <3> QED BY <3>1, <3>2, EmptyCut
  <2>7. Files = <<<<>>>>
    <3>1. Files = Append(disk, <<>>)
      BY <1>2 DEF Files, NotBegun
    <3> QED BY <2>2, <3>1
  <2>8. k \in 6 .. N + 7 /\ k - 6 = 0
    BY <1>1, <2>1
  <2>9. Files = <<SubSeq(Body, 6 + 1, k)>> /\ StartsAt(k)
    BY <1>2, <2>1, <2>6, <2>7, Zenon DEF StartsAt
  <2>10. Current.total = k - 6
    BY <2>4, <2>8
  <2> QED BY <2>4, <2>5, <2>8, <2>9, <2>10, Zenon
<1>3. CASE Begun
  <2>1. PICK k : k = Kept
    OBVIOUS
  <2>2. k \in 6 .. N + 7 /\ disk = <<SubSeq(Body, 6 + 1, k)>> /\ ctx # NoContext
    BY <1>3, <2>1, Zenon DEF Begun, Holds
  <2>3. Current = Context(1, "kExpectBoundary", k - 6, FALSE) /\ Files = disk
    BY <1>3, <2>1 DEF Begun, Current, Files
  <2>4. Current.file = 1 /\ Current.total = k - 6
    BY <2>3 DEF Context
  <2>5. Current.bad = FALSE
    BY <2>3 DEF Context
  <2>6. Files = <<SubSeq(Body, 6 + 1, k)>> /\ StartsAt(k)
    BY <1>3, <2>1, <2>2, <2>3, Zenon DEF StartsAt
  <2> QED BY <2>2, <2>4, <2>5, <2>6, Zenon
<1> QED BY <1>2, <1>3, Zenon

\* From i to j in what s holds of the body.
Within(s, k, z, i, j) == /\ k \in Nat /\ z \in Nat /\ k <= z /\ z <= N + 11
                         /\ i \in Nat /\ j \in Nat /\ i <= j /\ j <= z - k
                         /\ Window(s, k, z)

Found(s, k, i, j) == SubSeq(s, i + 1, j) = SubSeq(Body, (k + i) + 1, k + j)

LEMMA WindowCut ==
    ASSUME NEW s, NEW k, NEW z, NEW i, NEW j, Within(s, k, z, i, j)
    PROVE  Found(s, k, i, j)
<1>1. PICK d, a, e : d = Body /\ a = SubSeq(s, i + 1, j) /\ e = SubSeq(d, (k + i) + 1, k + j)
  BY Zenon
<1>2. d \in Seq(Token) /\ Len(d) = N + 11 /\ N \in Nat
  BY <1>1, Tokens, BodyIs
<1>0. /\ k \in Nat /\ z \in Nat /\ k <= z /\ z <= N + 11
      /\ i \in Nat /\ j \in Nat /\ i <= j /\ j <= z - k
  BY DEF Within
<1>3. s \in Seq(Token) /\ Len(s) = z - k /\ \A n \in 1 .. z - k : s[n] = d[k + n]
  BY <1>1 DEF Within, Window
<1>4. a \in Seq(Token) /\ Len(a) = j - i /\ \A n \in 1 .. j - i : a[n] = s[i + n]
  <2>1. j <= Len(s)
    BY <1>0, <1>3
  <2>2. s \in Seq(Token)
    BY <1>3
  <2>3. /\ SubSeq(s, i + 1, j) \in Seq(Token) /\ Len(SubSeq(s, i + 1, j)) = j - i
        /\ \A n \in 1 .. j - i : SubSeq(s, i + 1, j)[n] = s[i + n]
    BY <1>0, <2>1, <2>2, Cut
  <2> QED BY <1>1, <2>3
<1>5. e \in Seq(Token) /\ Len(e) = j - i /\ \A n \in 1 .. j - i : e[n] = d[k + i + n]
  <2>1. PICK m, p : m = k + i /\ p = k + j
    OBVIOUS
  <2>2. m \in Nat /\ p \in Nat /\ m <= p /\ p <= Len(d) /\ p - m = j - i
    BY <1>0, <1>2, <2>1
  <2>3. e \in Seq(Token) /\ Len(e) = p - m /\ \A n \in 1 .. p - m : e[n] = d[m + n]
    BY <1>1, <1>2, <2>1, <2>2, Cut, SMTT(30)
  <2> QED BY <2>1, <2>2, <2>3
<1>6. ASSUME NEW n \in 1 .. Len(a) PROVE a[n] = e[n]
  <2>1. n \in 1 .. j - i /\ i + n \in 1 .. z - k /\ k + (i + n) = k + i + n
    BY <1>0, <1>4
  <2>2. a[n] = s[i + n] /\ e[n] = d[k + i + n]
    BY <1>4, <1>5, <2>1
  <2>3. s[i + n] = d[k + (i + n)]
    BY <1>3, <2>1
  <2> QED BY <2>1, <2>2, <2>3
<1>7. a = e
  BY <1>4, <1>5, <1>6, Alike
<1> QED BY <1>1, <1>7, Zenon DEF Found

\* The part that a call writes, and the state it leaves.
LEMMA CallPiece ==
    ASSUME ToCall, NEW k \in 6 .. N + 7, StartsAt(k), NEW z, Upto(z)
    PROVE  /\ k <= z /\ z <= N + 7
           /\ ThisPart.piece = SubSeq(Body, k + 1, z)
           /\ ThisPart.next = IF received = N + 11 THEN "kComplete" ELSE "kExpectBoundary"
<1>1. /\ N \in Nat /\ Kept \in Nat /\ received \in Nat /\ Kept <= received /\ received <= N + 11
      /\ Len(body) = received - Kept
  BY BodyIs DEF ToCall
<1>2. Window(body, Kept, received)
  BY <1>1, WindowIs DEF ToCall
<1>3. CASE NotBegun /\ k = 6
  <2>1. Kept = 0 /\ ThisPart = FirstPart(body)
    BY <1>3 DEF NotBegun, ThisPart
  <2>2. Window(body, 0, received)
    BY <1>2, <2>1
  <2>3. CASE z = received /\ received <= N + 7 /\ Len(body) >= 6
    <3>1. received >= 6
      BY <1>1, <2>1, <2>3
    <3>2. /\ FirstPart(body).piece = SubSeq(body, 6 + 1, received)
          /\ FirstPart(body).next = "kExpectBoundary"
      BY <1>1, <2>2, <2>3, <3>1, FirstOf
    <3>3. SubSeq(body, 6 + 1, received) = SubSeq(Body, (0 + 6) + 1, 0 + received)
      <4>1. PICK m, i : m = 0 /\ i = 6
        OBVIOUS
      <4>2. m \in Nat /\ i \in Nat /\ m <= received /\ i <= received /\ received <= received - m
        BY <1>1, <3>1, <4>1
      <4>3. Window(body, m, received)
        BY <2>2, <4>1
      <4>5. Within(body, m, received, i, received)
        BY <1>1, <4>2, <4>3 DEF Within
      <4>6. Found(body, m, i, received)
        BY <4>5, WindowCut
      <4>4. SubSeq(body, i + 1, received) = SubSeq(Body, (m + i) + 1, m + received)
        BY <4>6, Zenon DEF Found
      <4> QED BY <4>1, <4>4, Zenon
    <3>4. (0 + 6) + 1 = k + 1 /\ 0 + received = z /\ received # N + 11
      BY <1>1, <1>3, <2>3
    <3>5. SubSeq(body, 6 + 1, received) = SubSeq(Body, k + 1, z)
      BY <3>3, <3>4, Zenon
    <3> QED BY <1>1, <1>3, <2>1, <2>3, <3>1, <3>2, <3>4, <3>5
  <2>4. CASE z = N + 7 /\ received = N + 11
    <3>1. /\ FirstPart(body).piece = SubSeq(body, 6 + 1, N + 7)
          /\ FirstPart(body).next = "kComplete"
      BY <2>2, <2>4, FirstOfAll
    <3>2. SubSeq(body, 6 + 1, N + 7) = SubSeq(Body, (0 + 6) + 1, 0 + (N + 7))
      <4>1. PICK m, i, j : m = 0 /\ i = 6 /\ j = N + 7
        OBVIOUS
      <4>2. m \in Nat /\ i \in Nat /\ j \in Nat /\ m <= received /\ i <= j /\ j <= received - m
        BY <1>1, <2>4, <4>1
      <4>3. Window(body, m, received)
        BY <2>2, <4>1
      <4>5. Within(body, m, received, i, j)
        BY <1>1, <4>2, <4>3 DEF Within
      <4>6. Found(body, m, i, j)
        BY <4>5, WindowCut
      <4>4. SubSeq(body, i + 1, j) = SubSeq(Body, (m + i) + 1, m + j)
        BY <4>6, Zenon DEF Found
      <4> QED BY <4>1, <4>4
    <3>3. (0 + 6) + 1 = k + 1 /\ 0 + (N + 7) = z
      BY <1>1, <1>3, <2>4
    <3>4. SubSeq(body, 6 + 1, N + 7) = SubSeq(Body, k + 1, z)
      BY <3>2, <3>3, Zenon
    <3> QED BY <1>1, <1>3, <2>1, <2>4, <3>1, <3>4
  <2> QED BY <2>3, <2>4 DEF Upto
<1>4. CASE Begun /\ k = Kept
  <2>1. ThisPart = NextPart("kExpectBoundary", body)
    <3>1. ctx.state = "kExpectBoundary" /\ ctx # NoContext
      BY <1>4 DEF Begun, Context
    <3> QED BY <3>1 DEF ThisPart
  <2>2. Window(body, k, received)
    BY <1>2, <1>4
  <2>3. CASE z = received /\ received <= N + 7 /\ Len(body) >= 6
    <3>1. k < received /\ k \in Nat /\ k >= 6 /\ received # N + 11
      BY <1>1, <1>4, <2>3
    <3>2. /\ NextPart("kExpectBoundary", body).piece = body
          /\ NextPart("kExpectBoundary", body).next = "kExpectBoundary"
      BY <1>1, <2>2, <2>3, <3>1, NextOf
    <3>3. body = SubSeq(Body, k + 1, z)
      BY <1>4, <2>3 DEF ToCall
    <3> QED BY <1>1, <2>1, <2>3, <3>1, <3>2, <3>3
  <2>4. CASE z = N + 7 /\ received = N + 11
    <3>1. k \in Nat /\ k <= N + 7
      BY <1>1
    <3>2. /\ NextPart("kExpectBoundary", body).piece = SubSeq(body, 1, (N + 7) - k)
          /\ NextPart("kExpectBoundary", body).next = "kComplete"
      BY <2>2, <2>4, <3>1, NextOfAll
    <3>3. SubSeq(body, 1, (N + 7) - k) = SubSeq(Body, k + 1, z)
      <4>1. PICK i, j : i = 0 /\ j = (N + 7) - k
        OBVIOUS
      <4>2. /\ i \in Nat /\ j \in Nat /\ k <= received /\ i <= j /\ j <= received - k
            /\ (k + i) + 1 = k + 1 /\ k + j = z /\ i + 1 = 1
        BY <1>1, <2>4, <3>1, <4>1
      <4>4. Within(body, k, received, i, j)
        BY <1>1, <2>2, <3>1, <4>2 DEF Within
      <4>6. Found(body, k, i, j)
        BY <4>4, WindowCut
      <4>3. SubSeq(body, i + 1, j) = SubSeq(Body, (k + i) + 1, k + j)
        BY <4>6, Zenon DEF Found
      <4> QED BY <4>1, <4>2, <4>3, Zenon
    <3> QED BY <1>1, <2>1, <2>4, <3>1, <3>2, <3>3
  <2> QED BY <2>3, <2>4 DEF Upto
<1> QED BY <1>3, <1>4 DEF StartsAt

\* The content with its line end is what a smooth upload stores.
LEMMA ContentIs ==
           SubSeq(Body, 6 + 1, N + 7) = Content \o <<"crlf">>
<1>1. PICK d, a, x, c : /\ d = Body /\ a = SubSeq(d, 6 + 1, N + 7)
                        /\ x = <<"crlf">> /\ c = Content \o x
  BY Zenon
<1>2. PICK T : T = Token \cup STRING \cup {"crlf"}
  BY Zenon
<1>3. d \in Seq(Token) /\ Len(d) = N + 11 /\ N \in Nat
  BY <1>1, Tokens, BodyIs
<1>4. /\ \A i \in 1 .. N : d[6 + i] = Content[i]
      /\ d[N + 7] = "crlf"
  BY <1>1, BodyIs
<1>5. a \in Seq(Token) /\ Len(a) = N + 1 /\ \A i \in 1 .. N + 1 : a[i] = d[6 + i]
  <2>1. PICK m, n : m = 6 /\ n = N + 7
    OBVIOUS
  <2>2. m \in Nat /\ n \in Nat /\ m <= n /\ n <= Len(d) /\ n - m = N + 1
    BY <1>3, <2>1
  <2>3. d \in Seq(Token)
    BY <1>3
  <2>4. /\ SubSeq(d, m + 1, n) \in Seq(Token) /\ Len(SubSeq(d, m + 1, n)) = n - m
        /\ \A i \in 1 .. n - m : SubSeq(d, m + 1, n)[i] = d[m + i]
    BY <2>2, <2>3, Cut
  <2>5. a = SubSeq(d, m + 1, n)
    BY <1>1, <2>1
  <2> QED BY <2>1, <2>2, <2>4, <2>5
<1>6. Content \in Seq(T) /\ Len(Content) = N
  <2>1. Content \in Seq(STRING)
    BY UploadAssumption
  <2>2. \A i \in 1 .. Len(Content) : Content[i] \in T
    BY <1>2, <2>1
  <2> QED BY <2>1, <2>2, Elements DEF N
<1>7. x \in Seq(T) /\ Len(x) = 1 /\ x[1] = "crlf"
  BY <1>1, <1>2
<1>8. /\ c \in Seq(T) /\ Len(c) = N + 1
      /\ \A i \in 1 .. N + 1 : c[i] = IF i <= N THEN Content[i] ELSE x[i - N]
  <2>1. /\ c \in Seq(T) /\ Len(c) = Len(Content) + Len(x)
        /\ \A i \in 1 .. Len(Content) + Len(x) :
              c[i] = IF i <= Len(Content) THEN Content[i] ELSE x[i - Len(Content)]
    BY <1>1, <1>6, <1>7, JoinedAt
  <2> QED BY <1>6, <1>7, <2>1
<1>9. a \in Seq(T)
  <2>1. \A i \in 1 .. Len(a) : a[i] \in Token
    BY <1>5
  <2>2. \A i \in 1 .. Len(a) : a[i] \in T
    BY <1>2, <2>1
  <2>3. a \in Seq(Token)
    BY <1>5
  <2> QED BY <2>2, <2>3, Elements
<1>10. ASSUME NEW i \in 1 .. Len(a) PROVE a[i] = c[i]
  <2>1. i \in 1 .. N + 1 /\ a[i] = d[6 + i]
    BY <1>5
  <2>2. CASE i <= N
    <3>1. i \in 1 .. N
      BY <1>3, <2>1, <2>2
    <3> QED BY <1>4, <1>8, <2>1, <2>2, <3>1
  <2>3. CASE ~(i <= N)
    <3>1. 6 + i = N + 7 /\ i - N = 1
      BY <1>3, <2>1, <2>3
    <3> QED BY <1>4, <1>7, <1>8, <2>1, <2>3, <3>1
  <2> QED BY <2>2, <2>3
<1>11. a = c
  <2>1. Len(a) = Len(c)
    BY <1>5, <1>8
  <2>2. c \in Seq(T)
    BY <1>8
  <2> QED BY <1>9, <1>10, <2>1, <2>2, Alike
<1> QED BY <1>1, <1>11, Zenon

LEMMA OnlyFile ==
    ASSUME NEW p, NEW q, NEW d, d = <<p>>
    PROVE  [d EXCEPT ![1] = @ \o q] = <<p \o q>>
OBVIOUS

\* The part that a call of a smooth upload stores.
LEMMA SmoothWritten ==
    ASSUME ToCall, NotBegun \/ Begun, NEW z, Upto(z), Written(Len(ThisPart.piece))
    PROVE  /\ disk' = <<SubSeq(Body, 6 + 1, z)>> /\ z \in 6 .. N + 7
           /\ Current.file = 1 /\ Total = z - 6 /\ Current.bad = FALSE
           /\ ThisPart.next = IF received = N + 11 THEN "kComplete" ELSE "kExpectBoundary"
<1>1. PICK k : /\ k \in 6 .. N + 7 /\ StartsAt(k)
               /\ Current.file = 1 /\ Current.total = k - 6 /\ Current.bad = FALSE
               /\ Files = <<SubSeq(Body, 6 + 1, k)>>
  BY CallBegins, Zenon
<1>2. /\ k <= z /\ z <= N + 7
      /\ ThisPart.piece = SubSeq(Body, k + 1, z)
      /\ ThisPart.next = IF received = N + 11 THEN "kComplete" ELSE "kExpectBoundary"
  BY <1>1, CallPiece
<1>3. z \in Nat /\ k \in Nat /\ N \in Nat
  BY <1>1, BodyIs DEF Upto
<1>4. PICK p, q, d : p = SubSeq(Body, 6 + 1, k) /\ q = SubSeq(Body, k + 1, z) /\ d = Files
  BY Zenon
<1>5. disk' = [d EXCEPT ![1] = @ \o q]
  <2>1. PICK f, e : f = Current.file /\ e = ThisPart.piece
    OBVIOUS
  <2>2. disk' = [d EXCEPT ![f] = @ \o e]
    <3>1. SubSeq(e, 1, Len(e)) = e
      <4>1. k \in Nat /\ z \in Nat /\ k <= z /\ z <= N + 11
        BY <1>2, <1>3
      <4>2. Window(q, k, z)
        BY <1>4, <4>1, WindowIs, Zenon
      <4>3. e \in Seq(Token)
        BY <1>2, <1>4, <2>1, <4>2, Zenon DEF Window
      <4> QED BY <4>3, WholeCut
    <3>2. disk' = [d EXCEPT ![f] = @ \o SubSeq(e, 1, Len(e))]
      BY <1>4, <2>1, Zenon DEF Written, Stores
    <3> QED BY <3>1, <3>2, Zenon
  <2>3. f = 1 /\ e = q
    BY <1>1, <1>2, <1>4, <2>1, Zenon
  <2> QED BY <2>2, <2>3
<1>6. disk' = <<p \o q>>
  <2>1. d = <<p>>
    BY <1>1, <1>4, Zenon
  <2> QED BY <1>5, <2>1, OnlyFile, Zenon
<1>7. p \o q = SubSeq(Body, 6 + 1, z) /\ Len(q) = z - k
  <2>1. PICK b1, m : b1 = Body /\ m = 6
    OBVIOUS
  <2>2. b1 \in Seq(Token) /\ Len(b1) = N + 11
    BY <2>1, Tokens, BodyIs
  <2>3. m \in Nat /\ m <= k /\ k <= z /\ z <= Len(b1)
    BY <1>1, <1>2, <1>3, <2>1, <2>2
  <2>4. SubSeq(b1, m + 1, k) \o SubSeq(b1, k + 1, z) = SubSeq(b1, m + 1, z)
    BY <1>3, <2>2, <2>3, CutsMeet
  <2>5. Len(SubSeq(b1, k + 1, z)) = z - k
    BY <1>3, <2>2, <2>3, Cut
  <2> QED BY <1>4, <2>1, <2>4, <2>5, Zenon
<1>8. Total = z - 6
  <2>1. Total = Current.total + Len(ThisPart.piece)
    BY DEF Total
  <2>2. Len(ThisPart.piece) = z - k
    BY <1>2, <1>4, <1>7, Zenon
  <2>3. Total = (k - 6) + (z - k)
    BY <1>1, <2>1, <2>2
  <2> QED BY <1>3, <2>3
<1>9. disk' = <<SubSeq(Body, 6 + 1, z)>>
  BY <1>6, <1>7, Zenon
<1>10. z \in 6 .. N + 7
  BY <1>1, <1>2, <1>3
<1> QED BY <1>1, <1>2, <1>8, <1>9, <1>10, Zenon

\* Nothing fails in a smooth upload: a call is refused, or stores all it has.
LEMMA SmoothCall ==
    ASSUME NotBegun \/ Begun, Smooth, NEW reply, handleFileUpload(reply)
    PROVE  \/ reply = 401 /\ Denied
           \/ reply = 200 /\ Finished(Len(ThisPart.piece))
           \/ reply = 0 /\ Waiting(Len(ThisPart.piece))
<1>1. ~sc.mayFail /\ Amounts = {Len(ThisPart.piece)}
  BY Zenon DEF Smooth, Amounts
<1>2. ctx.bad = FALSE
  <2>1. CASE NotBegun
    BY <2>1 DEF NotBegun, NoContext, Context
  <2>2. CASE Begun
    BY <2>2 DEF Begun, Context
  <2> QED BY <2>1, <2>2, Zenon
<1>3. ~CannotOpen /\ ~WriteThrows
  <2>1. ~Current.bad
    <3>1. ~Context(Len(disk) + 1, "kExpectHeaders", 0, FALSE).bad
      BY DEF Context
    <3> QED BY <1>2, <3>1, Zenon DEF Current
  <2> QED BY <1>1, <2>1, Zenon DEF CannotOpen, WriteThrows
<1> QED BY <1>1, <1>3, Zenon DEF handleFileUpload

LEMMA HasBody ==
    ASSUME UploadInv, phase = "dispatch"
    PROVE  ToCall /\ conn = "open" /\ N \in Nat
<1>1. /\ conn = "open" /\ body \in Seq(Token)
      /\ Kept \in Nat /\ received \in Nat /\ Kept <= received
      /\ received <= Len(Body) /\ body = SubSeq(Body, Kept + 1, received)
  BY BodyToCall
<1>2. Len(Body) = N + 11 /\ N \in Nat
  BY BodyIs
<1>3. PICK n : n = Len(body)
  BY Zenon
<1>4. n \in Nat
  BY <1>1, <1>3
<1>5. Kept = received - n
  BY <1>3 DEF Kept
<1>6. Len(body) = received - Kept
  BY <1>1, <1>3, <1>4, <1>5
<1> QED BY <1>1, <1>2, <1>6 DEF ToCall

\* A chunk of a smooth upload.
LEMMA ChunkSmooth ==
    ASSUME UploadInv, Streaming, Smooth, ChunkCall
    PROVE  Streaming'
<1>1. /\ phase = "dispatch" /\ result = "kHeadersComplete" /\ Len(body) >= MinChunk
      /\ UNCHANGED <<at, replies>>
  BY DEF ChunkCall
<1>2. ToCall /\ conn = "open" /\ N \in Nat
  BY <1>1, HasBody
<1>3. state = "kExpectBody" /\ received < N + 11
  <2>1. Parsing
    BY <1>2 DEF UploadInv, ParserInv
  <2>2. Len(Body) = N + 11
    BY BodyIs
  <2> QED BY <1>1, <2>1, <2>2 DEF Parsing
<1>4. /\ at = 0 \/ at \in 5 .. N + 12 \/ at = N + 16
      /\ rows = <<>> /\ replies = <<>>
      /\ NotBegun \/ Begun
      /\ received = N + 11 \/ received <= N + 7
  BY Zenon DEF Streaming
<1>5. received \in Nat /\ received <= N + 7 /\ received # N + 11 /\ Len(body) >= 6
  <2>1. received \in Nat /\ Kept \in Nat /\ Len(body) = received - Kept
    BY <1>2 DEF ToCall
  <2>2. received <= N + 7 /\ received # N + 11
    BY <1>2, <1>3, <1>4, <2>1
  <2>3. MinChunk \in Nat /\ MinChunk >= 6
    BY HeadIs, UploadAssumption
  <2>4. Len(body) \in Int
    BY <2>1
  <2> QED BY <1>1, <2>1, <2>2, <2>3, <2>4
<1>6. Upto(received)
  BY <1>5 DEF Upto
<1>7. PICK reply : handleFileUpload(reply)
  BY DEF ChunkCall
<1>8. Denied \/ Finished(Len(ThisPart.piece)) \/ Waiting(Len(ThisPart.piece))
  BY <1>4, <1>7, SmoothCall, Zenon
<1>9. ASSUME NEW c, NEW d, Leaves(c, d) PROVE ctx' = c /\ body' = d /\ received' = received
  BY <1>1, <1>9 DEF Leaves
<1>10. CASE Denied
  <2>1. UNCHANGED <<ctx, body, received, disk, rows>>
    BY <1>9, <1>10 DEF Denied, storeVars
  <2>2. Kept' = Kept
    BY <2>1 DEF Kept
  <2>3. NotBegun => NotBegun'
    BY <2>1, <2>2, Zenon DEF NotBegun, NoContext
  <2>4. Begun => Begun'
    BY <2>1, <2>2, Zenon DEF Begun, Holds, NoContext
  <2> QED BY <1>1, <1>4, <2>1, <2>3, <2>4, Zenon DEF Streaming
<1>11. ASSUME Written(Len(ThisPart.piece))
       PROVE  /\ disk' = <<SubSeq(Body, 6 + 1, received)>> /\ received \in 6 .. N + 7
              /\ Current.file = 1 /\ Total = received - 6 /\ Current.bad = FALSE
              /\ ThisPart.next = "kExpectBoundary" /\ ~Complete
  <2>1. /\ disk' = <<SubSeq(Body, 6 + 1, received)>> /\ received \in 6 .. N + 7
        /\ Current.file = 1 /\ Total = received - 6 /\ Current.bad = FALSE
        /\ ThisPart.next = IF received = N + 11 THEN "kComplete" ELSE "kExpectBoundary"
    BY <1>2, <1>4, <1>6, <1>11, SmoothWritten, Zenon
  <2>2. ThisPart.next = "kExpectBoundary"
    BY <1>5, <2>1, Zenon
  <2>3. ~Complete
    BY <1>3, <2>2 DEF Complete
  <2> QED BY <2>1, <2>2, <2>3, Zenon
<1>12. CASE Finished(Len(ThisPart.piece))
  BY <1>11, <1>12, Zenon DEF Finished
<1>13. CASE Waiting(Len(ThisPart.piece))
  <2>1. Written(Len(ThisPart.piece)) /\ rows' = rows
    BY <1>13, Zenon DEF Waiting
  <2>2. Failing(Len(ThisPart.piece)) = FALSE
    <3>1. ~(Len(ThisPart.piece) < Len(ThisPart.piece))
      <4>1. Len(ThisPart.piece) \in Nat
        BY <1>2, PieceIs DEF ToCall
      <4> QED BY <4>1
    <3> QED BY <1>11, <2>1, <3>1, Zenon DEF Failing
  <2>3. Leaves(Context(1, "kExpectBoundary", received - 6, FALSE), <<>>)
    BY <1>11, <1>13, <2>1, <2>2, Zenon DEF Waiting
  <2>4. /\ ctx' = Context(1, "kExpectBoundary", received - 6, FALSE)
        /\ body' = <<>> /\ received' = received
    BY <1>9, <2>3, Zenon
  <2>5. Kept' = received
    <3>1. Len(body') = 0
      BY <2>4
    <3> QED BY <1>5, <2>4, <3>1 DEF Kept
  <2>6. ctx' # NoContext'
    <3>1. ctx'.file = 1 /\ NoContext'.file = 0
      BY <2>4 DEF Context, NoContext
    <3> QED BY <3>1
  <2>7. Holds(Kept)' /\ Kept' \in 6 .. N + 7
    BY <1>11, <2>1, <2>5, Zenon DEF Holds
  <2>8. ctx' = Context(1, "kExpectBoundary", Kept' - 6, FALSE)
    BY <2>4, <2>5, Zenon
  <2>9. Begun'
    BY <2>6, <2>7, <2>8, Zenon DEF Begun
  <2>10. received' <= N + 7
    BY <1>5, <2>4, Zenon
  <2> QED BY <1>1, <1>4, <2>1, <2>9, <2>10, Zenon DEF Streaming
<1> QED BY <1>8, <1>10, <1>12, <1>13, Zenon

\* The whole request of a smooth upload.
LEMMA RequestSmooth ==
    ASSUME UploadInv, Streaming, Smooth, RequestCall
    PROVE  RowIsWholeFile'
<1>1. phase = "dispatch" /\ result = "kGotRequest"
  BY DEF RequestCall
<1>2. ToCall /\ conn = "open" /\ N \in Nat
  BY <1>1, HasBody
<1>3. state = "kGotAll" /\ received = N + 11
  <2>1. Parsing
    BY <1>2 DEF UploadInv, ParserInv
  <2>2. Len(Body) = N + 11
    BY BodyIs
  <2> QED BY <1>1, <2>1, <2>2 DEF Parsing
<1>4. rows = <<>> /\ replies = <<>> /\ (NotBegun \/ Begun)
  BY Zenon DEF Streaming
<1>5. Upto(N + 7)
  BY <1>2, <1>3 DEF Upto
<1>6. PICK reply : handleFileUpload(reply) /\ replies' = Append(replies, reply)
  BY DEF RequestCall
<1>7. replies' = <<reply>> /\ {replies'[i] : i \in 1 .. Len(replies')} = {reply}
  BY <1>4, <1>6
<1>8. \/ reply = 401 /\ Denied
      \/ reply = 200 /\ Finished(Len(ThisPart.piece))
      \/ Waiting(Len(ThisPart.piece))
  BY <1>4, <1>6, SmoothCall, Zenon
<1>9. CASE reply = 401 /\ Denied
  <2>1. disk' = disk /\ rows' = <<>>
    BY <1>4, <1>9 DEF Denied, storeVars
  <2>2. Len(disk) <= 1
    <3>1. CASE NotBegun
      BY <3>1 DEF NotBegun
    <3>2. CASE Begun
      <4>1. PICK p : disk = <<p>>
        BY <3>2 DEF Begun, Holds
      <4> QED BY <4>1
    <3> QED BY <1>4, <3>1, <3>2
  <2>3. Len(rows') = 0 /\ 200 \notin {replies'[i] : i \in 1 .. Len(replies')}
    BY <1>7, <1>9, <2>1
  <2>4. Len(rows') <= 1 /\ \A i \in 1 .. Len(rows') : FALSE
    BY <2>3
  <2> QED BY <2>1, <2>2, <2>3, <2>4, Zenon DEF RowIsWholeFile
<1>10. ASSUME Written(Len(ThisPart.piece))
       PROVE  /\ disk' = <<Content \o <<"crlf">>>>
              /\ Current.file = 1 /\ Total = N + 1 /\ Complete
  <2>1. PICK z : z = N + 7
    OBVIOUS
  <2>2. Upto(z)
    BY <1>5, <2>1
  <2>3. /\ disk' = <<SubSeq(Body, 6 + 1, z)>> /\ Current.file = 1 /\ Total = z - 6
        /\ ThisPart.next = IF received = N + 11 THEN "kComplete" ELSE "kExpectBoundary"
    BY <1>2, <1>4, <1>10, <2>2, SmoothWritten, Zenon
  <2>4. disk' = <<Content \o <<"crlf">>>>
    BY <2>1, <2>3, ContentIs, Zenon
  <2>5. Total = N + 1
    BY <1>2, <2>1, <2>3
  <2>6. Complete
    BY <1>3 DEF Complete
  <2> QED BY <2>3, <2>4, <2>5, <2>6, Zenon
<1>11. CASE reply = 200 /\ Finished(Len(ThisPart.piece))
  <2>1. Outcome = {TRUE}
    BY Zenon DEF Smooth, Outcome
  <2>2. Written(Len(ThisPart.piece)) /\ rows' = Append(rows, [file |-> Current.file, size |-> Total])
    BY <1>11, <2>1, Zenon DEF Finished
  <2>3. PICK row : row = [file |-> 1, size |-> N + 1]
    BY Zenon
  <2>4. rows' = Append(<<>>, row)
    BY <1>4, <1>10, <2>2, <2>3, Zenon
  <2>5. Len(rows') = 1 /\ rows'[1] = row
    BY <2>4
  <2>6. row.file = 1 /\ row.size = N + 1
    BY <2>3
  <2>7. PICK f : f = Content \o <<"crlf">>
    BY Zenon
  <2>8. disk' = <<f>>
    BY <1>10, <2>2, <2>7, Zenon
  <2>9. Len(disk') = 1 /\ disk'[1] = f
    BY <2>8
  <2>10. ASSUME NEW i \in 1 .. Len(rows')
         PROVE  disk'[rows'[i].file] = f /\ rows'[i].size = N + 1
    <3>1. i = 1
      BY <2>5
    <3> QED BY <2>5, <2>6, <2>9, <3>1
  <2>11. Len(disk') <= 1 /\ Len(rows') <= 1 /\ N + 1 = Len(Content) + 1
    BY <2>5, <2>9 DEF N
  <2> QED BY <2>5, <2>7, <2>10, <2>11, Zenon DEF RowIsWholeFile
<1>12. CASE Waiting(Len(ThisPart.piece))
  BY <1>10, <1>12, Zenon DEF Waiting
<1> QED BY <1>8, <1>9, <1>11, <1>12, Zenon

\* A read of a smooth upload.
LEMMA DeliverSmooth ==
    ASSUME Streaming, Smooth, Deliver
    PROVE  Streaming'
<1>1. PICK n \in sc.cuts : at' = n
  BY DEF Deliver
<1>2. UNCHANGED <<received, body, ctx, disk, rows, replies>>
  BY DEF Deliver, storeVars
<1>3. n \in CutContent
  BY <1>1, Zenon DEF Smooth
<1>4. /\ N \in Nat /\ Len(ReqHead) = 5 /\ Len(PartHead) = 6
      /\ Len(Request) = N + 16 /\ Len(Content) = N
  BY BodyIs, RequestIs, HeadIs DEF ReqHead, N
<1>5. n \in 5 .. N + 12 \/ n = N + 16
  BY <1>3, <1>4 DEF CutContent
<1>6. Kept' = Kept
  BY <1>2 DEF Kept
<1>7. NotBegun => NotBegun'
  BY <1>2, <1>6, Zenon DEF NotBegun, NoContext
<1>8. Begun => Begun'
  BY <1>2, <1>6, Zenon DEF Begun, Holds, NoContext
<1> QED BY <1>1, <1>2, <1>5, <1>7, <1>8, Zenon DEF Streaming

\* processBody in a smooth upload: all of the body, or some of the content.
LEMMA BodySmooth ==
    ASSUME UploadInv, Streaming, ProcessBody
    PROVE  Streaming'
<1>1. UNCHANGED <<at, ctx, disk, rows, replies>>
  BY DEF ProcessBody, storeVars
<1>2. Kept' = Kept
  BY BodyStep
<1>3. NotBegun => NotBegun'
  BY <1>1, <1>2, Zenon DEF NotBegun, NoContext
<1>4. Begun => Begun'
  BY <1>1, <1>2, Zenon DEF Begun, Holds, NoContext
<1>5. received' = N + 11 \/ received' <= N + 7
  <2>1. /\ N \in Nat /\ Len(Body) = N + 11 /\ at \in Nat /\ at <= N + 16
        /\ received \in 0 .. length /\ length \in Nat
    BY AtIs DEF UploadInv
  <2>2. phase = "parse" /\ state = "kExpectBody"
    BY DEF ProcessBody, Parses
  <2>3. conn = "open" /\ Parsing
    BY <2>2, Running DEF UploadInv, ParserInv
  <2>4. PICK m : m = 5 + received
    OBVIOUS
  <2>5. length = N + 11 /\ m <= at /\ buf = SubSeq(Request, m + 1, at)
    BY <2>1, <2>2, <2>3, <2>4 DEF Parsing, Consumed
  <2>6. m \in Nat /\ received \in Nat
    BY <2>1, <2>4
  <2>7. Len(buf) = at - m
    BY <2>1, <2>5, <2>6, BufIs
  <2>8. received' = received + IF Len(buf) < length - received THEN Len(buf) ELSE length - received
    BY DEF ProcessBody
  <2>9. at = 0 \/ at \in 5 .. N + 12 \/ at = N + 16
    BY Zenon DEF Streaming
  <2> QED BY <2>1, <2>4, <2>5, <2>6, <2>7, <2>8, <2>9
<1> QED BY <1>1, <1>3, <1>4, <1>5, Zenon DEF Streaming

\* What leaves the upload where it is.
LEMMA SmoothSame ==
    ASSUME Streaming, Kept' = Kept, received' = received,
           UNCHANGED <<at, ctx, disk, rows, replies>>
    PROVE  Streaming'
<1>1. NotBegun => NotBegun'
  BY Zenon DEF NotBegun, NoContext
<1>2. Begun => Begun'
  BY Zenon DEF Begun, Holds, NoContext
<1> QED BY <1>1, <1>2, Zenon DEF Streaming

\* An upload that streams has no row yet.
LEMMA NoRowYet ==
    Streaming => RowIsWholeFile
<1> SUFFICES ASSUME Streaming PROVE RowIsWholeFile
  OBVIOUS
<1>1. rows = <<>> /\ replies = <<>> /\ (NotBegun \/ Begun)
  BY Zenon DEF Streaming
<1>2. Len(disk) <= 1
  <2>1. CASE NotBegun
    BY <2>1 DEF NotBegun
  <2>2. CASE Begun
    <3>1. PICK p : disk = <<p>>
      BY <2>2 DEF Begun, Holds
    <3> QED BY <3>1
  <2> QED BY <1>1, <2>1, <2>2
<1>3. Len(rows) <= 1 /\ Len(replies) = 0 /\ \A i \in 1 .. Len(rows) : FALSE
  BY <1>1
<1>4. 200 \notin {replies[i] : i \in 1 .. Len(replies)}
  BY <1>3
<1> QED BY <1>2, <1>3, <1>4, Zenon DEF RowIsWholeFile

LEMMA NoRowNext ==
    Streaming' => RowIsWholeFile'
BY NoRowYet, PTL

LEMMA SmoothInitial ==
    ASSUME Init
    PROVE  SmoothInv
<1>1. /\ at = 0 /\ received = 0 /\ body = <<>> /\ ctx = NoContext
      /\ disk = <<>> /\ rows = <<>> /\ replies = <<>>
  BY DEF Init
<1>2. N \in Nat
  BY BodyIs
<1>3. received <= N + 7
  BY <1>1, <1>2
<1>4. Kept = 0
  <2>1. Len(body) = 0
    BY <1>1
  <2>2. received = 0
    BY <1>1
  <2> QED BY <2>1, <2>2 DEF Kept
<1>5. NotBegun
  BY <1>1, <1>4 DEF NotBegun
<1>6. Streaming
  BY <1>1, <1>3, <1>5, Zenon DEF Streaming
<1> QED BY <1>6, NoRowYet, Zenon DEF SmoothInv

LEMMA SmoothStep ==
    ASSUME UploadInv, SmoothInv, [Next]_vars
    PROVE  SmoothInv'
<1>1. sc' = sc
  BY DEF Next, vars
<1>2. Smooth' = Smooth
  BY <1>1 DEF Smooth, CutContent, ReqHead, PartHead, Request
<1> SUFFICES ASSUME Smooth PROVE (conn' = "open" => Streaming') /\ RowIsWholeFile'
  BY <1>2, Zenon DEF SmoothInv
<1>3. (conn = "open" => Streaming) /\ RowIsWholeFile
  BY Zenon DEF SmoothInv
<1>4. ASSUME Streaming' PROVE RowIsWholeFile'
  BY <1>4, NoRowNext
<1>5. ASSUME UNCHANGED <<disk, rows, replies>> PROVE RowIsWholeFile'
  BY <1>2, <1>3, <1>5, Zenon DEF RowIsWholeFile
<1>6. ASSUME UNCHANGED <<at, received, body, ctx, disk, rows, replies, conn>>
      PROVE  (conn' = "open" => Streaming') /\ RowIsWholeFile'
  <2>1. Kept' = Kept
    BY <1>6 DEF Kept
  <2>2. ASSUME Streaming PROVE Streaming'
    BY <1>6, <2>1, <2>2, SmoothSame
  <2> QED BY <1>3, <1>5, <1>6, <2>2, Zenon
<1>7. CASE UNCHANGED vars
  BY <1>6, <1>7 DEF vars, parseVars, storeVars
<1>8. CASE Next
  <2>1. Step
    BY <1>8 DEF Next
  <2>2. CASE ParseRequestLine
    BY <1>6, <2>2 DEF ParseRequestLine, parseVars, storeVars
  <2>3. CASE ProcessHeader
    BY <1>6, <2>3 DEF ProcessHeader, storeVars
  <2>4. CASE HeadersIncomplete
    BY <1>7, <2>4 DEF HeadersIncomplete
  <2>5. CASE ProcessBody
    <3>1. conn = "open"
      BY <2>5, Running DEF UploadInv, ParserInv, ProcessBody, Parses
    <3>2. Streaming'
      BY <1>3, <2>5, <3>1, BodySmooth
    <3> QED BY <1>4, <3>2, Zenon
  <2>6. CASE NothingToDo
    BY <1>6, <2>6 DEF NothingToDo, parseVars, storeVars
  <2>7. CASE ChunkCall
    <3>1. conn = "open"
      BY <2>7, HasBody DEF ChunkCall
    <3>2. Streaming'
      BY <1>3, <2>7, <3>1, ChunkSmooth
    <3> QED BY <1>4, <3>2, Zenon
  <2>8. CASE RequestCall
    <3>1. conn = "open" /\ conn' = "closed"
      BY <2>8, HasBody DEF RequestCall
    <3>2. RowIsWholeFile'
      BY <1>3, <2>8, <3>1, RequestSmooth
    <3> QED BY <3>1, <3>2
  <2>9. CASE Deliver
    <3>1. conn = "open"
      BY <2>9 DEF Deliver
    <3>2. Streaming'
      BY <1>3, <2>9, <3>1, DeliverSmooth
    <3> QED BY <1>4, <3>2, Zenon
  <2>10. CASE PeerCloses
    <3>1. conn' = "closed" /\ UNCHANGED <<disk, rows, replies>>
      BY <2>10 DEF PeerCloses, storeVars
    <3> QED BY <1>5, <3>1
  <2>11. CASE SessionEnds
    BY <1>6, <2>11 DEF SessionEnds, parseVars, storeVars
  <2> QED BY <2>1, <2>2, <2>3, <2>4, <2>5, <2>6, <2>7, <2>8, <2>9, <2>10, <2>11
          DEF Step, OnMessage
<1> QED BY <1>7, <1>8

\* Upload.RowIsWholeFile.  When nothing fails and no read ends in the head of
\* the request or in the boundary, the calls of handleFileUpload, however many
\* the reads make, leave one file and one row, and the row stands for the whole
\* content: stored in order, once, and counted to the last token.
THEOREM UploadRowIsWholeFile ==
    Spec => []RowIsWholeFile
<1>1. Init => UploadInv /\ ThrowInv /\ SmoothInv
  BY UploadInitial, SmoothInitial
<1>2. UploadInv /\ ThrowInv /\ SmoothInv /\ [Next]_vars
        => UploadInv' /\ ThrowInv' /\ SmoothInv'
  BY UploadStep, ThrowStep, SmoothStep
<1>3. UploadInv /\ ThrowInv /\ SmoothInv => RowIsWholeFile
  <2> SUFFICES ASSUME SmoothInv PROVE RowIsWholeFile
    OBVIOUS
  <2>1. CASE Smooth
    BY <2>1, Zenon DEF SmoothInv
  <2>2. CASE ~Smooth
    BY <2>2, Zenon DEF RowIsWholeFile
  <2> QED BY <2>1, <2>2
<1> QED BY <1>1, <1>2, <1>3, PTL DEF Spec
=============================================================================
