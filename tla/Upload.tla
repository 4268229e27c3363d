------------------------------- MODULE Upload -------------------------------
(***************************************************************************)
(* One multipart upload on one connection: the incremental parser          *)
(* HttpContext::parseRequest, HttpServer::onMessage, and handleFileUpload  *)
(* with its FileUploadContext, fed by whatever pieces the socket delivers. *)
(*                                                                         *)
(* The request is a sequence of tokens.  A token is text that the code     *)
(* never looks into; "crlf", the two halves of the boundary and the "--"   *)
(* that ends it are tokens of their own.                                   *)
(***************************************************************************)
EXTENDS Integers, Sequences

CONSTANTS
    Content,      \* the tokens of the file
    MinChunk,     \* body tokens worth a call before the end: 1 MB
    Scenarios     \* where reads may end, and what may fail

Boundary == <<"bound", "ary">>
EndBoundary == Boundary \o <<"--">>
PartHead == Boundary \o <<"crlf", "disposition", "crlf", "crlf">>
Body == PartHead \o Content \o <<"crlf">> \o EndBoundary \o <<"crlf">>
ReqHead == <<"request", "crlf", "length", "crlf", "crlf">>
Request == ReqHead \o Body
Token == {Request[i] : i \in 1 .. Len(Request)}

\* In a scenario reads end at some places of the request (cuts), and INSERT and
\* writes to the file may fail (mayFail).
Scenario(cuts, fail) == [cuts |-> cuts, mayFail |-> fail]

\* Reads that end behind the head of the request, in the part's head or in the
\* content, or with the request.
CutContent == (Len(ReqHead) .. Len(ReqHead) + Len(PartHead) + Len(Content) + 1)
                  \cup {Len(Request)}

\* Reads that end anywhere.
CutAnywhere == 1 .. Len(Request)

\* The head of the part is far below the size of a chunk.
ASSUME UploadAssumption ==
    /\ Content \in Seq(STRING)
    /\ \A i \in 1 .. Len(Content) :
          Content[i] \notin {"bound", "ary", "--", "request", "length", "disposition"}
    /\ MinChunk \in Nat /\ MinChunk >= Len(PartHead)
    /\ \A c \in Scenarios :
          /\ c.cuts \subseteq CutAnywhere /\ Len(Request) \in c.cuts
          /\ c.mayFail \in BOOLEAN

VARIABLES
    sc,         \* the scenario
    at,         \* tokens of the request that have been read
    buf,        \* inputBuffer_
    phase,      \* "idle", in parseRequest ("parse") or after it ("dispatch")
    result,     \* what parseRequest returns
    state,      \* HttpContext::state_
    length,     \* contentLength_
    received,   \* bodyReceived_
    body,       \* request_.body()
    ctx,        \* customContext_, a FileUploadContext
    session,    \* the session of the request is live
    disk,       \* the files created, each with its content
    rows,       \* rows inserted into files: [file, size]
    replies,    \* replies sent
    conn        \* "open" or "closed"

parseVars == <<buf, state, length, received>>
storeVars == <<disk, rows>>
vars == <<sc, at, parseVars, phase, result, body, ctx, session, storeVars, replies, conn>>

\* A FileUploadContext: its file, state_, totalBytes_, and whether the stream
\* has failed (it then refuses every later write).
Context(f, s, n, bad) == [file |-> f, state |-> s, total |-> n, bad |-> bad]
NoContext == Context(0, "none", 0, FALSE)
Outcome == IF sc.mayFail THEN BOOLEAN ELSE {TRUE}

\* std::string::find: the first place of p in s from i on, 0 for npos.
FindFrom(s, p, i) ==
    LET found == {j \in i .. Len(s) - Len(p) + 1 : SubSeq(s, j, j + Len(p) - 1) = p}
    IN  IF found = {} THEN 0 ELSE CHOOSE j \in found : \A k \in found : j <= k
Find(s, p) == FindFrom(s, p, 1)
Rest(s, n) == SubSeq(s, n + 1, Len(s))
CRLF == Find(buf, <<"crlf">>)

----------------------------------------------------------------------------
(* HttpContext::parseRequest: one action for each turn of its loop.        *)

Returns(r) == phase' = "dispatch" /\ result' = r
Goes == phase' = "parse" /\ UNCHANGED result
Parses(s) == phase = "parse" /\ state = s

ParseRequestLine ==
    /\ Parses("kExpectRequestLine")
    /\ IF CRLF = 0
       THEN Returns("kNeedMore") /\ UNCHANGED parseVars
       ELSE /\ Goes
            /\ buf' = Rest(buf, CRLF)
            /\ state' = "kExpectHeaders"
            /\ UNCHANGED <<length, received>>
    /\ UNCHANGED <<at, body, ctx, session, storeVars, replies, conn>>

\* processHeaders takes one line: a header, or the empty line that ends them.
ProcessHeader ==
    /\ Parses("kExpectHeaders") /\ CRLF > 0
    /\ buf' = Rest(buf, CRLF)
    /\ length' = IF buf[1] = "length" THEN Len(Body) ELSE length
    /\ IF CRLF > 1
       THEN Goes /\ UNCHANGED state
       ELSE IF length = 0
       THEN state' = "kGotAll" /\ Returns("kGotRequest")
       ELSE /\ state' = "kExpectBody"
            /\ IF buf' # <<>> THEN Goes ELSE Returns("kHeadersComplete")
    /\ UNCHANGED <<at, received, body, ctx, session, storeVars, replies, conn>>

\* processHeaders finds no complete line and returns true; parseRequest stays
\* in its loop and calls it again.
HeadersIncomplete ==
    /\ Parses("kExpectHeaders") /\ CRLF = 0
    /\ UNCHANGED vars

\* Mutant: the body is whole only when more than contentLength_ has come.
MutBodyStrict ==
    /\ Parses("kExpectBody")
    /\ body' = body \o buf
    /\ buf' = <<>>
    /\ received' = received + Len(buf)
    /\ Returns("kHeadersComplete")
    /\ UNCHANGED <<at, state, length, ctx, session, storeVars, replies, conn>>

ProcessBody ==
    LET missing == length - received
        n == IF Len(buf) < missing THEN Len(buf) ELSE missing
    IN  /\ Parses("kExpectBody")
        /\ body' = body \o SubSeq(buf, 1, n)
        /\ buf' = Rest(buf, n)
        /\ received' = received + n
        /\ IF n = missing
           THEN state' = "kGotAll" /\ Returns("kGotRequest")
           ELSE UNCHANGED state /\ Returns("kHeadersComplete")
        /\ UNCHANGED <<at, length, ctx, session, storeVars, replies, conn>>

----------------------------------------------------------------------------
(* handleFileUpload.  A part says what one call writes, if it writes, and  *)
(* the state it leaves the FileUploadContext in.                           *)

Part(writes, piece, next) == [writes |-> writes, piece |-> piece, next |-> next]
Nothing(s) == Part(FALSE, <<>>, s)

\* The first call: what follows the empty line of the part's head, up to the
\* end boundary if it is there already.
FirstPart(b) ==
    LET pos == Find(b, <<"crlf", "crlf">>)
        end == Find(b, EndBoundary)
    IN  CASE pos = 0 -> Nothing("kExpectHeaders")
          [] pos > 0 /\ end > 0 ->
                Part(end > 1, SubSeq(b, pos + 2, end - 1), "kComplete")
          [] OTHER -> Part(pos + 1 < Len(b), Rest(b, pos + 1), "kExpectBoundary")

\* A later call, by the state the calls before it left.
NextPart(s, b) ==
    LET end == Find(b, EndBoundary)
        pos == Find(b, Boundary)
    IN  CASE b = <<>> -> Nothing(s)
          [] b # <<>> /\ s = "kExpectBoundary" ->
                IF end > 0 THEN Part(end > 1, SubSeq(b, 1, end - 1), "kComplete")
                ELSE IF pos = 0 THEN Part(TRUE, b, s)
                ELSE IF FindFrom(b, <<"crlf", "crlf">>, pos) = 0 THEN Nothing(s)
                ELSE Part(pos > 1, SubSeq(b, 1, pos - 1), "kExpectContent")
          [] b # <<>> /\ s = "kExpectContent" ->
                IF pos > 0 THEN Part(TRUE, SubSeq(b, 1, pos - 1), "kExpectBoundary")
                ELSE Part(TRUE, b, s)
          [] OTHER -> Nothing(s)

ThisPart == IF ctx = NoContext THEN FirstPart(body) ELSE NextPart(ctx.state, body)
Current == IF ctx = NoContext
           THEN Context(Len(disk) + 1, "kExpectHeaders", 0, FALSE) ELSE ctx
Files == IF ctx = NoContext THEN Append(disk, <<>>) ELSE disk

\* HttpContext::reset, and the context dropped when the connection goes.
reset ==
    /\ state' = "kExpectRequestLine"
    /\ length' = 0
    /\ received' = 0
    /\ body' = <<>>
    /\ ctx' = NoContext

\* A call leaves the context c and the body b.  onMessage resets both after
\* the call for a whole request, which always answers.
Leaves(c, b) ==
    IF result = "kGotRequest"
    THEN reset
    ELSE ctx' = c /\ body' = b /\ UNCHANGED <<state, length, received>>

\* validateSession fails; the body stays where it is.
Denied == ~session /\ Leaves(ctx, body) /\ UNCHANGED storeVars

\* The file cannot be opened: no context, and the body stays.
CannotOpen ==
    /\ session /\ sc.mayFail /\ ctx = NoContext
    /\ Leaves(ctx, body)
    /\ UNCHANGED storeVars

\* The first n tokens of the part get to the file.
Stores(n) ==
    disk' = [Files EXCEPT ![Current.file] = @ \o SubSeq(ThisPart.piece, 1, n)]

\* writeData throws because write() stored some of the part and not all of it,
\* or because the stream had failed before.  Nothing of it is counted, the
\* context stays in the state it had, and the body stays.
WriteThrows ==
    /\ session /\ ThisPart.writes
    /\ \/ Current.bad /\ Stores(0)
       \/ ~Current.bad /\ sc.mayFail /\ \E n \in 0 .. Len(ThisPart.piece) - 1 : Stores(n)
    /\ Leaves(Context(Current.file, Current.state, Current.total, TRUE), body)
    /\ UNCHANGED rows

\* The part is written and counted, and n tokens of it are stored.  writeData
\* looks at write() and not at flush(): what fails in the flush is counted too.
Written(n) ==
    /\ session
    /\ ThisPart.writes => ~Current.bad
    /\ Stores(n)

\* Mutant: an upload that awaits its boundary taken for a complete one.
MutComplete == ThisPart.next \in {"kExpectBoundary", "kComplete"} \/ state = "kGotAll"

Total == Current.total + Len(ThisPart.piece)
Failing(n) == Current.bad \/ n < Len(ThisPart.piece)
Complete == ThisPart.next = "kComplete" \/ state = "kGotAll"

\* Mutant: the body is not cleared after it was written.
MutKeepBody(n) ==
    /\ Written(n)
    /\ ~Complete
    /\ Leaves(Context(Current.file, ThisPart.next, Total, Failing(n)), body)
    /\ UNCHANGED rows

Waiting(n) ==
    /\ Written(n)
    /\ ~Complete
    /\ Leaves(Context(Current.file, ThisPart.next, Total, Failing(n)), <<>>)
    /\ UNCHANGED rows

\* The row is inserted (a failed INSERT is only logged), the context dropped.
Finished(n) ==
    /\ Written(n)
    /\ Complete
    /\ \E inserted \in Outcome :
          rows' = IF inserted
                  THEN Append(rows, [file |-> Current.file, size |-> Total])
                  ELSE rows
    /\ Leaves(NoContext, <<>>)

\* How much of a part that was written gets to the file.
Amounts == IF sc.mayFail THEN 0 .. Len(ThisPart.piece) ELSE {Len(ThisPart.piece)}

handleFileUpload(reply) ==
    \/ reply = 401 /\ Denied
    \/ reply = 500 /\ (CannotOpen \/ WriteThrows)
    \/ \E n \in Amounts : \/ reply = 200 /\ Finished(n)
                          \/ reply = 0 /\ Waiting(n)

----------------------------------------------------------------------------
(* HttpServer::onMessage, after parseRequest.                              *)

NothingToDo ==
    /\ phase = "dispatch"
    /\ result = "kHeadersComplete" => Len(body) < MinChunk
    /\ result # "kGotRequest"
    /\ phase' = "idle"
    /\ UNCHANGED <<at, parseVars, result, body, ctx, session, storeVars, replies, conn>>

\* Enough of the body is here: the handler is called, and whatever it answers
\* is dropped with the local HttpResponse.
ChunkCall ==
    /\ phase = "dispatch" /\ result = "kHeadersComplete"
    /\ Len(body) >= MinChunk
    /\ \E reply \in {0, 200, 401, 500} : handleFileUpload(reply)
    /\ phase' = "idle"
    /\ UNCHANGED <<at, buf, result, session, replies, conn>>

\* The whole request is here: HttpServer::onRequest calls the handler and
\* sends its answer; the write-complete callback then shuts the connection.
RequestCall ==
    /\ phase = "dispatch" /\ result = "kGotRequest"
    /\ \E reply \in {200, 401, 500} :
          /\ handleFileUpload(reply)
          /\ replies' = Append(replies, reply)
    /\ phase' = "idle"
    /\ conn' = "closed"
    /\ UNCHANGED <<at, buf, result, session>>

----------------------------------------------------------------------------
(* The peer, the network and the clock.                                    *)

\* A read brings the request up to one of the cuts.
Deliver ==
    /\ phase = "idle" /\ conn = "open"
    /\ \E n \in sc.cuts :
          /\ n > at
          /\ buf' = buf \o SubSeq(Request, at + 1, n)
          /\ at' = n
    /\ phase' = "parse"
    /\ UNCHANGED <<result, state, length, received, body, ctx, session, storeVars,
                   replies, conn>>

\* onConnection, for a connection that went down in the middle of an upload.
PeerCloses ==
    /\ phase = "idle" /\ conn = "open"
    /\ conn' = "closed"
    /\ reset
    /\ UNCHANGED <<at, buf, phase, result, session, storeVars, replies>>

SessionEnds ==
    /\ session
    /\ session' = FALSE
    /\ UNCHANGED <<at, parseVars, phase, result, body, ctx, storeVars, replies, conn>>

Init ==
    /\ sc \in Scenarios
    /\ at = 0 /\ buf = <<>>
    /\ phase = "idle" /\ result = "kNeedMore"
    /\ state = "kExpectRequestLine" /\ length = 0 /\ received = 0
    /\ body = <<>> /\ ctx = NoContext
    /\ session = TRUE
    /\ disk = <<>> /\ rows = <<>> /\ replies = <<>>
    /\ conn = "open"

OnMessage ==
    \/ ParseRequestLine \/ ProcessHeader \/ HeadersIncomplete \/ ProcessBody
    \/ NothingToDo \/ ChunkCall \/ RequestCall

Step == OnMessage \/ Deliver \/ PeerCloses \/ SessionEnds
Next == Step /\ UNCHANGED sc

\* The loop thread carries on with the callback it runs.
Spec == Init /\ [][Next]_vars /\ WF_vars(OnMessage /\ UNCHANGED sc)

----------------------------------------------------------------------------
(* Properties.                                                             *)

\* Types of the parser's, the handler's and the store's state.
TypeOK ==
    /\ sc \in Scenarios
    /\ at \in 0 .. Len(Request) /\ buf \in Seq(Token)
    /\ phase \in {"idle", "parse", "dispatch"}
    /\ result \in {"kNeedMore", "kHeadersComplete", "kGotRequest"}
    /\ state \in {"kExpectRequestLine", "kExpectHeaders", "kExpectBody", "kGotAll"}
    /\ length \in Nat /\ received \in 0 .. length /\ body \in Seq(Token)
    /\ ctx.file \in 0 .. Len(disk) /\ ctx.total \in Nat /\ ctx.bad \in BOOLEAN
    /\ session \in BOOLEAN /\ disk \in Seq(Seq(Token))
    /\ rows \in Seq([file : 1 .. Len(disk), size : Nat])
    /\ replies \in Seq({200, 401, 500}) /\ conn \in {"open", "closed"}

\* Nothing fails, and no read ends in the head of the request or the boundary.
Smooth == ~sc.mayFail /\ sc.cuts \subseteq CutContent

\* One upload makes one file and one row, and a reply of success has its row.
\* The row stands for the whole file: every token of it, in order, each once,
\* with the line end that precedes the boundary, and with its size, although
\* handleFileUpload inserts it on the call that ends the upload, over content
\* stored by the calls before.
RowIsWholeFile ==
    Smooth =>
    /\ Len(disk) <= 1 /\ Len(rows) <= 1
    /\ 200 \in {replies[i] : i \in 1 .. Len(replies)} => Len(rows) = 1
    /\ \A i \in 1 .. Len(rows) :
          /\ disk[rows[i].file] = Content \o <<"crlf">>
          /\ rows[i].size = Len(Content) + 1

Text == {Content[i] : i \in 1 .. Len(Content)}
Place(t) == CHOOSE i \in 1 .. Len(Content) : Content[i] = t

\* However the request is cut, and whichever writes fail, no call stores a
\* token a second time or after a later one, in the same file or in another:
\* a body that a failed call leaves in place for the next call is never written
\* twice, even if the failed call stored a part of it.  The size recorded in a
\* row is that of the file; where writes fail it may be more, by what a flush has
\* lost and writeData has counted, and never less, unless it is 0: an upload
\* whose first write throws is finished with nothing counted.
InOrder ==
    /\ TypeOK
    /\ \A f, g \in 1 .. Len(disk) : \A i \in 1 .. Len(disk[f]), j \in 1 .. Len(disk[g]) :
          /\ f < g \/ (f = g /\ i < j)
          /\ disk[f][i] \in Text /\ disk[g][j] \in Text
          => Place(disk[f][i]) < Place(disk[g][j])
    /\ \A i \in 1 .. Len(rows) :
          LET stored == Len(disk[rows[i].file])
          IN  \/ rows[i].size = stored
              \/ sc.mayFail /\ (rows[i].size > stored \/ rows[i].size = 0)

\* A request that has been read to its end is answered, and parseRequest returns
\* however the request is cut, with one exception: a read that ends between two
\* lines of the head keeps it in its loop (processHeaders returns true without
\* a line, and HttpContext.h's kNeedMore is not used).
Answered ==
    /\ (at = Len(Request)) ~> (replies # <<>>)
    /\ (phase = "parse") ~> (phase # "parse" \/ (state = "kExpectHeaders" /\ CRLF = 0))
=============================================================================
