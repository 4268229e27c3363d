---------------------------- MODULE HttpDownload ----------------------------
(***************************************************************************)
(* The file manager answering requests on one connection: HttpServer's     *)
(* onMessage and onRequest, the handlers of http_upload.cc seen as what    *)
(* they send and which write-complete callback they install, and the       *)
(* chunk-by-chunk download driven by that callback.  The connection below  *)
(* is TcpConnection, whose user callbacks do exactly what is said here.    *)
(*                                                                         *)
(* A response header is one byte of the connection; a file is FileSize     *)
(* bytes and one readNextChunk takes at most ChunkSize of them.            *)
(***************************************************************************)
EXTENDS TcpConnection

CONSTANTS
    Shut,          \* the lambda that only calls connection->shutdown()
    ShutSelf,      \* the same of sendError and handleNotFound, capturing conn
    ChunkCbs,      \* the download lambdas, one for each FileDownContext
    NoContext,     \* no customContext_
    FileSize, ChunkSize,
    Requests,      \* the requests the peer may make
    MaxRequests    \* bound: requests on the connection

\* "bad": a request line that does not parse; "page": an ordinary response;
\* "error": sendError or handleNotFound; "head": a HEAD request; "get": a whole
\* download; "range": one with "Range: bytes=from-to", whose end is announced in
\* Content-Range and bounds nothing.
Request == [kind : {"bad", "page", "error", "head", "get", "range"},
            close : BOOLEAN, from : Nat]

ASSUME DownloadAssumption ==
    /\ Shut # ShutSelf /\ {Shut, ShutSelf} \cap ChunkCbs = {}
    /\ NoContext \notin ChunkCbs
    /\ IsFiniteSet(ChunkCbs) /\ Cardinality(ChunkCbs) >= MaxRequests
    /\ FileSize \in Nat /\ ChunkSize \in Nat \ {0} /\ MaxRequests \in Nat
    /\ Requests \subseteq Request

\* What the file manager is to TcpConnection: main() runs everything on one loop,
\* no other thread uses a connection, and the callbacks are the lambdas above.
FileManager ==
    /\ OneLoop /\ Threads = {}
    /\ Callbacks = {Shut, ShutSelf} \cup ChunkCbs
    /\ SelfCapturing = {ShutSelf}

VARIABLES
    app,        \* where onMessage or the callback is
    ctx,        \* HttpContext::customContext_
    pos,        \* FileDownContext::currentPosition_ of the open downloads
    complete,   \* FileDownContext::isComplete_
    asked,      \* history: the requests handled, in order
    label       \* history: the file position of each byte passed to send

appVars == <<app, ctx, pos, complete, asked, label>>
allVars == <<vars, appVars>>

\* The label of a response header.
Header == -1
req == asked[Len(asked)]

\* conn->send of the bytes ls: nothing unless kConnected.
Send(ls) ==
    \/ /\ state = "kConnected"
       /\ LoopSend(Len(ls))
       /\ label' = label \o ls
    \/ /\ state # "kConnected"
       /\ UNCHANGED <<vars, label>>

Shutdown == LoopShutdown \/ (state # "kConnected" /\ UNCHANGED vars)

Starts(callback) == InUser /\ app = "begin" /\ cur = callback

\* The function f and one more argument.
Extended(f, c, v) == [d \in DOMAIN f \cup {c} |-> IF d = c THEN v ELSE f[d]]

\* handleDownload past its checks: a new FileDownContext, positioned at the
\* first byte wanted, unless the HttpContext holds one already.
OpenDownload(from) ==
    LET new == ctx = NoContext
    IN  \E c \in IF new THEN ChunkCbs \ DOMAIN pos ELSE {ctx} :
           /\ ctx' = c
           /\ pos' = IF new THEN Extended(pos, c, from) ELSE pos
           /\ complete' = IF new THEN Extended(complete, c, FALSE) ELSE complete
           /\ SetWriteCompleteCallback(c)

\* onMessage up to the handler's return: what a handler leaves behind is the
\* write-complete callback and, for a download, the context.
HandleRequest(r) ==
    LET unsatisfiable == r.kind = "range" /\ r.from >= FileSize
    IN  /\ Starts("message")
        /\ (\E i \in 1 .. Len(asked) : asked[i].kind = "bad") => r.kind = "bad"
        /\ \/ r.kind = "bad" /\ UNCHANGED <<vars, ctx, pos, complete>>
           \/ /\ r.kind \in {"page", "head"}
              /\ SetWriteCompleteCallback(Shut)
              /\ UNCHANGED <<ctx, pos, complete>>
           \/ /\ r.kind = "error" \/ unsatisfiable
              /\ SetWriteCompleteCallback(ShutSelf)
              /\ UNCHANGED <<ctx, pos, complete>>
           \/ r.kind = "get" /\ OpenDownload(0)
           \/ r.kind = "range" /\ ~unsatisfiable /\ OpenDownload(r.from)
        /\ asked' = Append(asked, r)
        /\ app' = "respond"
        /\ UNCHANGED label

\* The response is sent; the connection is shut down when the request asked
\* for it, or could not be parsed.
Respond ==
    /\ InUser /\ app = "respond"
    /\ Send(<<Header>>)
    /\ app' = IF req.close \/ req.kind = "bad" THEN "close" ELSE "reset"
    /\ UNCHANGED <<ctx, pos, complete, asked>>

CloseConnection ==
    /\ InUser /\ app = "close"
    /\ Shutdown
    /\ app' = IF req.kind = "bad" THEN "return" ELSE "reset"
    /\ UNCHANGED <<ctx, pos, complete, asked, label>>

\* Mutant: the HttpContext is not reset.
MutNoReset ==
    /\ InUser /\ app = "reset"
    /\ CallbackReturns
    /\ app' = "begin"
    /\ UNCHANGED <<ctx, pos, complete, asked, label>>

\* context->reset() drops the download context; the callback keeps its own.
ResetContext ==
    /\ InUser /\ app = "reset"
    /\ ctx' = NoContext
    /\ CallbackReturns
    /\ app' = "begin"
    /\ UNCHANGED <<pos, complete, asked, label>>

\* The write-complete callback of an ordinary response.
ShutCallback ==
    /\ Starts(Shut) \/ Starts(ShutSelf)
    /\ Shutdown
    /\ app' = "return"
    /\ UNCHANGED <<ctx, pos, complete, asked, label>>

\* Mutant: the last byte of the file is left out.
MutChunkShort(c) ==
    IF complete[c] \/ FileSize - pos[c] < 2 THEN 0
    ELSE IF FileSize - pos[c] - 1 < ChunkSize THEN FileSize - pos[c] - 1
    ELSE ChunkSize

\* The bytes readNextChunk takes: none at the end of the file.
ChunkLen(c) ==
    IF complete[c] THEN 0
    ELSE IF FileSize - pos[c] < ChunkSize THEN FileSize - pos[c] ELSE ChunkSize

\* The write-complete callback of a download.
ChunkCallback(c) ==
    /\ Starts(c)
    /\ app' = "return"
    /\ \/ /\ ChunkLen(c) = 0
          /\ complete' = [complete EXCEPT ![c] = TRUE]
          /\ Shutdown
          /\ UNCHANGED <<pos, label>>
       \/ /\ ChunkLen(c) > 0
          /\ pos' = [pos EXCEPT ![c] = @ + ChunkLen(c)]
          /\ Send([i \in 1 .. ChunkLen(c) |-> pos[c] + i - 1])
          /\ UNCHANGED complete
    /\ UNCHANGED <<ctx, asked>>

Return ==
    /\ app = "return" \/ Starts("up")
    /\ CallbackReturns
    /\ app' = "begin"
    /\ UNCHANGED <<ctx, pos, complete, asked, label>>

----------------------------------------------------------------------------
\* The peer makes its next request when the last one has been read.
PeerRequests == Len(asked) < MaxRequests /\ cur # "message" /\ PeerSends

AppInit ==
    /\ Init
    /\ app = "begin" /\ ctx = NoContext
    /\ pos = <<>> /\ complete = <<>> /\ asked = <<>> /\ label = <<>>

AppStep ==
    \/ \E r \in Requests : HandleRequest(r)
    \/ Respond \/ CloseConnection \/ ResetContext
    \/ ShutCallback \/ (\E c \in ChunkCbs : ChunkCallback(c)) \/ Return

AppNext ==
    /\ abort = "no"
    /\ \/ AppStep
       \/ /\ \/ LoopStep \/ NewConnection
             \/ PeerReads \/ PeerRequests \/ PeerCloses \/ PeerResets
          /\ UNCHANGED appVars

AppSpec ==
    /\ AppInit /\ [][AppNext]_allVars
    /\ WF_allVars(abort = "no" /\ LoopStep /\ UNCHANGED appVars)
    /\ WF_allVars(abort = "no" /\ AppStep)
    /\ WF_allVars(abort = "no" /\ PeerReads /\ UNCHANGED appVars)

----------------------------------------------------------------------------
(* Properties.                                                             *)

AppTypeOK ==
    /\ app \in {"begin", "respond", "close", "reset", "return"}
    /\ ctx \in ChunkCbs \cup {NoContext}
    /\ DOMAIN pos \subseteq ChunkCbs /\ DOMAIN complete = DOMAIN pos
    /\ \A c \in DOMAIN pos : pos[c] \in 0 .. FileSize /\ complete[c] \in BOOLEAN
    /\ asked \in Seq(Requests)
    /\ label \in Seq(-1 .. FileSize - 1)

\* The file positions a download sends.
From(r) == IF r.kind = "range" THEN r.from ELSE 0
Body(from) == [i \in 1 .. (FileSize - from) |-> from + i - 1]
Download(r) == r.kind \in {"get", "range"} /\ From(r) < FileSize

Whole(r) == label = <<Header>> \o Body(From(r)) /\ wire = sent

\* The server closes its side of a connection that asked for one download, and
\* not for "Connection: close", only after the kernel has taken the header and
\* every byte to the end of the file, in order, whatever was accepted or
\* refused by each write.
DownloadComplete ==
    /\ AppTypeOK
    /\ Len(asked) = 1 /\ wrShut /\ peer # "reset" /\ Download(req) /\ ~req.close => Whole(req)

\* A request never meets the download context of an earlier one: onMessage has
\* reset the HttpContext, so handleDownload's test for an existing context only
\* ever finds none.
FreshContext == cur = "message" /\ app = "begin" => ctx = NoContext

\* A request is answered and the connection then closed by the server, unless
\* the peer resets it: the chain of write-complete callbacks never stops.
DownloadFinishes == Len(asked) > 0 ~> (wrShut \/ state = "kDisconnected")

\* A connection the peer has left is destroyed, and its descriptor with it,
\* unless the last reply was an error: the callback of sendError and of
\* handleNotFound holds the connection it is stored in.
Reclaimed ==
    peer # "open" ~> (state # "none" /\ (~Alive \/ wcc \in SelfCapturing))
=============================================================================
