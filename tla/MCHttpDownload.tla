--------------------------- MODULE MCHttpDownload ---------------------------
EXTENDS HttpDownload

ASSUME FileManagerAssumption == FileManager

Req(kind, close, from) == [kind |-> kind, close |-> close, from |-> from]

\* Requests of every kind, with and without "Connection: close"; the last range
\* begins behind the end of the file.
MixedRequests ==
    {Req(k, c, 0) : k \in {"bad", "page", "error", "head", "get"}, c \in BOOLEAN} \cup
    {Req("range", FALSE, f) : f \in {1, 3}}
=============================================================================
