--------------------------- MODULE MCHttpRequest ---------------------------
(* Model values for TLC: messages of at most four lines, of fifteen kinds.  *)
EXTENDS HttpRequest

Spellings == {"Content-Length", "content-length", "X-Client-ID", "Accept",
              "Transfer-Encoding"}

KeyOfSpelling == [f \in Spellings |-> CASE f = "X-Client-ID"       -> "x-client-id"
                                        [] f = "Accept"            -> "accept"
                                        [] f = "Transfer-Encoding" -> "transfer-encoding"
                                        [] OTHER                   -> "content-length"]

A(name, value, cr) == [kind |-> "field", name |-> name, value |-> value, cr |-> cr]
Bare(kind, cr)     == [kind |-> kind, name |-> "Accept", value |-> Word, cr |-> cr]

N(n)      == [number |-> n, junk |-> FALSE]   \* "1"
Behind(n) == [number |-> n, junk |-> TRUE]    \* "1 line", "0x10"

SomeLines ==
    {A("Content-Length", v, TRUE) : v \in {N(0), N(1), N(2), Behind(0), Behind(1), Word}} \cup
    {A("Content-Length", N(12), FALSE), A("content-length", N(1), TRUE),
     A("X-Client-ID", Word, TRUE), A("Accept", Word, TRUE),
     A("Transfer-Encoding", Chunked, TRUE)} \cup
    {Bare(kind, cr) : kind \in {"text", "blank"}, cr \in BOOLEAN}

UpTo(n) == UNION {[1..m -> SomeLines] : m \in 0..n}

Messages == [method : {"PUT"}, version : {10}, lines : UpTo(4)] \cup
            [method : {"PUT", "TRACE", "none"}, version : {11, 20}, lines : UpTo(2)]
=============================================================================
