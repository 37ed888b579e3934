---------------------------- MODULE HttpRequest ----------------------------
(***************************************************************************)
(* A message of a vehicle is the text of an HTTP request.  It is taken     *)
(* apart line by line (src/utilis/HttpParser.h) and put together again as  *)
(* the request for the application server (src/utilis/boostBeastClient.h). *)
(*                                                                         *)
(* Text is abstracted to its lines.  What the code tells apart of a line is*)
(* whether it contains ": " and whether it ends in a carriage return, and  *)
(* of a value whether it begins with a number, and whether anything stands *)
(* behind that number.  The line is also the unit in which a body is       *)
(* counted.                                                                *)
(***************************************************************************)
EXTENDS Naturals, Sequences

CONSTANTS
    Texts,      \* the messages: records with a method, a version and lines
    Fields,     \* names of header fields, as they are spelled
    Key,        \* what a spelling stands for: names are compared without case
    Verbs,      \* the methods Beast knows
    Word,       \* a value that begins with no number std::stoi takes for a length
    Chunked,    \* the value "chunked"
    Gateway,    \* a value the gateway supplies
    Pad         \* the '0's that stand where a body is too short

\* A value that begins with a number: "2", or with something behind it, as in
\* "2 lines" or "0x10", which begins with a 0.
Numeric == [number : Nat, junk : BOOLEAN]
Values  == Numeric \cup {Word, Chunked}
Lines  == [kind : {"field", "text", "blank"}, name : Fields, value : Values, cr : BOOLEAN]

ASSUME TextAssumption ==
    /\ Texts \subseteq [method : STRING, version : {10, 11, 20}, lines : Seq(Lines)]
    /\ Key \in [Fields -> STRING] /\ {"text", "blank"} \cap Fields = {}
    /\ {Word, Chunked} \cap Numeric = {}
    /\ "Content-Length" \in Fields /\ Key["Content-Length"] = "content-length"

VARIABLES
    text,       \* the message
    pos,        \* the line the stream is at
    mycount,    \* header lines so far
    headers,    \* the unordered_map: name -> value
    body,       \* the parsed body
    stage,      \* "headers", "length", "request", then "sent" or "error"
    request     \* the request that is sent

httpVars == <<text, pos, mycount, headers, body, stage, request>>

\* A name, with the '\r' it ends in when it is a whole line; a value, whole or
\* without its last character.
HeaderNames  == [text : Fields \cup {"text", "blank"}, cr : BOOLEAN]
HeaderValues == [text : Values \cup {Gateway}, whole : BOOLEAN]

KeyOf(name) == IF name.text \in Fields THEN Key[name.text] ELSE name.text

NoRequest == [version |-> 11, fields |-> <<>>, body |-> <<>>]

HttpInit ==
    /\ text \in Texts
    /\ pos = 1 /\ mycount = 0
    /\ headers = <<>>
    /\ body = <<>>
    /\ stage = "headers"
    /\ request = NoRequest

Line == text.lines[pos]
Reads(to) == stage = "headers" /\ stage' = to /\ UNCHANGED <<text, body, request>>

\* Everything up to ": " is the name.  A line without it is taken as a name
\* when it is the first one.
NameOf(line) == IF line.kind = "field" THEN [text |-> line.name, cr |-> FALSE]
                                       ELSE [text |-> line.kind, cr |-> line.cr]

\* The rest of the line but for its last character, which ought to be '\r'.
ValueOf(line) == IF line.kind = "field" THEN [text |-> line.value, whole |-> line.cr]
                                        ELSE [text |-> Word, whole |-> FALSE]

\* try_emplace keeps the first of two fields of one name.
AddHeader ==
    LET name == NameOf(Line)
    IN  /\ pos <= Len(text.lines)
        /\ Line.kind = "field" \/ (mycount = 0 /\ (Line.kind = "blank" => Line.cr))
        /\ Reads("headers")
        /\ pos' = pos + 1 /\ mycount' = mycount + 1
        /\ headers' = [n \in DOMAIN headers \cup {name} |->
                          IF n \in DOMAIN headers THEN headers[n] ELSE ValueOf(Line)]

\* An empty line, or one without ": " after the first, is taken off the
\* stream and ends the headers.
LastLine ==
    /\ pos <= Len(text.lines)
    /\ \/ Line.kind = "blank" /\ ~Line.cr
       \/ Line.kind # "field" /\ mycount > 0
    /\ Reads("length")
    /\ pos' = pos + 1
    /\ UNCHANGED <<mycount, headers>>

EndOfText ==
    /\ pos > Len(text.lines)
    /\ Reads("length")
    /\ UNCHANGED <<pos, mycount, headers>>

LengthName == [text |-> "Content-Length", cr |-> FALSE]

\* std::stoi reads the number a value begins with, and nothing behind it.  A
\* value that lost its last character lost a digit if there was no more to it.
LengthOf(value) ==
    IF value.whole \/ value.text.junk THEN value.text.number ELSE value.text.number \div 10

MutTake(n) == [i \in 1..n |-> IF pos + i <= Len(text.lines) THEN text.lines[pos + i] ELSE Pad]

\* n lines of the stream, or '0's where it has no more
Take(n) == [i \in 1..n |-> IF pos + i - 1 <= Len(text.lines)
                             THEN text.lines[pos + i - 1] ELSE Pad]

\* No Content-Length, spelled exactly so: no body.
ReadBody ==
    /\ stage = "length" /\ stage' = "request"
    /\ IF LengthName \in DOMAIN headers
         THEN /\ headers[LengthName].text \in Numeric
              /\ body' = Take(LengthOf(headers[LengthName]))
         ELSE UNCHANGED body
    /\ UNCHANGED <<text, pos, mycount, headers, request>>

\* The value begins with no number, maybe because its only digit was cut off,
\* or with one below zero: stoi, or the insert, throws.
BadLength ==
    /\ stage = "length" /\ stage' = "error"
    /\ LengthName \in DOMAIN headers
    /\ LET value == headers[LengthName]
       IN  value.text \in Numeric => ~value.whole /\ ~value.text.junk /\ value.text.number < 10
    /\ UNCHANGED <<text, pos, mycount, headers, body, request>>

\* Names or values with a line break in them are left out.
Valid == {name \in DOMAIN headers : ~name.cr}

\* Beast's fields after set() of the valid headers in the map's order, which is
\* no particular one: of two spellings of a name either may come last.
FieldsOf == {f \in [{KeyOf(n) : n \in Valid} -> {headers[n] : n \in Valid}] :
               \A k \in DOMAIN f : \E n \in Valid : KeyOf(n) = k /\ f[k] = headers[n]}

With(f, keys, value) == [k \in DOMAIN f \cup keys |-> IF k \in keys THEN value ELSE f[k]]

\* Set before it is connected, and Host once it is.
OwnFields == {"x-arrived-time", "x-client-id", "host"}
OwnValue  == [text |-> Gateway, whole |-> TRUE]

LengthValue  == [text |-> [number |-> Len(body), junk |-> FALSE], whole |-> TRUE]
ChunkedValue == [text |-> Chunked, whole |-> TRUE]

\* "chunked" is taken out of the transfer coding, and the field with it when
\* that is all it says.
WithoutChunked(f) ==
    [k \in {j \in DOMAIN f : ~(j = "transfer-encoding" /\ f[j] = ChunkedValue)} |-> f[k]]

MutPreparePayload(f) == f

\* A request with a body announces its length, and no chunks.
PreparePayload(f) ==
    IF body = <<>> THEN f ELSE WithoutChunked(With(f, {"content-length"}, LengthValue))

MutHeadersOverOwn(f) ==
    PreparePayload([k \in DOMAIN f \cup OwnFields |-> IF k \in DOMAIN f THEN f[k] ELSE OwnValue])

Finished(f) == PreparePayload(With(f, OwnFields, OwnValue))

MutVersionOf(version) == version

\* What is neither "HTTP/1.1" nor "HTTP/1.0" stays at Beast's default.
VersionOf(version) == IF version = 10 THEN 10 ELSE 11

Send ==
    /\ stage = "request" /\ stage' = "sent"
    /\ text.method \in Verbs /\ (text.method = "TRACE" => body = <<>>)
    /\ \E f \in FieldsOf :
         request' = [version |-> VersionOf(text.version),
                     fields  |-> Finished(f), body |-> body]
    /\ UNCHANGED <<text, pos, mycount, headers, body>>

\* Beast throws at an unknown method and at a TRACE with a body.
BadMethod ==
    /\ stage = "request" /\ stage' = "error"
    /\ text.method \notin Verbs \/ (text.method = "TRACE" /\ body # <<>>)
    /\ UNCHANGED <<text, pos, mycount, headers, body, request>>

HttpNext == \/ AddHeader
            \/ LastLine
            \/ EndOfText
            \/ ReadBody
            \/ BadLength
            \/ Send
            \/ BadMethod

HttpSpec == HttpInit /\ [][HttpNext]_httpVars
-----------------------------------------------------------------------------
(***************************************************************************)
(* Properties                                                              *)
(***************************************************************************)

\* The type invariant of the conversion.
HttpTypeOK ==
    /\ text \in Texts
    /\ pos \in Nat \ {0} /\ mycount \in Nat
    /\ DOMAIN headers \subseteq HeaderNames
    /\ \A n \in DOMAIN headers : headers[n] \in HeaderValues
    /\ body \in Seq(Lines \cup {Pad})
    /\ stage \in {"headers", "length", "request", "sent", "error"}
    /\ request.version \in {10, 11}
    /\ request.body \in Seq(Lines \cup {Pad})

\* The empty line at k ends the headers of an orderly request: fields of
\* different names before it, every line with its carriage return, and a body
\* of the announced length behind it.
EndsHeaders(k) ==
    /\ k \in 2..Len(text.lines)
    /\ text.lines[k].kind = "blank" /\ text.lines[k].cr
    /\ \A i \in 1..(k - 1) : text.lines[i].kind = "field" /\ text.lines[i].cr
    /\ \A i, j \in 1..(k - 1) : Key[text.lines[i].name] = Key[text.lines[j].name] => i = j

Announces(i, n) == /\ text.lines[i].name = "Content-Length"
                   /\ text.lines[i].value = [number |-> n, junk |-> FALSE]

\* Nor has it a transfer coding, which the parser does not know.
Orderly(k) ==
    /\ EndsHeaders(k)
    /\ \A i \in 1..(k - 1) : Key[text.lines[i].name] # "transfer-encoding"
    /\ \/ \E i \in 1..(k - 1) : Announces(i, Len(text.lines) - k)
       \/ /\ k = Len(text.lines)
          /\ \A i \in 1..(k - 1) : Key[text.lines[i].name] # "content-length"
    /\ text.method \in Verbs \ {"TRACE"}

\* An orderly request reaches the application server as it is: never "error",
\* with its whole body, all its fields but those the gateway sets, and no
\* others (HttpParser.h:64-87, boostBeastClient.h:56-72).
OrderlyArrives ==
    \A k \in 1..Len(text.lines) : Orderly(k) =>
        /\ stage # "error"
        /\ stage = "sent" =>
             /\ request.body = SubSeq(text.lines, k + 1, Len(text.lines))
             /\ DOMAIN request.fields
                  = OwnFields \cup {Key[text.lines[i].name] : i \in 1..(k - 1)}
             /\ \A i \in 1..(k - 1) : Key[text.lines[i].name] \notin OwnFields =>
                  request.fields[Key[text.lines[i].name]]
                    = [text |-> text.lines[i].value, whole |-> TRUE]

\* A request that is sent says who sends it as the gateway knows it, whatever
\* fields the message has, spelled however (boostBeastClient.h:64-65 and 93).
GatewayVouches ==
    stage = "sent" => \A k \in OwnFields : request.fields[k] = OwnValue

\* A request with a body announces the length of just that body and no chunks,
\* also when the message was shorter than it said, announced two lengths or
\* none, or wrote its length as "2 lines".  One without a body announces none,
\* or zero, if the lines of the message end in carriage returns, the name has
\* the one spelling the parser knows and nothing stands behind the number:
\* otherwise ("content-length: 1", "Content-Length: 0x10") the field goes out as
\* it came (HttpParser.h:83-87, boostBeastClient.h:67-71).
LengthIsTrue ==
    stage = "sent" =>
        /\ request.body # <<>> =>
             /\ "content-length" \in DOMAIN request.fields
             /\ request.fields["content-length"].whole
             /\ request.fields["content-length"].text
                  = [number |-> Len(request.body), junk |-> FALSE]
             /\ "transfer-encoding" \in DOMAIN request.fields
                  => request.fields["transfer-encoding"] # ChunkedValue
        /\ /\ request.body = <<>>
           /\ "content-length" \in DOMAIN request.fields
           /\ \A i \in 1..Len(text.lines) :
                 /\ text.lines[i].cr
                 /\ Key[text.lines[i].name] = "content-length" =>
                       /\ text.lines[i].name = "Content-Length"
                       /\ text.lines[i].value \in Numeric => ~text.lines[i].value.junk
           => /\ request.fields["content-length"].whole
              /\ request.fields["content-length"].text = [number |-> 0, junk |-> FALSE]
=============================================================================
