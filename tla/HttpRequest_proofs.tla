------------------------- MODULE HttpRequest_proofs -------------------------
(***************************************************************************)
(* Proofs about the conversion of a message, for every message, however    *)
(* long: the loop over its lines has an invariant, so that no induction    *)
(* over the text is needed.                                                *)
(***************************************************************************)
EXTENDS HttpRequest, TLAPS

LEMMA TextFacts ==
  ASSUME text \in Texts
  PROVE  /\ text.lines \in Seq(Lines) /\ Len(text.lines) \in Nat
         /\ \A i \in 1..Len(text.lines) : text.lines[i] \in Lines
  BY TextAssumption

LEMMA LineFacts ==
  ASSUME NEW line \in Lines
  PROVE  NameOf(line) \in HeaderNames /\ ValueOf(line) \in HeaderValues
  BY DEF Lines, NameOf, ValueOf, HeaderNames, HeaderValues, Values

LEMMA TakeFacts ==
  ASSUME text \in Texts, pos \in Nat \ {0}, NEW n \in Nat
  PROVE  Take(n) \in Seq(Lines \cup {Pad}) /\ Len(Take(n)) = n
<1>1. \A i \in 1..n : pos + i - 1 <= Len(text.lines) => pos + i - 1 \in 1..Len(text.lines)
  BY TextFacts
<1>2. Take(n) \in [1..n -> Lines \cup {Pad}]
  BY <1>1, TextFacts DEF Take
<1> QED BY <1>2

LEMMA LengthFacts ==
  ASSUME NEW value \in HeaderValues, value.text \in Numeric
  PROVE  /\ LengthOf(value) \in Nat
         /\ value.whole => LengthOf(value) = value.text.number
<1>1. value.text.number \in Nat
  BY DEF Numeric
<1>2. value.text.number \div 10 \in Nat
  BY <1>1
<1> QED BY <1>1, <1>2 DEF LengthOf

LEMMA HttpTypeInit == HttpInit => HttpTypeOK
  BY DEF HttpInit, HttpTypeOK, NoRequest

LEMMA HttpTypeStep == HttpTypeOK /\ [HttpNext]_httpVars => HttpTypeOK'
<1> SUFFICES ASSUME HttpTypeOK, [HttpNext]_httpVars PROVE HttpTypeOK'
  OBVIOUS
<1> USE DEF HttpTypeOK
<1>1. CASE AddHeader
  <2>1. Line \in Lines
    BY <1>1, TextFacts DEF AddHeader, Line
  <2> QED BY <1>1, <2>1, LineFacts DEF AddHeader, Reads
<1>2. CASE LastLine
  BY <1>2 DEF LastLine, Reads
<1>3. CASE EndOfText
  BY <1>3 DEF EndOfText, Reads
<1>4. CASE ReadBody
  <2>1. CASE LengthName \in DOMAIN headers
    <3>1. headers[LengthName] \in HeaderValues /\ headers[LengthName].text \in Numeric
      BY <1>4, <2>1 DEF ReadBody
    <3>2. LengthOf(headers[LengthName]) \in Nat
      BY <3>1, LengthFacts
    <3>3. body' = Take(LengthOf(headers[LengthName]))
      BY <1>4, <2>1 DEF ReadBody
    <3>4. body' \in Seq(Lines \cup {Pad})
      BY <3>2, <3>3, TakeFacts
    <3> QED BY <1>4, <3>4 DEF ReadBody
  <2>2. CASE LengthName \notin DOMAIN headers
    BY <1>4, <2>2 DEF ReadBody
  <2> QED BY <2>1, <2>2
<1>5. CASE BadLength
  BY <1>5 DEF BadLength
<1>6. CASE Send
  BY <1>6 DEF Send, VersionOf
<1>7. CASE BadMethod
  BY <1>7 DEF BadMethod
<1>8. CASE UNCHANGED httpVars
  BY <1>8 DEF httpVars
<1> QED BY <1>1, <1>2, <1>3, <1>4, <1>5, <1>6, <1>7, <1>8 DEF HttpNext

\* HttpTypeOK holds of every message (HttpParser.h:52-91).
THEOREM HttpTypeCorrect == HttpSpec => []HttpTypeOK
  BY HttpTypeInit, HttpTypeStep, PTL DEF HttpSpec
-----------------------------------------------------------------------------
\* What prepare_payload makes of the fields of a request with a body
LEMMA PayloadFacts ==
  ASSUME NEW f, body # <<>>
  PROVE  /\ DOMAIN PreparePayload(f) \subseteq DOMAIN f \cup {"content-length"}
         /\ (DOMAIN f \cup {"content-length"}) \ {"transfer-encoding"} \subseteq DOMAIN PreparePayload(f)
         /\ PreparePayload(f)["content-length"] = LengthValue
         /\ "transfer-encoding" \in DOMAIN PreparePayload(f)
              => PreparePayload(f)["transfer-encoding"] # ChunkedValue
         /\ \A k \in DOMAIN PreparePayload(f) \ {"content-length"} : PreparePayload(f)[k] = f[k]
<1> DEFINE g == With(f, {"content-length"}, LengthValue)
<1>1. /\ DOMAIN g = DOMAIN f \cup {"content-length"} /\ g["content-length"] = LengthValue
      /\ \A k \in DOMAIN g \ {"content-length"} : g[k] = f[k]
  BY DEF With
<1>2. PreparePayload(f) = WithoutChunked(g)
  BY DEF PreparePayload
<1> HIDE DEF g
<1> QED BY <1>1, <1>2 DEF WithoutChunked

\* What Send puts into a request, apart from the fields the gateway sets
LEMMA SendFacts ==
  ASSUME HttpTypeOK, Send
  PROVE  /\ request'.body = body
         /\ \A k \in OwnFields : k \in DOMAIN request'.fields /\ request'.fields[k] = OwnValue
         /\ body # <<>> =>
              /\ "content-length" \in DOMAIN request'.fields
              /\ request'.fields["content-length"] = LengthValue
              /\ "transfer-encoding" \in DOMAIN request'.fields
                   => request'.fields["transfer-encoding"] # ChunkedValue
         /\ DOMAIN request'.fields
              \subseteq {KeyOf(n) : n \in Valid} \cup OwnFields
                          \cup (IF body = <<>> THEN {} ELSE {"content-length"})
         /\ {KeyOf(n) : n \in Valid} \ {"transfer-encoding"} \subseteq DOMAIN request'.fields
         /\ \A k \in DOMAIN request'.fields \ OwnFields :
              \/ body # <<>> /\ k = "content-length"
              \/ \E n \in Valid : KeyOf(n) = k /\ request'.fields[k] = headers[n]
<1>1. PICK f \in FieldsOf : request'.fields = Finished(f) /\ request'.body = body
  BY DEF Send
<1>2. /\ DOMAIN f = {KeyOf(n) : n \in Valid}
      /\ \A k \in DOMAIN f : \E n \in Valid : KeyOf(n) = k /\ f[k] = headers[n]
  BY DEF FieldsOf
<1>3. "content-length" \notin OwnFields /\ "transfer-encoding" \notin OwnFields
  BY DEF OwnFields
<1> DEFINE g == With(f, OwnFields, OwnValue)
<1>4. /\ DOMAIN g = DOMAIN f \cup OwnFields /\ \A k \in OwnFields : g[k] = OwnValue
      /\ \A k \in DOMAIN g \ OwnFields : g[k] = f[k]
  BY DEF With
<1>5. request'.fields = PreparePayload(g)
  BY <1>1 DEF Finished
<1> HIDE DEF g
<1>6. CASE body = <<>>
  <2>1. request'.fields = g
    BY <1>5, <1>6 DEF PreparePayload
  <2> QED BY <1>1, <1>2, <1>3, <1>4, <1>6, <2>1
<1>7. CASE body # <<>>
  <2>1. /\ DOMAIN request'.fields \subseteq DOMAIN g \cup {"content-length"}
        /\ (DOMAIN g \cup {"content-length"}) \ {"transfer-encoding"} \subseteq DOMAIN request'.fields
        /\ request'.fields["content-length"] = LengthValue
        /\ "transfer-encoding" \in DOMAIN request'.fields
             => request'.fields["transfer-encoding"] # ChunkedValue
        /\ \A k \in DOMAIN request'.fields \ {"content-length"} : request'.fields[k] = g[k]
    BY <1>5, <1>7, PayloadFacts
  <2> QED BY <1>1, <1>2, <1>3, <1>4, <1>7, <2>1
<1> QED BY <1>6, <1>7

\* Once a request is sent nothing happens, and before it Send is all there is.
LEMMA SentOnce ==
  ASSUME [HttpNext]_httpVars, stage' = "sent"
  PROVE  Send \/ UNCHANGED httpVars
  BY DEF HttpNext, AddHeader, LastLine, EndOfText, ReadBody, BadLength, BadMethod, Reads

LEMMA VouchStep == HttpTypeOK /\ GatewayVouches /\ [HttpNext]_httpVars => GatewayVouches'
<1> SUFFICES ASSUME HttpTypeOK, GatewayVouches, [HttpNext]_httpVars, stage' = "sent"
             PROVE  \A k \in OwnFields : request'.fields[k] = OwnValue
  BY DEF GatewayVouches, OwnValue, OwnFields
<1>1. CASE Send
  BY <1>1, SendFacts
<1>2. CASE UNCHANGED httpVars
  BY <1>2 DEF httpVars, GatewayVouches
<1> QED BY <1>1, <1>2, SentOnce

\* GatewayVouches: no field of a message takes the place of the gateway's own,
\* whatever the message (boostBeastClient.h:64-65 and 93).
THEOREM SenderIsVouchedFor == HttpSpec => []GatewayVouches
<1>1. HttpInit => GatewayVouches
  BY DEF HttpInit, GatewayVouches
<1> QED BY <1>1, HttpTypeInit, HttpTypeStep, VouchStep, PTL DEF HttpSpec
-----------------------------------------------------------------------------
(***************************************************************************)
(* The announced length.  Every header stands in some line of the message, *)
(* and the body has been cut to the length in the one called               *)
(* "Content-Length".                                                       *)
(***************************************************************************)
StandsIn(n, i) == n = NameOf(text.lines[i]) /\ headers[n] = ValueOf(text.lines[i])

LengthInv ==
    /\ \A n \in DOMAIN headers : \E i \in 1..Len(text.lines) : StandsIn(n, i)
    /\ stage = "request" /\ LengthName \in DOMAIN headers
         => /\ headers[LengthName].text \in Numeric
            /\ headers[LengthName].whole => headers[LengthName].text.number = Len(body)

LEMMA LengthInit == HttpInit => LengthInv /\ LengthIsTrue
  BY DEF HttpInit, LengthInv, LengthIsTrue

LEMMA LengthInvStep == HttpTypeOK /\ LengthInv /\ [HttpNext]_httpVars => LengthInv'
<1> SUFFICES ASSUME HttpTypeOK, LengthInv, [HttpNext]_httpVars PROVE LengthInv'
  OBVIOUS
<1>1. CASE AddHeader
  <2>1. pos \in 1..Len(text.lines)
    BY <1>1, TextFacts DEF AddHeader, HttpTypeOK
  <2>2. /\ stage' = "headers" /\ text' = text
        /\ headers' = [n \in DOMAIN headers \cup {NameOf(Line)} |->
                         IF n \in DOMAIN headers THEN headers[n] ELSE ValueOf(Line)]
    BY <1>1 DEF AddHeader, Reads
  <2> QED BY <2>1, <2>2 DEF LengthInv, StandsIn, Line
<1>2. CASE LastLine \/ EndOfText \/ BadLength \/ BadMethod \/ Send
  BY <1>2 DEF LastLine, EndOfText, BadLength, BadMethod, Send, Reads, LengthInv, StandsIn
<1>3. CASE ReadBody
  <2>1. UNCHANGED <<text, headers>>
    BY <1>3 DEF ReadBody
  <2>2. ASSUME LengthName \in DOMAIN headers
        PROVE  /\ headers[LengthName].text \in Numeric
               /\ headers[LengthName].whole => headers[LengthName].text.number = Len(body')
    <3>1. headers[LengthName].text \in Numeric /\ body' = Take(LengthOf(headers[LengthName]))
      BY <1>3, <2>2 DEF ReadBody
    <3>2. /\ LengthOf(headers[LengthName]) \in Nat
          /\ headers[LengthName].whole
               => LengthOf(headers[LengthName]) = headers[LengthName].text.number
      BY <2>2, <3>1, LengthFacts DEF HttpTypeOK
    <3> QED BY <3>1, <3>2, TakeFacts DEF HttpTypeOK
  <2> QED BY <2>1, <2>2 DEF LengthInv, StandsIn
<1>4. CASE UNCHANGED httpVars
  BY <1>4 DEF httpVars, LengthInv, StandsIn
<1> QED BY <1>1, <1>2, <1>3, <1>4 DEF HttpNext

LEMMA LengthStep ==
  HttpTypeOK /\ LengthInv /\ LengthIsTrue /\ [HttpNext]_httpVars => LengthIsTrue'
<1> SUFFICES ASSUME HttpTypeOK, LengthInv, LengthIsTrue, [HttpNext]_httpVars, stage' = "sent"
             PROVE  LengthIsTrue'
  BY DEF LengthIsTrue
<1>1. CASE Send
  <2>0. text' = text /\ stage = "request"
    BY <1>1 DEF Send
  <2>1. CASE body # <<>>
    <3>1. request'.body = body /\ request'.body # <<>>
      BY <1>1, <2>1, SendFacts
    <3>2. /\ "content-length" \in DOMAIN request'.fields
          /\ request'.fields["content-length"].whole
          /\ request'.fields["content-length"].text = [number |-> Len(body), junk |-> FALSE]
      <4>1. /\ "content-length" \in DOMAIN request'.fields
            /\ request'.fields["content-length"] = LengthValue
        BY <1>1, <2>1, SendFacts
      <4>2. LengthValue.whole = TRUE /\ LengthValue.text = [number |-> Len(body), junk |-> FALSE]
        BY DEF LengthValue
      <4> QED BY <4>1, <4>2
    <3>3. "transfer-encoding" \in DOMAIN request'.fields
            => request'.fields["transfer-encoding"] # ChunkedValue
      BY <1>1, <2>1, SendFacts
    <3>4. ChunkedValue' = ChunkedValue
      BY DEF ChunkedValue
    <3> QED BY <3>1, <3>2, <3>3, <3>4 DEF LengthIsTrue
  <2>2. CASE body = <<>>
    <3> SUFFICES ASSUME "content-length" \in DOMAIN request'.fields,
                        \A i \in 1..Len(text.lines) :
                          /\ text.lines[i].cr
                          /\ Key[text.lines[i].name] = "content-length" =>
                                /\ text.lines[i].name = "Content-Length"
                                /\ text.lines[i].value \in Numeric => ~text.lines[i].value.junk
                 PROVE  /\ request'.fields["content-length"].whole
                        /\ request'.fields["content-length"].text = [number |-> 0, junk |-> FALSE]
      BY <1>1, <2>0, <2>2, SendFacts DEF LengthIsTrue
    <3>1. PICK n \in Valid :
             KeyOf(n) = "content-length" /\ request'.fields["content-length"] = headers[n]
      BY <1>1, <2>2, SendFacts DEF OwnFields
    <3>2. n \in DOMAIN headers /\ ~n.cr
      BY <3>1 DEF Valid
    <3>3. PICK i \in 1..Len(text.lines) : StandsIn(n, i)
      BY <3>2 DEF LengthInv
    <3>4. text.lines[i] \in Lines /\ text.lines[i].cr
      BY <3>3, TextFacts DEF HttpTypeOK
    <3>5. text.lines[i].kind = "field" /\ text.lines[i].name = "Content-Length"
      <4>1. CASE text.lines[i].kind = "field"
        BY <3>1, <3>3, <3>4, <4>1 DEF StandsIn, NameOf, KeyOf, Lines
      <4>2. CASE text.lines[i].kind # "field"
        BY <3>2, <3>3, <3>4, <4>2 DEF StandsIn, NameOf
      <4> QED BY <4>1, <4>2
    <3>6. n = LengthName /\ headers[n] = [text |-> text.lines[i].value, whole |-> TRUE]
      BY <3>3, <3>4, <3>5 DEF StandsIn, NameOf, ValueOf, LengthName
    <3>7. headers[n].text \in Numeric /\ headers[n].text.number = Len(body)
      BY <2>0, <3>2, <3>6 DEF LengthInv
    <3>8. ~text.lines[i].value.junk
      BY <3>5, <3>6, <3>7, TextAssumption
    <3>9. headers[n].text = [number |-> 0, junk |-> FALSE]
      <4>1. Len(body) = 0
        BY <2>2
      <4>2. headers[n].text = text.lines[i].value
        BY <3>6
      <4>3. headers[n].text.number = 0 /\ headers[n].text.junk = FALSE
        BY <3>7, <3>8, <4>1, <4>2 DEF Numeric
      <4> QED BY <3>7, <4>3 DEF Numeric
    <3> QED BY <3>1, <3>6, <3>9
  <2> QED BY <2>1, <2>2
<1>2. CASE UNCHANGED httpVars
  BY <1>2 DEF httpVars, LengthIsTrue
<1> QED BY <1>1, <1>2, SentOnce

\* LengthIsTrue: every body is announced with its length, whatever the message
\* says of it, and no body where the parser reads the length as the application
\* server does (HttpParser.h:83-87, boostBeastClient.h:67-71).
THEOREM AnnouncedIsSent == HttpSpec => []LengthIsTrue
  BY HttpTypeInit, HttpTypeStep, LengthInit, LengthInvStep, LengthStep, PTL DEF HttpSpec
-----------------------------------------------------------------------------
(***************************************************************************)
(* Orderly requests.  Until the empty line at k the headers are the fields *)
(* read so far, neither more nor less; from there on they are all of them, *)
(* and the stream is behind it.                                            *)
(***************************************************************************)
FieldName(i)  == [text |-> text.lines[i].name, cr |-> FALSE]
FieldValue(i) == [text |-> text.lines[i].value, whole |-> TRUE]

Collected(m) ==
    /\ \A n \in DOMAIN headers : \E i \in 1..m : n = FieldName(i)
    /\ \A i \in 1..m : FieldName(i) \in DOMAIN headers
    /\ \A i \in 1..m : headers[FieldName(i)] = FieldValue(i)

Reading(k) ==
    /\ stage # "error"
    /\ stage = "headers" => pos <= k /\ mycount = pos - 1 /\ Collected(pos - 1)
    /\ stage # "headers" => Collected(k - 1)
    /\ stage = "length" => pos = k + 1
    /\ stage \in {"headers", "length"} => body = <<>>
    /\ stage = "request" => body = SubSeq(text.lines, k + 1, Len(text.lines))

OrderlyInv == \A k \in 1..Len(text.lines) : Orderly(k) => Reading(k)

LEMMA OrderlyFacts ==
  ASSUME text \in Texts, NEW k \in 1..Len(text.lines), Orderly(k)
  PROVE  /\ k \in Nat /\ k >= 2 /\ Len(text.lines) \in Nat
         /\ text.lines[k].kind = "blank"
         /\ \A i \in 1..(k - 1) : /\ text.lines[i] \in Lines
                                  /\ text.lines[i].kind = "field" /\ text.lines[i].cr
                                  /\ NameOf(text.lines[i]) = FieldName(i)
                                  /\ ValueOf(text.lines[i]) = FieldValue(i)
                                  /\ text.lines[i].name \in Fields
         /\ \A i, j \in 1..(k - 1) : Key[text.lines[i].name] = Key[text.lines[j].name] => i = j
         /\ \A i \in 1..(k - 1) : Key[text.lines[i].name] # "transfer-encoding"
         /\ text.method \in Verbs \ {"TRACE"}
<1>1. k \in Nat /\ k >= 2 /\ Len(text.lines) \in Nat /\ text.lines[k].kind = "blank"
  BY TextFacts DEF Orderly, EndsHeaders
<1>2. \A i \in 1..(k - 1) : text.lines[i] \in Lines
  BY <1>1, TextFacts
<1>3. ASSUME NEW i \in 1..(k - 1)
      PROVE  /\ text.lines[i].kind = "field" /\ text.lines[i].cr
             /\ NameOf(text.lines[i]) = FieldName(i)
             /\ ValueOf(text.lines[i]) = FieldValue(i)
             /\ text.lines[i].name \in Fields
  <2>1. text.lines[i].kind = "field" /\ text.lines[i].cr
    BY <1>3 DEF Orderly, EndsHeaders
  <2>2. text.lines[i].cr \in BOOLEAN /\ text.lines[i].name \in Fields
    BY <1>2 DEF Lines
  <2> QED BY <2>1, <2>2 DEF NameOf, ValueOf, FieldName, FieldValue
<1> QED BY <1>1, <1>2, <1>3 DEF Orderly, EndsHeaders

\* The body that an orderly request is read with, if it has a length or not
LEMMA OrderlyBody ==
  ASSUME HttpTypeOK, NEW k \in 1..Len(text.lines), Orderly(k), Reading(k), stage = "length"
  PROVE  /\ ReadBody => body' = SubSeq(text.lines, k + 1, Len(text.lines))
         /\ ~BadLength
<1>0. /\ text \in Texts /\ pos = k + 1 /\ body = <<>> /\ Collected(k - 1)
      /\ pos \in Nat \ {0} /\ text.lines \in Seq(Lines)
  BY TextFacts DEF HttpTypeOK, Reading
<1>1. CASE \E i \in 1..(k - 1) : Announces(i, Len(text.lines) - k)
  <2>1. PICK i \in 1..(k - 1) : Announces(i, Len(text.lines) - k)
    BY <1>1
  <2> DEFINE n == Len(text.lines) - k
  <2>2. n \in Nat
    BY <1>0, OrderlyFacts
  <2> DEFINE value == [text |-> [number |-> n, junk |-> FALSE], whole |-> TRUE]
  <2>3. LengthName = FieldName(i) /\ FieldValue(i) = value
    BY <2>1 DEF Announces, LengthName, FieldName, FieldValue
  <2>4. LengthName \in DOMAIN headers /\ headers[LengthName] = value
    BY <1>0, <2>3 DEF Collected
  <2>5. LengthOf(headers[LengthName]) = n /\ headers[LengthName].text \in Numeric
    BY <2>2, <2>4 DEF LengthOf, Numeric
  <2>6. ~BadLength
    BY <2>4, <2>5 DEF BadLength
  <2>7. Take(n) = SubSeq(text.lines, k + 1, Len(text.lines))
    <3>1. \A m \in 1..n : /\ pos + m - 1 <= Len(text.lines)
                          /\ pos + m - 1 = (k + 1) + m - 1
      BY <1>0, <2>2, OrderlyFacts
    <3>2. Take(n) = [m \in 1..n |-> text.lines[(k + 1) + m - 1]]
      BY <3>1 DEF Take
    <3>3. Len(text.lines) - (k + 1) + 1 = n
      BY <1>0, OrderlyFacts
    <3>4. SubSeq(text.lines, k + 1, Len(text.lines))
            = [m \in 1..(Len(text.lines) - (k + 1) + 1) |-> text.lines[(k + 1) + m - 1]]
      BY <1>0, OrderlyFacts
    <3> QED BY <3>2, <3>3, <3>4
  <2> QED BY <2>4, <2>5, <2>6, <2>7 DEF ReadBody
<1>2. CASE /\ k = Len(text.lines)
           /\ \A i \in 1..(k - 1) : Key[text.lines[i].name] # "content-length"
  <2>1. LengthName \notin DOMAIN headers
    BY <1>0, <1>2, TextAssumption DEF Collected, LengthName, FieldName
  <2>2. SubSeq(text.lines, k + 1, Len(text.lines)) = <<>>
    BY <1>0, <1>2, OrderlyFacts
  <2> QED BY <1>0, <2>1, <2>2 DEF ReadBody, BadLength
<1> QED BY <1>1, <1>2 DEF Orderly

LEMMA OrderlyInit == HttpInit => OrderlyInv /\ OrderlyArrives
<1> SUFFICES ASSUME HttpInit PROVE OrderlyInv /\ OrderlyArrives
  OBVIOUS
<1>1. stage = "headers" /\ pos = 1 /\ mycount = 0 /\ headers = <<>> /\ body = <<>>
  BY DEF HttpInit
<1>2. \A k \in 1..Len(text.lines) : k \in Nat /\ k >= 1
  BY TextFacts DEF HttpInit
<1>3. DOMAIN headers = {} /\ pos - 1 = 0
  BY <1>1
<1> QED BY <1>1, <1>2, <1>3 DEF OrderlyInv, Reading, Collected, OrderlyArrives

LEMMA OrderlyInvStep == HttpTypeOK /\ OrderlyInv /\ [HttpNext]_httpVars => OrderlyInv'
<1> SUFFICES ASSUME HttpTypeOK, OrderlyInv, [HttpNext]_httpVars PROVE OrderlyInv'
  OBVIOUS
<1>0. text' = text
  BY DEF HttpNext, httpVars, AddHeader, LastLine, EndOfText, ReadBody, BadLength, Send,
         BadMethod, Reads
<1> SUFFICES ASSUME NEW k \in 1..Len(text.lines), Orderly(k), Reading(k) PROVE Reading(k)'
  BY <1>0 DEF OrderlyInv, Orderly, EndsHeaders, Announces
<1>a. /\ text \in Texts /\ pos \in Nat \ {0}
      /\ \A m : (\A n \in DOMAIN headers' : n \in DOMAIN headers /\ headers'[n] = headers[n])
                  /\ DOMAIN headers' = DOMAIN headers /\ Collected(m) => Collected(m)'
  BY <1>0 DEF HttpTypeOK, Collected, FieldName, FieldValue
<1>1. CASE AddHeader
  <2>1. /\ stage = "headers" /\ stage' = "headers" /\ pos <= k /\ mycount = pos - 1
        /\ Collected(pos - 1) /\ body' = body /\ body = <<>>
        /\ pos' = pos + 1 /\ mycount' = mycount + 1
    BY <1>1 DEF AddHeader, Reads, Reading
  <2>2. pos # k
    BY <1>a, <1>1, <2>1, OrderlyFacts DEF AddHeader, Line
  <2>3. pos \in 1..(k - 1) /\ pos' <= k /\ mycount' = pos' - 1 /\ pos' - 1 = pos
    BY <1>a, <2>1, <2>2, OrderlyFacts
  <2>4. FieldName(pos) \notin DOMAIN headers
    <3>1. ASSUME NEW i \in 1..(pos - 1), FieldName(pos) = FieldName(i) PROVE FALSE
      <4>1. i \in 1..(k - 1) /\ i # pos
        BY <1>a, <2>3
      <4>2. text.lines[i].name = text.lines[pos].name
        BY <3>1 DEF FieldName
      <4> QED BY <1>a, <2>3, <4>1, <4>2, OrderlyFacts
    <3> QED BY <2>1, <3>1 DEF Collected
  <2>5. headers' = [n \in DOMAIN headers \cup {FieldName(pos)} |->
                      IF n \in DOMAIN headers THEN headers[n] ELSE FieldValue(pos)]
    BY <1>a, <1>1, <2>3, OrderlyFacts DEF AddHeader, Line
  <2>6. Collected(pos - 1)'
    <3>1. \A i \in 1..pos : i \in 1..(pos - 1) \/ i = pos
      BY <1>a
    <3>2. \A i \in 1..(pos - 1) : i \in 1..pos
      BY <1>a
    <3>3. pos \in 1..pos
      BY <1>a
    <3>4. \A i : FieldName(i)' = FieldName(i) /\ FieldValue(i)' = FieldValue(i)
      BY <1>0 DEF FieldName, FieldValue
    <3>5. DOMAIN headers' = DOMAIN headers \cup {FieldName(pos)}
      BY <2>5
    <3>6. \A n \in DOMAIN headers' : \E i \in 1..pos : n = FieldName(i)
      BY <2>1, <3>2, <3>3, <3>5 DEF Collected
    <3>7. ASSUME NEW i \in 1..pos
          PROVE  FieldName(i) \in DOMAIN headers' /\ headers'[FieldName(i)] = FieldValue(i)
      BY <2>1, <2>4, <2>5, <3>1 DEF Collected
    <3> QED BY <2>3, <3>4, <3>6, <3>7 DEF Collected
  <2> QED BY <2>1, <2>3, <2>6 DEF Reading
<1>2. CASE LastLine
  <2>1. /\ stage = "headers" /\ stage' = "length" /\ pos <= k
        /\ Collected(pos - 1) /\ body' = body /\ body = <<>> /\ headers' = headers
        /\ pos' = pos + 1 /\ text.lines[pos].kind # "field"
    BY <1>2 DEF LastLine, Reads, Reading, Line
  <2>2. pos = k
    BY <1>a, <2>1, OrderlyFacts
  <2> QED BY <1>a, <2>1, <2>2 DEF Reading
<1>3. CASE EndOfText
  BY <1>a, <1>3, OrderlyFacts DEF EndOfText, Reads, Reading
<1>4. CASE ReadBody
  <2>1. stage = "length" /\ stage' = "request" /\ headers' = headers
    BY <1>4 DEF ReadBody
  <2> QED BY <1>0, <1>a, <1>4, <2>1, OrderlyBody DEF Reading
<1>5. CASE BadLength
  BY <1>5, OrderlyBody DEF BadLength
<1>6. CASE Send
  BY <1>a, <1>6 DEF Send, Reading
<1>7. CASE BadMethod
  BY <1>a, <1>7, OrderlyFacts DEF BadMethod
<1>8. CASE UNCHANGED httpVars
  BY <1>8 DEF httpVars, Reading, Collected, FieldName, FieldValue
<1> QED BY <1>1, <1>2, <1>3, <1>4, <1>5, <1>6, <1>7, <1>8 DEF HttpNext

\* What becomes of an orderly request when it is sent
LEMMA OrderlySent ==
  ASSUME HttpTypeOK, Send, NEW k \in 1..Len(text.lines), Orderly(k), Reading(k)
  PROVE  /\ request'.body = SubSeq(text.lines, k + 1, Len(text.lines))
         /\ DOMAIN request'.fields
              = OwnFields \cup {Key[text.lines[i].name] : i \in 1..(k - 1)}
         /\ \A i \in 1..(k - 1) : Key[text.lines[i].name] \notin OwnFields =>
              request'.fields[Key[text.lines[i].name]] = FieldValue(i)
<1>0. /\ text \in Texts /\ stage = "request" /\ Collected(k - 1)
      /\ body = SubSeq(text.lines, k + 1, Len(text.lines))
  BY DEF HttpTypeOK, Send, Reading
<1>1. Valid = {FieldName(i) : i \in 1..(k - 1)}
  BY <1>0 DEF Valid, Collected, FieldName
<1>2. \A i \in 1..(k - 1) : KeyOf(FieldName(i)) = Key[text.lines[i].name]
  BY <1>0, OrderlyFacts DEF KeyOf, FieldName
<1>3. ASSUME body # <<>>
      PROVE  \E i \in 1..(k - 1) : /\ Key[text.lines[i].name] = "content-length"
                                   /\ FieldValue(i) = LengthValue
  <2>1. text.lines \in Seq(Lines) /\ k \in Nat /\ Len(text.lines) \in Nat /\ k <= Len(text.lines)
    BY <1>0, TextFacts, OrderlyFacts
  <2>2. k # Len(text.lines)
    BY <1>0, <1>3, <2>1
  <2>3. PICK i \in 1..(k - 1) : Announces(i, Len(text.lines) - k)
    BY <2>2 DEF Orderly
  <2>4. Len(body) = Len(text.lines) - k
    BY <1>0, <2>1
  <2> QED BY <2>3, <2>4, TextAssumption DEF Announces, FieldValue, LengthValue
<1>4. DOMAIN request'.fields = OwnFields \cup {Key[text.lines[i].name] : i \in 1..(k - 1)}
  <2>1. {KeyOf(n) : n \in Valid} = {Key[text.lines[i].name] : i \in 1..(k - 1)}
    BY <1>1, <1>2
  <2>2. "transfer-encoding" \notin {KeyOf(n) : n \in Valid}
    BY <1>0, <2>1, OrderlyFacts
  <2> DEFINE keys == {Key[text.lines[i].name] : i \in 1..(k - 1)}
  <2>3. body # <<>> => "content-length" \in keys
    BY <1>3
  <2>4. DOMAIN request'.fields \subseteq OwnFields \cup keys
    BY <2>1, <2>3, SendFacts
  <2>5. keys \subseteq DOMAIN request'.fields
    BY <2>1, <2>2, SendFacts
  <2>6. OwnFields \subseteq DOMAIN request'.fields
    BY SendFacts
  <2> QED BY <2>4, <2>5, <2>6
<1>5. ASSUME NEW i \in 1..(k - 1), Key[text.lines[i].name] \notin OwnFields
      PROVE  request'.fields[Key[text.lines[i].name]] = FieldValue(i)
  <2> DEFINE key == Key[text.lines[i].name]
  <2>1. key \in DOMAIN request'.fields \ OwnFields
    BY <1>4, <1>5
  <2>2. CASE body # <<>> /\ key = "content-length"
    BY <1>0, <1>3, <2>2, SendFacts, OrderlyFacts
  <2>3. CASE \E n \in Valid : KeyOf(n) = key /\ request'.fields[key] = headers[n]
    <3>1. PICK n \in Valid : KeyOf(n) = key /\ request'.fields[key] = headers[n]
      BY <2>3
    <3>2. PICK j \in 1..(k - 1) : n = FieldName(j)
      BY <1>1, <3>1
    <3>3. j = i
      BY <1>0, <1>2, <3>1, <3>2, OrderlyFacts
    <3> QED BY <1>0, <3>1, <3>2, <3>3 DEF Collected
  <2> QED BY <2>1, <2>2, <2>3, SendFacts
<1> QED BY <1>0, <1>4, <1>5, SendFacts

LEMMA OrderlyStep ==
  HttpTypeOK /\ OrderlyInv /\ OrderlyArrives /\ [HttpNext]_httpVars => OrderlyArrives'
<1> SUFFICES ASSUME HttpTypeOK, OrderlyInv, OrderlyArrives, [HttpNext]_httpVars
             PROVE  OrderlyArrives'
  OBVIOUS
<1>0. OrderlyInv'
  BY OrderlyInvStep
<1>1. stage' # "sent" => OrderlyArrives'
  BY <1>0 DEF OrderlyInv, Reading, OrderlyArrives
<1>2. CASE Send
  <2>1. text' = text /\ stage' = "sent"
    BY <1>2 DEF Send
  <2>2. \A k \in 1..Len(text.lines) : Orderly(k)' => Orderly(k)
    BY <2>1 DEF Orderly, EndsHeaders, Announces
  <2> QED BY <1>2, <2>1, <2>2, OrderlySent DEF OrderlyArrives, OrderlyInv, FieldValue
<1>3. CASE UNCHANGED httpVars
  BY <1>3 DEF httpVars, OrderlyArrives, Orderly, EndsHeaders, Announces
<1> QED BY <1>1, <1>2, <1>3, SentOnce

\* OrderlyArrives: every request of the form the vehicles are meant to send is
\* forwarded whole, however many fields and however long a body it has
\* (HttpParser.h:64-87, boostBeastClient.h:56-72).
THEOREM OrderlyIsForwarded == HttpSpec => []OrderlyArrives
  BY HttpTypeInit, HttpTypeStep, OrderlyInit, OrderlyInvStep, OrderlyStep, PTL DEF HttpSpec
=============================================================================
