----------------------- MODULE ConnectionProtocolProofs -----------------------
(***************************************************************************)
(* What ConnectionProtocol promises, proved for every receive buffer,      *)
(* response length and request stream: the type invariant, the safety      *)
(* invariants, and that the protocol implements HttpExchange.              *)
(***************************************************************************)
EXTENDS ConnectionProtocol, SequenceTheorems, TLAPS

-----------------------------------------------------------------------------
(* The bytes of the stream in a buffer.                                    *)

\* Bytes(p, q) is a sequence of q - p bytes.
LEMMA BytesType ==
    ASSUME NEW p \in Nat, NEW q \in Nat, p <= q
    PROVE  /\ Bytes(p, q) \in Seq(Byte)
           /\ Len(Bytes(p, q)) = q - p
           /\ \A i \in 1 .. q - p : Bytes(p, q)[i] = <<Me, p + i>>
  <1>1. q - p \in Nat
    OBVIOUS
  <1>2. \A i \in 1 .. q - p : <<Me, p + i>> \in Byte
    BY MeAssumption DEF Byte
  <1>3. Bytes(p, q) \in [1 .. q - p -> Byte]
    BY <1>2 DEF Bytes
  <1>4. Bytes(p, q) \in Seq(Byte)
    BY <1>1, <1>3, SeqDef
  <1>5. DOMAIN Bytes(p, q) = 1 .. q - p
    BY DEF Bytes
  <1>6. Len(Bytes(p, q)) = q - p
    BY <1>1, <1>4, <1>5, LenProperties
  <1>7. \A i \in 1 .. q - p : Bytes(p, q)[i] = <<Me, p + i>>
    BY DEF Bytes
  <1> QED BY <1>4, <1>6, <1>7

\* What a receive appends continues the buffer.
LEMMA BytesAppend ==
    ASSUME NEW p \in Nat, NEW q \in Nat, NEW r \in Nat, p <= q, q <= r
    PROVE  Bytes(p, q) \o Bytes(q, r) = Bytes(p, r)
  <1> DEFINE s == Bytes(p, q)
             t == Bytes(q, r)
  <1>1. /\ s \in Seq(Byte) /\ Len(s) = q - p
        /\ \A i \in 1 .. q - p : s[i] = <<Me, p + i>>
    BY BytesType
  <1>2. /\ t \in Seq(Byte) /\ Len(t) = r - q
        /\ \A i \in 1 .. r - q : t[i] = <<Me, q + i>>
    BY BytesType
  <1>3. /\ Bytes(p, r) \in Seq(Byte) /\ Len(Bytes(p, r)) = r - p
        /\ \A i \in 1 .. r - p : Bytes(p, r)[i] = <<Me, p + i>>
    <2>1. p <= r
      OBVIOUS
    <2> QED BY <2>1, BytesType
  <1> HIDE DEF s, t
  <1>4. /\ s \o t \in Seq(Byte) /\ Len(s \o t) = r - p
        /\ \A i \in 1 .. r - p : (s \o t)[i] = IF i <= q - p THEN s[i] ELSE t[i - (q - p)]
    <2>1. (q - p) + (r - q) = r - p
      OBVIOUS
    <2>2. /\ s \o t \in Seq(Byte)
          /\ Len(s \o t) = Len(s) + Len(t)
          /\ \A i \in 1 .. Len(s) + Len(t) :
                (s \o t)[i] = IF i <= Len(s) THEN s[i] ELSE t[i - Len(s)]
      BY <1>1, <1>2, ConcatProperties
    <2> QED BY <1>1, <1>2, <2>1, <2>2
  <1>5. ASSUME NEW i \in 1 .. r - p PROVE (s \o t)[i] = Bytes(p, r)[i]
    <2>1. CASE i <= q - p
      <3>1. i \in 1 .. q - p
        BY <2>1
      <3> QED BY <2>1, <3>1, <1>1, <1>3, <1>4
    <2>2. CASE ~(i <= q - p)
      <3>1. i - (q - p) \in 1 .. r - q /\ q + (i - (q - p)) = p + i
        BY <2>2
      <3> QED BY <2>2, <3>1, <1>2, <1>3, <1>4
    <2> QED BY <2>1, <2>2
  <1> QED BY <1>3, <1>4, <1>5, SeqEqual DEF s, t

\* The memmove of reset_for_next_request keeps what lies behind n bytes.
LEMMA BytesDrop ==
    ASSUME NEW p \in Nat, NEW q \in Nat, NEW n \in Nat, p + n < q
    PROVE  SubSeq(Bytes(p, q), n + 1, Len(Bytes(p, q))) = Bytes(p + n, q)
  <1> DEFINE s == Bytes(p, q)
             t == SubSeq(s, n + 1, q - p)
  <1>1. /\ s \in Seq(Byte) /\ Len(s) = q - p
        /\ \A i \in 1 .. q - p : s[i] = <<Me, p + i>>
    <2>1. p <= q
      OBVIOUS
    <2> QED BY <2>1, BytesType
  <1>2. /\ Bytes(p + n, q) \in Seq(Byte) /\ Len(Bytes(p + n, q)) = q - p - n
        /\ \A i \in 1 .. q - p - n : Bytes(p + n, q)[i] = <<Me, p + n + i>>
    <2>1. p + n \in Nat /\ p + n <= q /\ q - (p + n) = q - p - n
      OBVIOUS
    <2> QED BY <2>1, BytesType
  <1> HIDE DEF s
  <1>3. \A i \in n + 1 .. q - p : s[i] \in Byte
    BY <1>1, ElementOfSeq
  <1>4. /\ t \in Seq(Byte) /\ Len(t) = q - p - n
        /\ \A i \in 1 .. q - p - n : t[i] = s[n + 1 + i - 1]
    <2>1. n + 1 \in Int /\ q - p \in Int /\ n + 1 <= q - p
      OBVIOUS
    <2>2. (q - p) - (n + 1) + 1 = q - p - n
      OBVIOUS
    <2> QED BY <1>3, <2>1, <2>2, SubSeqProperties
  <1> HIDE DEF t
  <1>5. ASSUME NEW i \in 1 .. q - p - n PROVE t[i] = Bytes(p + n, q)[i]
    <2>1. n + 1 + i - 1 \in 1 .. q - p /\ p + (n + 1 + i - 1) = p + n + i
      OBVIOUS
    <2> QED BY <2>1, <1>1, <1>2, <1>4
  <1>6. t = Bytes(p + n, q)
    BY <1>2, <1>4, <1>5, SeqEqual
  <1> QED BY <1>1, <1>6 DEF s, t

-----------------------------------------------------------------------------
(* The constants.                                                          *)

Requests == 1 .. Len(Stream[Me])

\* The requests of a stream lie one behind the other.
LEMMA StreamFacts ==
    /\ Len(Stream[Me]) \in Nat
    /\ \A k \in 0 .. Len(Stream[Me]) : EndOf(Me, k) \in Nat
    /\ \A j, k \in 0 .. Len(Stream[Me]) : j < k => EndOf(Me, j) < EndOf(Me, k)
    /\ Total(Me) = EndOf(Me, Len(Stream[Me]))
    /\ \A k \in Requests : /\ Stream[Me][k].hdr \in Nat \ {0}
                           /\ Stream[Me][k].kind \in Kinds
                           /\ Size(Me, k) \in Nat \ {0}
                           /\ Stream[Me][k].hdr <= Size(Me, k)
                           /\ EndOf(Me, k) = EndOf(Me, k - 1) + Size(Me, k)
  <1>1. /\ Stream[Me] \in Seq([hdr : Nat \ {0}, last : Nat \ {0}, kind : Kinds])
        /\ \A j, k \in 0 .. Len(Stream[Me]) : j < k => EndOf(Me, j) < EndOf(Me, k)
        /\ \A k \in 1 .. Len(Stream[Me]) :
              Stream[Me][k].hdr <= EndOf(Me, k) - EndOf(Me, k - 1)
    BY StreamAssumption, MeAssumption
  <1>2. Len(Stream[Me]) \in Nat /\ Total(Me) = EndOf(Me, Len(Stream[Me]))
    BY <1>1 DEF Total
  <1>3. \A k \in Requests : Stream[Me][k] \in [hdr : Nat \ {0}, last : Nat \ {0}, kind : Kinds]
    BY <1>1, <1>2, ElementOfSeq DEF Requests
  <1>4. \A k \in 0 .. Len(Stream[Me]) : EndOf(Me, k) \in Nat
    BY <1>2, <1>3 DEF EndOf, Requests
  <1>5. \A k \in Requests : /\ k - 1 \in 0 .. Len(Stream[Me]) /\ k \in 0 .. Len(Stream[Me])
                            /\ k - 1 < k
    BY <1>2 DEF Requests
  <1>6. \A k \in Requests : /\ Size(Me, k) \in Nat \ {0}
                            /\ EndOf(Me, k) = EndOf(Me, k - 1) + Size(Me, k)
                            /\ Stream[Me][k].hdr <= Size(Me, k)
    <2>1. SUFFICES ASSUME NEW k \in Requests
                   PROVE  /\ Size(Me, k) \in Nat \ {0}
                          /\ EndOf(Me, k) = EndOf(Me, k - 1) + Size(Me, k)
                          /\ Stream[Me][k].hdr <= Size(Me, k)
      OBVIOUS
    <2>2. /\ EndOf(Me, k - 1) \in Nat /\ EndOf(Me, k) \in Nat
          /\ EndOf(Me, k - 1) < EndOf(Me, k)
      BY <1>1, <1>4, <1>5
    <2>3. Stream[Me][k].hdr <= EndOf(Me, k) - EndOf(Me, k - 1)
      BY <1>1 DEF Requests
    <2> QED BY <2>2, <2>3 DEF Size
  <1> QED BY <1>1, <1>2, <1>3, <1>4, <1>6

-----------------------------------------------------------------------------
(* The parser on a buffer that begins with request k + 1.                  *)

\* Such a buffer is framed, and recognised as that request of Me.
LEMMA ParseFrames ==
    ASSUME NEW k \in 0 .. Len(Stream[Me]), NEW q \in Nat,
           EndOf(Me, k) < q, q <= Total(Me)
    PROVE  LET buf == Bytes(EndOf(Me, k), q)
           IN  /\ k + 1 \in Requests
               /\ Len(buf) = q - EndOf(Me, k)
               /\ buf[1] = <<Me, EndOf(Me, k) + 1>>
               /\ Framed(buf)
               /\ RequestIn(buf) = k + 1
               /\ Answer(buf) = <<Me, k + 1>>
  <1> DEFINE e   == EndOf(Me, k)
             buf == Bytes(e, q)
  <1>0. e \in Nat /\ e <= q
    BY StreamFacts
  <1>1. k + 1 \in Requests
    <2>1. k # Len(Stream[Me])
      BY StreamFacts
    <2> QED BY <2>1, StreamFacts DEF Requests
  <1>2. /\ buf \in Seq(Byte) /\ Len(buf) = q - e
        /\ \A i \in 1 .. q - e : buf[i] = <<Me, e + i>>
    BY <1>0, BytesType
  <1> HIDE DEF buf
  <1>3. buf[1] = <<Me, e + 1>>
    BY <1>0, <1>2
  <1>4. buf[1][1] = Me /\ buf[1][2] = e + 1
    BY <1>3
  <1>5. StartsAt(buf) = {j \in Requests : EndOf(Me, j - 1) = e}
    <2>1. buf[1][2] - 1 = e
      BY <1>4, <1>0
    <2> QED BY <1>4, <2>1 DEF StartsAt, Requests
  <1>6. \A j \in Requests : EndOf(Me, j - 1) = e => j = k + 1
    <2>1. SUFFICES ASSUME NEW j \in Requests, EndOf(Me, j - 1) = e, j # k + 1
                   PROVE  FALSE
      OBVIOUS
    <2>2. j - 1 \in 0 .. Len(Stream[Me]) /\ (j - 1 < k \/ k < j - 1)
      BY <2>1, StreamFacts DEF Requests
    <2>3. EndOf(Me, j - 1) < EndOf(Me, k) \/ EndOf(Me, k) < EndOf(Me, j - 1)
      BY <2>2, StreamFacts
    <2> QED BY <2>1, <2>3, <1>0
  <1>7. StartsAt(buf) = {k + 1}
    <2>1. (k + 1) - 1 = k
      OBVIOUS
    <2>2. EndOf(Me, (k + 1) - 1) = e
      BY <2>1
    <2> QED BY <1>1, <1>5, <1>6, <2>2
  <1>8. RequestIn(buf) = k + 1
    BY <1>7 DEF RequestIn
  <1>9. Framed(buf)
    <2>1. ASSUME NEW i \in 1 .. Len(buf)
          PROVE  buf[i] = <<buf[1][1], buf[1][2] + i - 1>>
      <3>1. i \in 1 .. q - e /\ e + i = e + 1 + i - 1
        BY <1>0, <1>2
      <3> QED BY <3>1, <1>2, <1>4
    <2> QED BY <2>1, <1>7 DEF Framed
  <1>10. Answer(buf) = <<Me, k + 1>>
    BY <1>4, <1>8, <1>9 DEF Answer
  <1> QED BY <1>1, <1>2, <1>3, <1>8, <1>9, <1>10 DEF buf

\* With n bytes of request k + 1 there the parser waits exactly as long as
\* these do not settle the request, and else tells its kind.
LEMMA ParseResult ==
    ASSUME NEW k \in 0 .. Len(Stream[Me]), NEW q \in Nat,
           EndOf(Me, k) < q, q <= Total(Me)
    PROVE  LET n      == q - EndOf(Me, k)
               r      == Stream[Me][k + 1]
               result == ParseRequest(Bytes(EndOf(Me, k), q))
           IN  /\ result = "incomplete" <=>
                     ~(n >= Size(Me, k + 1) \/ (n >= r.hdr /\ r.kind \in {"malformed", "tooLarge"}))
               /\ result \in {"bad_request", "too_large"} => r.kind \in {"malformed", "tooLarge"}
               /\ result \notin {"incomplete", "bad_request", "too_large"} =>
                     /\ result \in {"keep", "close", "reject"} /\ result = r.kind
                     /\ n >= Size(Me, k + 1)
  <1> DEFINE buf    == Bytes(EndOf(Me, k), q)
             n      == q - EndOf(Me, k)
             r      == Stream[Me][k + 1]
             result == ParseRequest(buf)
  <1>1. /\ k + 1 \in Requests /\ Len(buf) = n
        /\ buf[1] = <<Me, EndOf(Me, k) + 1>>
        /\ Framed(buf) /\ RequestIn(buf) = k + 1
    BY ParseFrames
  <1>2. buf[1][1] = Me
    BY <1>1
  <1>3. /\ r.hdr \in Nat /\ Size(Me, k + 1) \in Nat /\ r.hdr <= Size(Me, k + 1)
        /\ r.kind \in Kinds /\ n \in Nat
    BY <1>1, StreamFacts, SMTT(30)
  <1> HIDE DEF buf, n, r
  <1>4. result = IF n < r.hdr                     THEN "incomplete"
                 ELSE IF r.kind = "malformed"     THEN "bad_request"
                 ELSE IF r.kind = "tooLarge"      THEN "too_large"
                 ELSE IF n < Size(Me, k + 1) THEN "incomplete"
                 ELSE r.kind
    BY <1>1, <1>2 DEF ParseRequest, r
  <1> HIDE DEF result
  <1>5. /\ result = "incomplete" <=>
              ~(n >= Size(Me, k + 1) \/ (n >= r.hdr /\ r.kind \in {"malformed", "tooLarge"}))
        /\ result \in {"bad_request", "too_large"} => r.kind \in {"malformed", "tooLarge"}
        /\ result \notin {"incomplete", "bad_request", "too_large"} =>
              /\ result \in {"keep", "close", "reject"} /\ result = r.kind
              /\ n >= Size(Me, k + 1)
    BY <1>3, <1>4 DEF Kinds
  <1> QED BY <1>5 DEF buf, n, r, result

-----------------------------------------------------------------------------
(* The handlers keep the connection in one of the two situations.          *)

\* What set_send changes.
LEMMA SetSendFields ==
    ASSUME NEW c \in ConnRecord, NEW x \in Response
    PROVE  LET d == SetSend(c, x)
           IN  /\ d \in ConnRecord /\ d.resp = x /\ d.sendLen = RespLen /\ d.sendOff = 0
               /\ d.live = c.live /\ d.state = c.state /\ d.buf = c.buf
               /\ d.consumed = c.consumed /\ d.closeAfter = c.closeAfter
               /\ d.idle = c.idle
  BY CapAssumption DEF SetSend, ConnRecord

\* h starts sending the response x, with the request of c still in the buffer.
Starts(h, c, x) ==
    /\ h.io = "send" /\ h.conn \in ConnRecord
    /\ h.conn.resp = x /\ h.conn.sendLen = RespLen /\ h.conn.sendOff = 0
    /\ h.conn.live = c.live /\ h.conn.state = "writing" /\ h.conn.buf = c.buf
    /\ h.conn.idle = c.idle

\* What send_error_response leaves behind: a final response on its way.
LEMMA SendErrorFields ==
    ASSUME NEW c \in ConnRecord, NEW x \in Response
    PROVE  /\ Starts(SendErrorResponse(c, x), c, x)
           /\ SendErrorResponse(c, x).conn.consumed = c.consumed
           /\ SendErrorResponse(c, x).conn.closeAfter = TRUE
  <1> DEFINE e == SetSend(c, x)
             d == [e EXCEPT !.closeAfter = TRUE, !.state = "writing"]
  <1>1. /\ e \in ConnRecord /\ e.resp = x /\ e.sendLen = RespLen /\ e.sendOff = 0
        /\ e.live = c.live /\ e.buf = c.buf /\ e.consumed = c.consumed
        /\ e.idle = c.idle
    BY SetSendFields
  <1>2. SendErrorResponse(c, x) = [conn |-> d, io |-> "send"]
    BY DEF SendErrorResponse, StartSend
  <1> HIDE DEF e
  <1>3. /\ d \in ConnRecord /\ d.resp = e.resp /\ d.sendLen = e.sendLen
        /\ d.sendOff = e.sendOff /\ d.live = e.live /\ d.state = "writing"
        /\ d.buf = e.buf /\ d.consumed = e.consumed /\ d.closeAfter = TRUE
        /\ d.idle = e.idle
    BY <1>1 DEF ConnRecord, ConnState
  <1> HIDE DEF d
  <1> QED BY <1>1, <1>2, <1>3 DEF Starts

\* What the rest of process_request does to a connection whose buffer begins
\* with the complete request j.
LEMMA DispatchFields ==
    ASSUME NEW c \in ConnRecord, NEW j \in Nat, Answer(c.buf) = <<Me, j>>,
           Size(Me, j) \in Nat, NEW kind \in {"keep", "close", "reject"}
    PROVE  /\ Starts(Dispatch(c, kind), c, <<Me, j>>)
           /\ Dispatch(c, kind).conn.consumed = Size(Me, j)
           /\ Dispatch(c, kind).conn.closeAfter = (kind # "keep")
  <1> DEFINE x == <<Me, j>>
             e == [c EXCEPT !.consumed = Size(Me, j), !.closeAfter = (kind = "close")]
             f == SetSend(e, x)
             g == [f EXCEPT !.state = "writing"]
  <1>1. x \in Response /\ x[1] = Me /\ x[2] = j
    BY MeAssumption DEF Response
  <1>2. (kind = "close") \in BOOLEAN
    OBVIOUS
  <1>3. /\ e \in ConnRecord /\ e.live = c.live /\ e.buf = c.buf
        /\ e.consumed = Size(Me, j) /\ e.closeAfter = (kind = "close")
        /\ e.idle = c.idle
    BY <1>2 DEF ConnRecord
  <1>4. Dispatch(c, kind) = IF kind = "reject" THEN SendErrorResponse(e, x)
                            ELSE [conn |-> g, io |-> "send"]
    BY <1>1 DEF Dispatch, StartSend
  <1> HIDE DEF e, x
  <1>5. /\ f \in ConnRecord /\ f.resp = x /\ f.sendLen = RespLen /\ f.sendOff = 0
        /\ f.live = e.live /\ f.buf = e.buf
        /\ f.consumed = e.consumed /\ f.closeAfter = e.closeAfter
        /\ f.idle = e.idle
    BY <1>1, <1>3, SetSendFields
  <1> HIDE DEF f
  <1>6. /\ g \in ConnRecord /\ g.resp = f.resp /\ g.sendLen = f.sendLen
        /\ g.sendOff = f.sendOff /\ g.live = f.live /\ g.state = "writing"
        /\ g.buf = f.buf /\ g.consumed = f.consumed /\ g.closeAfter = f.closeAfter
        /\ g.idle = f.idle
    BY <1>5 DEF ConnRecord, ConnState
  <1> HIDE DEF g
  <1>7. CASE kind = "reject"
    <2>1. /\ Starts(SendErrorResponse(e, x), e, x)
          /\ SendErrorResponse(e, x).conn.consumed = e.consumed
          /\ SendErrorResponse(e, x).conn.closeAfter = TRUE
      BY <1>1, <1>3, SendErrorFields
    <2>2. Dispatch(c, kind) = SendErrorResponse(e, x) /\ (kind # "keep") = TRUE
      BY <1>4, <1>7
    <2>3. Starts(Dispatch(c, kind), c, x)
      BY <2>1, <2>2, <1>3 DEF Starts
    <2> QED BY <2>1, <2>2, <2>3, <1>3 DEF x
  <1>8. CASE kind # "reject"
    <2>1. Dispatch(c, kind) = [conn |-> g, io |-> "send"]
      BY <1>4, <1>8
    <2>2. Starts(Dispatch(c, kind), c, x)
      BY <2>1, <1>3, <1>5, <1>6 DEF Starts
    <2>3. (kind = "close") = (kind # "keep")
      BY <1>8
    <2> QED BY <2>1, <2>2, <2>3, <1>3, <1>5, <1>6 DEF x
  <1> QED BY <1>7, <1>8

\* h goes on where c has received up to q and answered up to request k: it
\* waits for more, or starts the response to the next request.
Proceeds(h, c, k, q) ==
    /\ h.conn \in ConnRecord /\ h.conn.live /\ h.conn.idle = c.idle
    /\ \/ h.io = "recv" /\ Waiting(h.conn, k, q)
       \/ /\ h.io = "send" /\ k + 1 \in Requests
          /\ Answering(h.conn, k + 1, q) /\ h.conn.sendOff = 0

\* process_request on the rest of the stream after request k, with nothing to
\* send: it waits for more, or starts the response to request k + 1.
LEMMA ProcessRequestKeeps ==
    ASSUME NEW c \in ConnRecord, NEW k \in 0 .. Len(Stream[Me]), NEW q \in Nat,
           EndOf(Me, k) < q, q <= Total(Me),
           c.live, Resting(c), BuffersFrom(c, k, q)
    PROVE  Proceeds(ProcessRequest(c), c, k, q)
  <1> DEFINE n == q - EndOf(Me, k)
             r == Stream[Me][k + 1]
             result == ParseRequest(c.buf)
             res == ProcessRequest(c)
  <1>0. /\ EndOf(Me, k) \in Nat /\ n \in Nat \ {0} /\ n <= RecvCap
        /\ RecvCap \in Nat \ {0} /\ RespLen \in Nat \ {0} /\ Me \in Clients
    BY StreamFacts, CapAssumption, MeAssumption DEF BuffersFrom
  <1>1. /\ k + 1 \in Requests /\ Len(c.buf) = n /\ c.buf[1] = <<Me, EndOf(Me, k) + 1>>
        /\ Answer(c.buf) = <<Me, k + 1>>
    BY ParseFrames DEF BuffersFrom
  <1>2. /\ result = "incomplete" <=>
              ~(n >= Size(Me, k + 1) \/ (n >= r.hdr /\ r.kind \in {"malformed", "tooLarge"}))
        /\ result \in {"bad_request", "too_large"} => r.kind \in {"malformed", "tooLarge"}
        /\ result \notin {"incomplete", "bad_request", "too_large"} =>
              /\ result \in {"keep", "close", "reject"} /\ result = r.kind
              /\ n >= Size(Me, k + 1)
    BY ParseResult DEF BuffersFrom
  <1>3. /\ r.hdr \in Nat /\ Size(Me, k + 1) \in Nat /\ (k + 1) - 1 = k
        /\ Len(Stream[Me]) \in Nat /\ k + 1 \in Nat
        /\ k + 1 <= Len(Stream[Me]) /\ k + 1 # 0 /\ k + 1 \in 1 .. Len(Stream[Me])
    <2>1. r.hdr \in Nat /\ Size(Me, k + 1) \in Nat /\ Len(Stream[Me]) \in Nat
      BY <1>1, StreamFacts
    <2>2. k \in Nat /\ k + 1 <= Len(Stream[Me])
      BY <1>1, <2>1 DEF Requests
    <2> QED BY <2>1, <2>2
  <1>4. Promise!Answerable(k + 1, q) <=>
           n >= Size(Me, k + 1) \/ n >= RecvCap
             \/ (n >= r.hdr /\ r.kind \in {"malformed", "tooLarge"})
    BY <1>3 DEF Promise!Answerable, Promise!Size, Promise!EndOf, Size, EndOf
  <1>5. Promise!Final(k + 1) <=> (r.kind # "keep" \/ Size(Me, k + 1) > RecvCap)
    BY <1>3 DEF Promise!Final, Promise!Size, Promise!EndOf, Size, EndOf
  <1>6. <<Me, k + 1>> \in Response /\ "reading" \in ConnState /\ "writing" \in ConnState
    BY <1>0, <1>3 DEF Response, ConnState
  <1>7. /\ c.resp = NoResponse /\ c.sendLen = 0 /\ c.sendOff = 0 /\ c.consumed = 0
        /\ c.closeAfter = FALSE /\ c.buf = Bytes(EndOf(Me, k), q)
    BY DEF Resting, BuffersFrom
  <1> HIDE DEF n, r, result
  <1>8. CASE result = "incomplete" /\ n < RecvCap
    <2>1. res = [conn |-> [c EXCEPT !.state = "reading"], io |-> "recv"]
      BY <1>1, <1>8 DEF ProcessRequest, StartRecv, result
    <2>2. /\ res.conn \in ConnRecord /\ res.conn.live /\ res.io = "recv"
          /\ res.conn.state = "reading" /\ res.conn.buf = c.buf
          /\ res.conn.idle = c.idle
      BY <2>1, <1>6 DEF ConnRecord
    <2>3. Resting(res.conn)
      BY <2>1, <1>7 DEF Resting, ConnRecord
    <2>4. BuffersFrom(res.conn, k, q)
      BY <2>2 DEF BuffersFrom
    <2>5. ~Promise!Answerable(k + 1, q)
      BY <1>0, <1>2, <1>3, <1>4, <1>8
    <2>6. Waiting(res.conn, k, q)
      BY <2>2, <2>3, <2>4, <2>5, <1>1, <1>8 DEF Waiting
    <2> QED BY <2>2, <2>6 DEF Proceeds
  <1>9. CASE ~(result = "incomplete" /\ n < RecvCap)
             /\ result \in {"incomplete", "bad_request", "too_large"}
    <2>1. res = SendErrorResponse(c, <<Me, k + 1>>)
      BY <1>1, <1>9 DEF ProcessRequest, result
    <2>2. Starts(res, c, <<Me, k + 1>>) /\ res.conn.closeAfter = TRUE
      BY <2>1, <1>6, SendErrorFields
    <2>3. /\ res.conn \in ConnRecord /\ res.conn.live /\ res.io = "send"
          /\ res.conn.state = "writing" /\ res.conn.buf = c.buf /\ res.conn.resp = <<Me, k + 1>>
          /\ res.conn.sendLen = RespLen /\ res.conn.sendOff = 0 /\ res.conn.closeAfter = TRUE
          /\ res.conn.idle = c.idle
      BY <2>2 DEF Starts
    <2>4. BuffersFrom(res.conn, (k + 1) - 1, q)
      BY <2>3, <1>3 DEF BuffersFrom
    <2>5. Promise!Answerable(k + 1, q) /\ Promise!Final(k + 1)
      BY <1>0, <1>2, <1>3, <1>4, <1>5, <1>9
    <2>6. Promise!Final(k + 1) = TRUE /\ 0 \in 0 .. RespLen - 1
      BY <2>5, <1>5, <1>0
    <2> HIDE DEF res
    <2>7. Answering(res.conn, k + 1, q)
      BY <2>3, <2>4, <2>5, <2>6, <1>3 DEF Answering
    <2> QED BY <2>3, <2>7, <1>1 DEF res, Proceeds
  <1>10. CASE result \notin {"incomplete", "bad_request", "too_large"}
    <2>0. /\ result \in {"keep", "close", "reject"} /\ result = r.kind
          /\ n >= Size(Me, k + 1)
      BY <1>2, <1>10
    <2>1. res = Dispatch(c, result)
      BY <1>1, <1>10 DEF ProcessRequest, result
    <2>2. /\ Starts(res, c, <<Me, k + 1>>)
          /\ res.conn.closeAfter = (result # "keep") /\ res.conn.consumed = Size(Me, k + 1)
      BY <2>0, <2>1, <1>1, <1>3, DispatchFields
    <2>3. /\ res.conn \in ConnRecord /\ res.conn.live /\ res.io = "send"
          /\ res.conn.state = "writing" /\ res.conn.buf = c.buf /\ res.conn.resp = <<Me, k + 1>>
          /\ res.conn.sendLen = RespLen /\ res.conn.sendOff = 0
          /\ res.conn.closeAfter = (result # "keep") /\ res.conn.consumed = Size(Me, k + 1)
          /\ res.conn.idle = c.idle
      BY <2>2 DEF Starts
    <2>4. BuffersFrom(res.conn, (k + 1) - 1, q)
      BY <2>3, <1>3 DEF BuffersFrom
    <2>5. Promise!Answerable(k + 1, q) /\ (Promise!Final(k + 1) <=> result # "keep")
      BY <2>0, <1>0, <1>3, <1>4, <1>5
    <2>6. 0 \in 0 .. RespLen - 1 /\ Len(res.conn.buf) = n
      BY <1>0, <1>1, <2>3
    <2>7. Promise!Final(k + 1) \in BOOLEAN
      BY DEF Promise!Final
    <2>8. res.conn.closeAfter = Promise!Final(k + 1)
      BY <2>3, <2>5, <2>7
    <2> HIDE DEF res
    <2>9. Answering(res.conn, k + 1, q)
      BY <2>0, <2>3, <2>4, <2>5, <2>6, <2>8, <1>3 DEF Answering
    <2> QED BY <2>3, <2>9, <1>1 DEF res, Proceeds
  <1> QED BY <1>8, <1>9, <1>10

\* on_recv: n more bytes reach a connection that waits between two requests.
LEMMA OnRecvKeeps ==
    ASSUME NEW c \in ConnRecord, c.live, NEW k \in 0 .. Len(Stream[Me]),
           NEW p \in Nat, NEW n \in Nat \ {0}, p + n <= Total(Me),
           Waiting(c, k, p)
    PROVE  /\ n <= RecvCap - Len(c.buf) =>
                 Proceeds(OnRecv(c, Bytes(p, p + n)), Touch(c), k, p + n)
           /\ Len(c.buf) = p - EndOf(Me, k)
  <1> DEFINE more == Bytes(p, p + n)
             t == [c EXCEPT !.idle = FALSE]
             d == [t EXCEPT !.buf = @ \o more]
             e == [d EXCEPT !.state = "processing"]
  <1>1. /\ EndOf(Me, k) \in Nat /\ EndOf(Me, k) <= p /\ p <= p + n
        /\ c.buf = Bytes(EndOf(Me, k), p)
        /\ p + n \in Nat /\ EndOf(Me, k) < p + n
    BY StreamFacts DEF Waiting, BuffersFrom
  <1>2. Len(c.buf) = p - EndOf(Me, k)
    BY <1>1, BytesType
  <1>3. /\ c.buf \o more = Bytes(EndOf(Me, k), p + n)
        /\ Bytes(EndOf(Me, k), p + n) \in Seq(Byte)
    <2>1. c.buf \o more = Bytes(EndOf(Me, k), p + n)
      <3> DEFINE a == EndOf(Me, k)
                 m == p + n
      <3>1. a \in Nat /\ m \in Nat /\ a <= p /\ p <= m /\ c.buf = Bytes(a, p)
        BY <1>1
      <3> HIDE DEF a, m
      <3>2. Bytes(a, p) \o Bytes(p, m) = Bytes(a, m)
        BY <3>1, BytesAppend
      <3> QED BY <3>1, <3>2 DEF a, m
    <2>2. EndOf(Me, k) <= p + n
      BY <1>1
    <2> QED BY <1>1, <2>1, <2>2, BytesType
  <1>4. /\ t \in ConnRecord /\ t.live /\ Resting(t) /\ t.idle = FALSE /\ t.buf = c.buf
    BY DEF ConnRecord, Waiting, Resting
  <1> HIDE DEF t, more
  <1>5. /\ d \in ConnRecord /\ d.live /\ Resting(d) /\ d.idle = t.idle
        /\ d.buf = Bytes(EndOf(Me, k), p + n)
    BY <1>3, <1>4 DEF ConnRecord, Resting
  <1> HIDE DEF d
  <1>6. /\ e \in ConnRecord /\ e.live /\ Resting(e) /\ e.idle = t.idle
        /\ e.buf = Bytes(EndOf(Me, k), p + n)
    BY <1>5 DEF ConnRecord, Resting, ConnState
  <1>7. OnRecv(c, more) = ProcessRequest(e) /\ Touch(c) = t
    BY DEF OnRecv, AdvanceRecv, Touch, e, d, t
  <1> HIDE DEF e
  <1>8. ASSUME n <= RecvCap - Len(c.buf)
        PROVE  Proceeds(OnRecv(c, more), t, k, p + n)
    <2>1. (p + n) - EndOf(Me, k) <= RecvCap
      BY <1>1, <1>2, <1>8, CapAssumption
    <2>2. BuffersFrom(e, k, p + n)
      BY <2>1, <1>1, <1>6 DEF BuffersFrom, Waiting
    <2>3. Proceeds(ProcessRequest(e), e, k, p + n)
      BY <2>2, <1>1, <1>6, ProcessRequestKeeps
    <2> QED BY <2>3, <1>6, <1>7 DEF Proceeds
  <1> QED BY <1>2, <1>7, <1>8 DEF more

\* reset_for_next_request once the answer to request k, which the connection
\* survives, is out: the buffer is moved on to what lies behind request k.
LEMMA ResetMovesOn ==
    ASSUME NEW c \in ConnRecord, NEW k \in Requests, NEW q \in Nat, q <= Total(Me),
           c.live, Answering(c, k, q), ~c.closeAfter
    PROVE  LET e == ResetForNextRequest(c, c.consumed)
           IN  /\ e \in ConnRecord /\ e.live /\ e.state = "reading" /\ e.idle = FALSE
               /\ Resting(e) /\ BuffersFrom(e, k, q) /\ Len(e.buf) = q - EndOf(Me, k)
  <1> DEFINE b == Bytes(EndOf(Me, k), q)
             n == Size(Me, k)
             x == [c EXCEPT !.state = "reading", !.buf = b]
             y == [x EXCEPT !.resp = NoResponse, !.sendLen = 0, !.sendOff = 0]
             z == [y EXCEPT !.consumed = 0, !.closeAfter = FALSE, !.idle = FALSE]
             e == ResetForNextRequest(c, c.consumed)
  <1>0. k \in 0 .. Len(Stream[Me]) /\ k - 1 \in 0 .. Len(Stream[Me])
    BY StreamFacts DEF Requests
  <1>1. /\ EndOf(Me, k - 1) \in Nat /\ EndOf(Me, k) \in Nat /\ n \in Nat \ {0}
        /\ EndOf(Me, k) = EndOf(Me, k - 1) + n
    BY <1>0, StreamFacts
  <1>2. /\ EndOf(Me, k - 1) <= q /\ q - EndOf(Me, k - 1) <= RecvCap
        /\ c.buf = Bytes(EndOf(Me, k - 1), q) /\ c.consumed = n /\ n <= Len(c.buf)
        /\ ~Promise!Final(k)
    BY DEF Answering, BuffersFrom
  <1>3. Len(c.buf) = q - EndOf(Me, k - 1)
    BY <1>1, <1>2, BytesType
  <1> HIDE DEF n
  <1>4. EndOf(Me, k) <= q /\ q - EndOf(Me, k) <= RecvCap
    BY <1>1, <1>2, <1>3, CapAssumption
  <1>5. b \in Seq(Byte) /\ Len(b) = q - EndOf(Me, k)
    BY <1>1, <1>4, BytesType
  <1>6. (IF n < Len(c.buf) THEN SubSeq(c.buf, n + 1, Len(c.buf)) ELSE << >>) = b
    <2>1. CASE n < Len(c.buf)
      <3>1. EndOf(Me, k - 1) + n < q /\ n \in Nat
        BY <2>1, <1>1, <1>3
      <3> DEFINE a == EndOf(Me, k - 1)
      <3>2. a \in Nat /\ a + n < q /\ n \in Nat /\ c.buf = Bytes(a, q)
        BY <3>1, <1>1, <1>2
      <3> HIDE DEF a
      <3>3. SubSeq(Bytes(a, q), n + 1, Len(Bytes(a, q))) = Bytes(a + n, q)
        BY <3>2, BytesDrop
      <3> QED BY <2>1, <3>2, <3>3, <1>1 DEF a
    <2>2. CASE ~(n < Len(c.buf))
      <3>1. Len(b) = 0
        BY <2>2, <1>1, <1>2, <1>3, <1>5
      <3>2. b = << >>
        BY <3>1, <1>5, EmptySeq
      <3> QED BY <2>2, <3>2
    <2> QED BY <2>1, <2>2
  <1>7. e = z
    BY <1>2, <1>6 DEF ResetForNextRequest, Touch, ConnRecord
  <1> HIDE DEF b, e
  <1>8. x \in ConnRecord /\ x.live /\ x.state = "reading" /\ x.buf = b
    BY <1>5 DEF ConnRecord, ConnState
  <1> HIDE DEF x
  <1>9. /\ y \in ConnRecord /\ y.live /\ y.state = "reading" /\ y.buf = b
        /\ y.resp = NoResponse /\ y.sendLen = 0 /\ y.sendOff = 0
    BY <1>8 DEF ConnRecord, Response, NoResponse
  <1> HIDE DEF y
  <1>10. /\ z \in ConnRecord /\ z.live /\ z.state = "reading" /\ z.buf = b
         /\ z.idle = FALSE /\ Resting(z)
    BY <1>9 DEF ConnRecord, Resting
  <1> HIDE DEF z
  <1>11. BuffersFrom(z, k, q)
    BY <1>0, <1>2, <1>4, <1>10 DEF BuffersFrom, b
  <1> QED BY <1>5, <1>7, <1>10, <1>11 DEF e

\* No byte calls for no answer.
LEMMA NothingToAnswer ==
    ASSUME NEW k \in 0 .. Len(Stream[Me])
    PROVE  ~Promise!Answerable(k + 1, EndOf(Me, k))
  <1>1. k \in Nat /\ Len(Stream[Me]) \in Nat /\ EndOf(Me, k) \in Nat /\ (k + 1) - 1 = k
    BY StreamFacts
  <1>2. CASE k + 1 \in Requests
    <2>1. Stream[Me][k + 1].hdr \in Nat \ {0} /\ Size(Me, k + 1) \in Nat \ {0}
      BY <1>2, StreamFacts
    <2> QED BY <2>1, <1>1, CapAssumption
            DEF Promise!Answerable, Promise!Size, Promise!EndOf, Size, EndOf
  <1>3. CASE k + 1 \notin Requests
    <2>1. ~(k + 1 <= Len(Stream[Me]))
      BY <1>1, <1>3 DEF Requests
    <2> QED BY <2>1 DEF Promise!Answerable
  <1> QED BY <1>2, <1>3

\* h goes on where n more units of the response to request k have left c: it
\* sends the rest, closes after a final response, or turns to what follows.
GoesOn(h, c, k, q, n) ==
    \/ /\ c.sendOff + n < RespLen
       /\ h.io = "send" /\ h.conn \in ConnRecord /\ h.conn.live /\ h.conn.idle = c.idle
       /\ Answering(h.conn, k, q) /\ h.conn.sendOff = c.sendOff + n
    \/ /\ c.sendOff + n = RespLen /\ c.closeAfter
       /\ h.io = "close" /\ h.conn \in ConnRecord /\ h.conn.live
       /\ h.conn.buf = c.buf /\ h.conn.resp = c.resp
    \/ /\ c.sendOff + n = RespLen /\ ~c.closeAfter
       /\ Proceeds(h, Touch(c), k, q)

\* on_send: n more units of the response to request k are out.
LEMMA OnSendKeeps ==
    ASSUME NEW c \in ConnRecord, NEW k \in Requests, NEW q \in Nat, q <= Total(Me),
           c.live, Answering(c, k, q), NEW n \in 1 .. c.sendLen - c.sendOff
    PROVE  GoesOn(OnSend(c, n), c, k, q, n)
  <1> DEFINE d == [c EXCEPT !.sendOff = @ + n]
             e == ResetForNextRequest(d, d.consumed)
             f == [e EXCEPT !.state = "processing"]
             res == OnSend(c, n)
  <1>0. /\ RespLen \in Nat \ {0} /\ RecvCap \in Nat \ {0}
        /\ c.sendLen = RespLen /\ c.sendOff \in 0 .. RespLen - 1
        /\ c.closeAfter \in BOOLEAN
    BY CapAssumption DEF Answering, ConnRecord
  <1>1. /\ c.sendOff + n \in Nat /\ n \in Nat \ {0} /\ c.sendOff + n <= RespLen
    BY <1>0
  <1>2. /\ d \in ConnRecord /\ d.live /\ d.idle = c.idle /\ d.sendOff = c.sendOff + n
        /\ d.sendLen = RespLen /\ d.closeAfter = c.closeAfter
        /\ d.buf = c.buf /\ d.resp = c.resp /\ d.consumed = c.consumed
        /\ d.state = c.state
    BY <1>0, <1>1 DEF ConnRecord
  <1>3. Touch(c).idle = FALSE
    BY DEF Touch, ConnRecord
  <1>4. res = IF ~(d.sendOff >= d.sendLen) THEN [conn |-> d, io |-> "send"]
              ELSE IF d.closeAfter THEN [conn |-> d, io |-> "close"]
              ELSE IF Len(e.buf) > 0 THEN ProcessRequest(f)
              ELSE [conn |-> e, io |-> "recv"]
    BY DEF OnSend, AdvanceSend, SendComplete, StartSend, StartClose, StartRecv
  <1>5. BuffersFrom(d, k - 1, q)
    BY <1>2 DEF Answering, BuffersFrom
  <1> HIDE DEF d, e, f, res
  <1>6. CASE c.sendOff + n < RespLen
    <2>1. res = [conn |-> d, io |-> "send"]
      BY <1>2, <1>4, <1>6, <1>1, <1>0
    <2>2. d.sendOff \in 0 .. RespLen - 1
      BY <1>0, <1>1, <1>2, <1>6
    <2>3. Answering(d, k, q)
      BY <1>2, <1>5, <2>2 DEF Answering
    <2> QED BY <1>2, <1>6, <2>1, <2>3 DEF GoesOn, res
  <1>7. CASE c.sendOff + n = RespLen /\ c.closeAfter
    <2>1. res = [conn |-> d, io |-> "close"]
      BY <1>2, <1>4, <1>7, <1>1, <1>0
    <2> QED BY <1>2, <1>7, <2>1 DEF GoesOn, res
  <1>8. CASE c.sendOff + n = RespLen /\ ~c.closeAfter
    <2>0. /\ k \in Nat /\ k \in 0 .. Len(Stream[Me]) /\ EndOf(Me, k) \in Nat
          /\ Len(Stream[Me]) \in Nat
      BY StreamFacts DEF Requests
    <2>1. res = IF Len(e.buf) > 0 THEN ProcessRequest(f) ELSE [conn |-> e, io |-> "recv"]
      BY <1>2, <1>4, <1>8, <1>0
    <2>2. /\ e \in ConnRecord /\ e.live /\ e.state = "reading" /\ e.idle = FALSE
          /\ Resting(e) /\ BuffersFrom(e, k, q) /\ Len(e.buf) = q - EndOf(Me, k)
      <3> DEFINE g == [d EXCEPT !.sendOff = 0]
      <3>1. /\ g \in ConnRecord /\ g.live /\ g.sendOff = 0 /\ g.sendLen = RespLen
            /\ g.closeAfter = c.closeAfter /\ g.buf = c.buf /\ g.resp = c.resp
            /\ g.consumed = c.consumed /\ g.state = c.state
        BY <1>2 DEF ConnRecord
      <3>2. e = ResetForNextRequest(g, g.consumed)
        BY <1>2, <3>1 DEF e, ResetForNextRequest, Touch, ConnRecord
      <3> HIDE DEF g
      <3>3. BuffersFrom(g, k - 1, q)
        BY <1>2, <1>5, <3>1 DEF BuffersFrom
      <3>4. 0 \in 0 .. RespLen - 1
        BY <1>0
      <3>5. Answering(g, k, q)
        BY <3>1, <3>3, <3>4 DEF Answering
      <3> QED BY <3>1, <3>2, <3>5, <1>8, ResetMovesOn
    <2>3. /\ f \in ConnRecord /\ f.live /\ f.idle = FALSE /\ Resting(f)
          /\ BuffersFrom(f, k, q)
      BY <2>2 DEF f, ConnRecord, ConnState, Resting, BuffersFrom
    <2>4. CASE Len(e.buf) > 0
      <3>1. EndOf(Me, k) < q
        BY <2>0, <2>2, <2>4
      <3>2. Proceeds(ProcessRequest(f), f, k, q)
        BY <2>0, <2>3, <3>1, ProcessRequestKeeps
      <3>3. Proceeds(res, Touch(c), k, q)
        BY <2>1, <2>3, <2>4, <3>2, <1>3 DEF Proceeds
      <3> QED BY <1>8, <3>3 DEF GoesOn, res
    <2>5. CASE ~(Len(e.buf) > 0)
      <3>1. q = EndOf(Me, k) /\ Len(e.buf) = 0
        BY <2>0, <2>2, <2>5 DEF BuffersFrom
      <3>2. ~Promise!Answerable(k + 1, q)
        BY <2>0, <3>1, NothingToAnswer
      <3>3. Waiting(e, k, q)
        BY <2>2, <3>1, <3>2, <1>0 DEF Waiting
      <3>4. Proceeds(res, Touch(c), k, q)
        BY <2>1, <2>2, <2>5, <3>3, <1>3 DEF Proceeds
      <3> QED BY <1>8, <3>4 DEF GoesOn, res
    <2> QED BY <2>4, <2>5
  <1> QED BY <1>0, <1>1, <1>6, <1>7, <1>8

-----------------------------------------------------------------------------
(* The invariant.                                                          *)

\* In every situation the buffer is the unread rest of the stream.
LEMMA SituationUnread == TypeOK /\ Situation => BufferIsUnread
  <1> SUFFICES ASSUME TypeOK, Situation, conn.live
               PROVE  BufferIsUnread
    BY DEF BufferIsUnread
  <1>0. /\ read \in Nat /\ got.req \in Nat /\ NoResponse = << >>
    BY StreamFacts DEF TypeOK, Total, NoResponse
  <1>1. ASSUME NEW k \in 0 .. Len(Stream[Me]), BuffersFrom(conn, k, read), Serving - 1 = k
        PROVE  BufferIsUnread
    <2>1. /\ EndOf(Me, k) \in Nat /\ EndOf(Me, k) <= read
          /\ conn.buf = Bytes(EndOf(Me, k), read)
      BY <1>1, StreamFacts DEF BuffersFrom
    <2>2. Len(conn.buf) = read - EndOf(Me, k)
      BY <1>0, <2>1, BytesType
    <2>3. read - Len(conn.buf) = EndOf(Me, k)
      BY <1>0, <2>1, <2>2
    <2> QED BY <1>1, <2>1, <2>3 DEF BufferIsUnread
  <1>2. CASE srv = "none"
    BY <1>2 DEF Situation, EmptySlot
  <1>3. CASE srv = "open" /\ op = "recv"
    <2>1. Waiting(conn, got.req, read)
      BY <1>3 DEF Situation
    <2>2. /\ got.req \in 0 .. Len(Stream[Me]) /\ BuffersFrom(conn, got.req, read)
          /\ Serving - 1 = got.req
      BY <1>0, <2>1 DEF Waiting, Resting, BuffersFrom, Serving
    <2> QED BY <1>1, <2>2
  <1>4. CASE srv = "open" /\ op # "recv"
    <2>1. PICK k \in Requests : Answering(conn, k, read)
      BY <1>4 DEF Situation, Requests
    <2>2. conn.resp = <<Me, k>> /\ conn.resp # NoResponse /\ conn.resp[2] = k
      BY <1>0, <2>1 DEF Answering
    <2>3. /\ k - 1 \in 0 .. Len(Stream[Me]) /\ BuffersFrom(conn, k - 1, read)
          /\ Serving - 1 = k - 1
      BY <2>1, <2>2 DEF Answering, BuffersFrom, Serving
    <2> QED BY <1>1, <2>3
  <1>5. CASE srv = "closed"
    BY <1>5 DEF Situation
  <1> QED BY <1>2, <1>3, <1>4, <1>5 DEF TypeOK

IInv == TypeOK /\ Situation

\* What arithmetic needs to know of the counters.
LEMMA InvNumbers ==
    TypeOK => /\ sent \in Nat /\ read \in Nat /\ Total(Me) \in Nat
              /\ read <= sent /\ sent <= Total(Me)
              /\ Len(Stream[Me]) \in Nat /\ RespLen \in Nat \ {0}
  BY StreamFacts, CapAssumption DEF TypeOK, Total

\* An open connection may be closed from any situation, by any path that keeps
\* its buffer: while the close is under way it still holds only unread bytes.
LEMMA CloseKeeps ==
    ASSUME IInv, srv = "open", NEW c \in ConnRecord, Close(c), c.live,
           c.buf = conn.buf, c.resp = conn.resp,
           UNCHANGED <<sent, read, ended>>,
           got' \in [req : 0 .. Len(Stream[Me]), unit : 1 .. RespLen],
           got'.req = got.req \/ conn.resp # NoResponse
    PROVE  IInv'
  <1>1. /\ conn.live /\ read - Len(conn.buf) = EndOf(Me, Serving - 1)
        /\ conn.buf = Bytes(read - Len(conn.buf), read)
    BY SituationUnread DEF IInv, Situation, BufferIsUnread
  <1>2. EmptySlot \in ConnRecord /\ EmptySlot.live = FALSE
    BY EmptySeq DEF EmptySlot, ConnRecord, ConnState, Response, NoResponse
  <1>3. TypeOK'
    BY <1>2 DEF IInv, TypeOK, Close
  <1>4. CASE op' = "close" /\ conn' = c
    <2>1. Serving' = Serving
      BY <1>4 DEF Serving
    <2>2. BufferIsUnread'
      BY <1>1, <1>4, <2>1 DEF BufferIsUnread, Bytes
    <2> QED BY <1>3, <1>4, <2>2 DEF IInv, Situation, Close
  <1>5. CASE op' = "none" /\ conn' = EmptySlot
    <2>1. BufferIsUnread'
      BY <1>2, <1>5 DEF BufferIsUnread
    <2> QED BY <1>3, <1>5, <2>1 DEF IInv, Situation, Close
  <1> QED BY <1>4, <1>5 DEF Close

\* A receive continues the connection from the situation between two requests.
LEMMA RecvCompletesKeeps == IInv /\ RecvCompletes => IInv'
  <1> SUFFICES ASSUME IInv, RecvCompletes  PROVE IInv'
    OBVIOUS
  <1>0. /\ sent \in Nat /\ read \in Nat /\ Total(Me) \in Nat /\ sent <= Total(Me)
        /\ Len(Stream[Me]) \in Nat /\ RespLen \in Nat \ {0}
    BY InvNumbers DEF IInv
  <1> DEFINE k == got.req
  <1>1. PICK n \in 1 .. RecvCap - Len(conn.buf) :
          /\ read + n <= sent /\ read' = read + n
          /\ Continue(OnRecv(conn, Bytes(read, read + n)))
    BY DEF RecvCompletes
  <1> DEFINE h == OnRecv(conn, Bytes(read, read + n))
  <1>2. /\ srv = "open" /\ conn.live /\ Waiting(conn, k, read) /\ got.unit = RespLen
        /\ conn \in ConnRecord /\ k \in 0 .. Len(Stream[Me])
    <2>1. op = "recv"
      BY DEF RecvCompletes
    <2>2. srv = "open"
      BY <2>1 DEF IInv, Situation, TypeOK
    <2> QED BY <2>1, <2>2 DEF IInv, Situation, TypeOK
  <1>3. n \in Nat \ {0} /\ read + n <= Total(Me) /\ read + n \in Nat /\ n <= RecvCap - Len(conn.buf)
    <2>1. Len(conn.buf) = read - EndOf(Me, k) /\ EndOf(Me, k) \in Nat
      <3>1. EndOf(Me, k) \in Nat /\ EndOf(Me, k) <= read /\ conn.buf = Bytes(EndOf(Me, k), read)
        BY <1>2, StreamFacts DEF Waiting, BuffersFrom
      <3> QED BY <3>1, <1>0, BytesType
    <2> QED BY <2>1, <1>0, <1>1, CapAssumption
  <1>4. Proceeds(h, Touch(conn), k, read')
    BY <1>0, <1>1, <1>2, <1>3, OnRecvKeeps
  <1> HIDE DEF h, k
  <1>5. /\ op' = h.io /\ conn' = h.conn /\ srv' = srv
        /\ UNCHANGED <<sent, ended, got>>
    BY <1>1, <1>4 DEF Continue, Proceeds, RecvCompletes, h
  <1>6. TypeOK'
    BY <1>0, <1>1, <1>3, <1>4, <1>5 DEF IInv, TypeOK, Proceeds
  <1>7. /\ conn'.live /\ srv' = "open"
        /\ \/ op' = "recv" /\ Waiting(conn', k, read')
           \/ /\ op' = "send" /\ k + 1 \in Requests
              /\ Answering(conn', k + 1, read') /\ conn'.sendOff = 0
    BY <1>2, <1>4, <1>5 DEF Proceeds
  <1>8. CASE op' = "recv"
    <2>1. Waiting(conn', got'.req, read') /\ got'.unit = RespLen
      BY <1>2, <1>5, <1>7, <1>8 DEF k
    <2> QED BY <1>6, <1>7, <1>8, <2>1 DEF IInv, Situation
  <1>9. CASE op' = "send"
    <2>1. k + 1 \in Requests /\ Answering(conn', k + 1, read') /\ conn'.sendOff = 0
      BY <1>7, <1>9
    <2>2. got' = [req |-> (k + 1) - 1, unit |-> RespLen]
      BY <1>2, <1>5, <1>0 DEF k, IInv, TypeOK
    <2>3. got' = Delivered(conn', k + 1)
      BY <2>1, <2>2 DEF Delivered
    <2> QED BY <1>6, <1>7, <1>9, <2>1, <2>3 DEF IInv, Situation, Requests
  <1> QED BY <1>7, <1>8, <1>9

\* So does a send, from the situation of an answer under way.
LEMMA SendCompletesKeeps == IInv /\ SendCompletes => IInv'
  <1> SUFFICES ASSUME IInv, SendCompletes  PROVE IInv'
    OBVIOUS
  <1>0. /\ sent \in Nat /\ read \in Nat /\ read <= Total(Me)
        /\ Len(Stream[Me]) \in Nat /\ RespLen \in Nat \ {0}
    BY InvNumbers DEF IInv
  <1>1. /\ op = "send" /\ srv = "open" /\ conn.live /\ conn \in ConnRecord
    BY DEF SendCompletes, IInv, Situation, TypeOK
  <1>2. PICK k \in Requests : Answering(conn, k, read) /\ got = Delivered(conn, k)
    BY <1>1 DEF IInv, Situation, Requests
  <1>3. PICK n \in 1 .. conn.sendLen - conn.sendOff :
          /\ got' = Heard(Me, conn, n) /\ Continue(OnSend(conn, n))
    BY DEF SendCompletes
  <1> DEFINE h == OnSend(conn, n)
  <1>4. GoesOn(h, conn, k, read, n)
    BY <1>0, <1>1, <1>2, OnSendKeeps
  <1>5. got' = [req |-> k, unit |-> conn.sendOff + n]
    <2>1. conn.resp = <<Me, k>> /\ NoResponse = << >>
      BY <1>2 DEF Answering, NoResponse
    <2>2. conn.resp # NoResponse /\ conn.resp[1] = Me /\ conn.resp[2] = k
      BY <2>1
    <2> QED BY <1>3, <2>2 DEF Heard
  <1>6. /\ k \in 0 .. Len(Stream[Me]) /\ k \in Nat
        /\ conn.sendOff + n \in 1 .. RespLen /\ conn.sendOff + n # 0
        /\ conn.sendLen = RespLen
    BY <1>0, <1>2, SMTT(30) DEF Answering, Requests
  <1>7. got' \in [req : 0 .. Len(Stream[Me]), unit : 1 .. RespLen]
    BY <1>5, <1>6
  <1>8. Continue(h) /\ UNCHANGED <<sent, read, ended>>
    BY <1>3 DEF SendCompletes
  <1> HIDE DEF h
  <1>9. CASE /\ conn.sendOff + n < RespLen /\ h.io = "send" /\ h.conn \in ConnRecord
             /\ h.conn.live /\ Answering(h.conn, k, read)
             /\ h.conn.sendOff = conn.sendOff + n
    <2>1. op' = "send" /\ conn' = h.conn /\ srv' = "open"
      BY <1>1, <1>8, <1>9 DEF Continue
    <2>2. TypeOK'
      BY <2>1, <1>7, <1>8, <1>9 DEF IInv, TypeOK
    <2>3. got' = Delivered(conn', k)
      BY <2>1, <1>5, <1>6, <1>9 DEF Delivered
    <2>4. Answering(conn', k, read')
      BY <2>1, <1>8, <1>9
    <2> QED BY <1>9, <2>1, <2>2, <2>3, <2>4 DEF IInv, Situation, Requests
  <1>10. CASE /\ h.io = "close" /\ h.conn \in ConnRecord /\ h.conn.live
              /\ h.conn.buf = conn.buf /\ h.conn.resp = conn.resp
    <2>1. Close(h.conn)
      BY <1>8, <1>10 DEF Continue
    <2>2. conn.resp # NoResponse
      BY <1>2 DEF Answering, NoResponse
    <2> QED BY <1>1, <1>7, <1>8, <1>10, <2>1, <2>2, CloseKeeps
  <1>11. CASE conn.sendOff + n = RespLen /\ Proceeds(h, Touch(conn), k, read)
    <2>1. op' = h.io /\ conn' = h.conn /\ srv' = "open" /\ got' = [req |-> k, unit |-> RespLen]
      BY <1>1, <1>5, <1>8, <1>11 DEF Continue, Proceeds
    <2>2. TypeOK'
      BY <2>1, <1>7, <1>8, <1>11 DEF IInv, TypeOK, Proceeds
    <2>3. CASE h.io = "recv" /\ Waiting(h.conn, k, read)
      <3>1. Waiting(conn', got'.req, read') /\ got'.unit = RespLen /\ conn'.live
        BY <2>1, <2>3, <1>8, <1>11 DEF Proceeds
      <3> QED BY <2>1, <2>2, <2>3, <3>1 DEF IInv, Situation
    <2>4. CASE h.io = "send" /\ k + 1 \in Requests /\ Answering(h.conn, k + 1, read)
               /\ h.conn.sendOff = 0
      <3>1. Answering(conn', k + 1, read') /\ conn'.live
        BY <2>1, <2>4, <1>8, <1>11 DEF Proceeds
      <3>2. got' = [req |-> (k + 1) - 1, unit |-> RespLen]
        BY <2>1, <1>6
      <3>3. got' = Delivered(conn', k + 1)
        BY <2>1, <2>4, <3>2 DEF Delivered
      <3> QED BY <2>1, <2>2, <2>4, <3>1, <3>3 DEF IInv, Situation, Requests
    <2> QED BY <1>11, <2>3, <2>4 DEF Proceeds
  <1> QED BY <1>4, <1>9, <1>10, <1>11 DEF GoesOn

\* A connection that nobody has made yet satisfies the invariant.
LEMMA InvInit == Init => IInv
  <1> SUFFICES ASSUME Init PROVE IInv
    OBVIOUS
  <1>1. EmptySlot \in ConnRecord
    BY EmptySeq DEF EmptySlot, ConnRecord, ConnState, Response, NoResponse
  <1>2. /\ Len(Stream[Me]) \in Nat /\ EndOf(Me, Len(Stream[Me])) \in Nat
        /\ RespLen \in Nat \ {0}
    BY StreamFacts, CapAssumption
  <1>3. TypeOK
    BY <1>1, <1>2 DEF Init, TypeOK, Total
  <1> QED BY <1>3 DEF IInv, Situation, Init

\* A new connection waits for the first request with an empty buffer.
LEMMA AcceptKeeps == IInv /\ Accept => IInv'
  <1> SUFFICES ASSUME IInv, Accept PROVE IInv'
    OBVIOUS
  <1> DEFINE c == Emplace(Me)
  <1>1. /\ c \in ConnRecord /\ c.live /\ c.state = "reading" /\ Resting(c) /\ c.buf = << >>
    BY EmptySeq, MeAssumption
    DEF Emplace, EmptySlot, ConnRecord, ConnState, Response, NoResponse, Resting
  <1> HIDE DEF c
  <1>2. /\ Len(Stream[Me]) \in Nat /\ EndOf(Me, 0) = 0
        /\ RespLen \in Nat \ {0} /\ RecvCap \in Nat \ {0}
        /\ read = 0 /\ got = [req |-> 0, unit |-> RespLen]
    BY StreamFacts, CapAssumption DEF IInv, Situation, Accept, EndOf
  <1>3. Bytes(0, 0) = << >>
    <2>1. Bytes(0, 0) \in Seq(Byte) /\ Len(Bytes(0, 0)) = 0
      <3> DEFINE p == 0
      <3>1. p \in Nat /\ p <= p /\ p - p = 0
        OBVIOUS
      <3> HIDE DEF p
      <3>2. Bytes(p, p) \in Seq(Byte) /\ Len(Bytes(p, p)) = 0
        BY <3>1, BytesType
      <3> QED BY <3>2 DEF p
    <2> QED BY <2>1, EmptySeq
  <1>4. ~Promise!Answerable(0 + 1, 0)
    <2> DEFINE k == 0
    <2>1. k \in 0 .. Len(Stream[Me]) /\ EndOf(Me, k) = k
      BY <1>2
    <2> HIDE DEF k
    <2>2. ~Promise!Answerable(k + 1, k)
      BY <2>1, NothingToAnswer
    <2> QED BY <2>2 DEF k
  <1>5. ~Promise!Final(0)
    BY DEF Promise!Final
  <1>6. Len(c.buf) < RecvCap
    BY <1>1, <1>2
  <1>7. BuffersFrom(c, 0, 0)
    BY <1>1, <1>2, <1>3, <1>5 DEF BuffersFrom
  <1>8. Waiting(c, 0, 0)
    BY <1>1, <1>4, <1>6, <1>7 DEF Waiting
  <1>9. /\ conn' = c /\ op' = "recv" /\ srv' = "open" /\ read' = 0
        /\ got' = [req |-> 0, unit |-> RespLen]
        /\ UNCHANGED <<sent, read, ended, got>>
    BY <1>2 DEF Accept, c
  <1>10. TypeOK'
    BY <1>1, <1>9 DEF IInv, TypeOK
  <1>11. Waiting(conn', got'.req, read') /\ got'.unit = RespLen /\ conn'.live
    BY <1>1, <1>8, <1>9
  <1> QED BY <1>9, <1>10, <1>11 DEF IInv, Situation

\* The invariant is inductive: Init establishes it and every step keeps it.
LEMMA InvStep == IInv /\ [Next]_vars => IInv'
  <1> SUFFICES ASSUME IInv, [Next]_vars PROVE IInv'
    OBVIOUS
  <1>0. /\ sent \in Nat /\ read \in Nat /\ read <= sent
        /\ Total(Me) \in Nat /\ sent <= Total(Me)
    BY InvNumbers DEF IInv
  <1>1. CASE Write
    <2>1. sent' \in 0 .. Total(Me) /\ read \in 0 .. sent'
      BY <1>0, <1>1 DEF Write
    <2>2. TypeOK'
      BY <2>1, <1>1 DEF IInv, TypeOK, Write
    <2> QED BY <2>2, <1>1 DEF IInv, Situation, Write, BufferIsUnread, Serving, Bytes, Delivered
  <1>2. CASE Finish
    BY <1>2 DEF IInv, TypeOK, Situation, Finish, BufferIsUnread, Serving, Bytes, Delivered
  <1>3. CASE Reset
    BY <1>3 DEF IInv, TypeOK, Situation, Reset, BufferIsUnread, Serving, Bytes, Delivered
  <1>4. CASE IdleElapses
    <2>1. /\ conn' \in ConnRecord /\ conn'.live = conn.live /\ conn'.state = conn.state
          /\ conn'.buf = conn.buf /\ conn'.resp = conn.resp
          /\ conn'.sendLen = conn.sendLen /\ conn'.sendOff = conn.sendOff
          /\ conn'.consumed = conn.consumed /\ conn'.closeAfter = conn.closeAfter
      BY <1>4 DEF IdleElapses, IInv, TypeOK, ConnRecord
    <2>2. srv = "open" /\ UNCHANGED <<op, sent, read, ended, got, srv>>
      BY <1>4 DEF IdleElapses
    <2>3. TypeOK'
      BY <2>1, <2>2 DEF IInv, TypeOK
    <2>4. CASE op = "recv"
      <3>1. Waiting(conn, got.req, read) /\ got.unit = RespLen
        BY <2>2, <2>4 DEF IInv, Situation
      <3>2. Waiting(conn', got'.req, read')
        BY <2>1, <2>2, <3>1 DEF Waiting, Resting, BuffersFrom
      <3> QED BY <2>1, <2>2, <2>3, <2>4, <3>1, <3>2 DEF IInv, Situation
    <2>5. CASE op # "recv"
      <3>1. PICK k \in Requests : Answering(conn, k, read) /\ got = Delivered(conn, k)
        BY <2>2, <2>5 DEF IInv, Situation, Requests
      <3>2. Answering(conn', k, read')
        BY <2>1, <2>2, <3>1 DEF Answering, BuffersFrom
      <3>3. got' = Delivered(conn', k)
        BY <2>1, <2>2, <3>1 DEF Delivered
      <3> QED BY <2>1, <2>2, <2>3, <2>5, <3>2, <3>3 DEF IInv, Situation, Requests
    <2> QED BY <2>4, <2>5
  <1>5. CASE Accept
    BY <1>5, AcceptKeeps
  <1>6. CASE Refuse
    <2>1. conn.live = FALSE
      BY <1>6 DEF Refuse, IInv, Situation, EmptySlot
    <2> QED BY <2>1, <1>6 DEF Refuse, IInv, TypeOK, Situation, BufferIsUnread
  <1>7. CASE RecvCompletes
    BY <1>7, RecvCompletesKeeps
  <1>8. ASSUME Close(conn), op = "recv" \/ op = "send" \/ srv = "open",
               UNCHANGED <<sent, read, ended, got>>
        PROVE  IInv'
    <2>1. srv = "open" /\ conn.live /\ conn \in ConnRecord
          /\ got \in [req : 0 .. Len(Stream[Me]), unit : 1 .. RespLen]
      BY <1>8 DEF IInv, TypeOK, Situation
    <2> QED BY <2>1, <1>8, CloseKeeps
  <1>9. CASE RecvFails
    BY <1>8, <1>9 DEF RecvFails
  <1>10. CASE SendCompletes
    BY <1>10, SendCompletesKeeps
  <1>11. CASE SendFails
    BY <1>8, <1>11 DEF SendFails
  <1>12. CASE Sweep
    BY <1>8, <1>12 DEF Sweep
  <1>13. CASE CloseCompletes
    <2>1. EmptySlot \in ConnRecord /\ EmptySlot.live = FALSE
      BY EmptySeq DEF EmptySlot, ConnRecord, ConnState, Response, NoResponse
    <2>2. srv = "closed"
      BY <1>13 DEF CloseCompletes, IInv, TypeOK, Situation
    <2> QED BY <2>1, <2>2, <1>13
            DEF CloseCompletes, IInv, TypeOK, Situation, BufferIsUnread
  <1>14. CASE UNCHANGED vars
    BY <1>14 DEF vars, IInv, TypeOK, Situation, BufferIsUnread, Serving, Bytes, Delivered
  <1> QED BY <1>1, <1>2, <1>3, <1>4, <1>5, <1>6, <1>7, <1>9, <1>10, <1>11, <1>12,
             <1>13, <1>14 DEF Next, Environment, Server

-----------------------------------------------------------------------------
(* The theorems.                                                           *)

\* The inductive invariant that all the theorems below follow from: through
\* on_recv, on_send, on_timeout and process_request the connection stays in one
\* of the situations the server means it to be in.
THEOREM Invariance == Spec => []IInv
  BY InvInit, InvStep, PTL DEF Spec

\* Every variable and every field of the connection object keeps its type.
THEOREM TypeCorrect == Spec => []TypeOK
  BY Invariance, PTL DEF IInv

\* However a client cuts its stream into writes and however many requests lie
\* in the buffer at once, the server is between two requests or answering one
\* with the buffer, total_consumed and close_after_send that this calls for.
THEOREM AlwaysInSituation == Spec => []Situation
  BY Invariance, PTL DEF IInv

\* Pipelining: the receive buffer is always exactly the unread rest of the
\* stream, from the request being served to the last byte received.
THEOREM BufferAlwaysUnread == Spec => []BufferIsUnread
  <1>1. IInv => BufferIsUnread
    BY SituationUnread DEF IInv
  <1> QED BY <1>1, Invariance, PTL

\* No receive is started with a full buffer, for every RecvCap.
THEOREM AlwaysRoomToReceive == Spec => []RoomToReceive
  <1>1. IInv => RoomToReceive
    BY DEF IInv, Situation, TypeOK, RoomToReceive, Waiting
  <1> QED BY <1>1, Invariance, PTL

\* What on_timeout relies on: state "reading" means a receive is pending and
\* nothing is being sent.
THEOREM StateAlwaysMatchesOp == Spec => []StateMatchesOp
  <1>1. ASSUME NEW k \in Nat, Answering(conn, k, read)
        PROVE  conn.state = "writing" /\ conn.sendOff < conn.sendLen
    BY <1>1, CapAssumption DEF Answering
  <1>2. IInv => StateMatchesOp
    BY <1>1, StreamFacts DEF IInv, Situation, StateMatchesOp, Waiting, Resting
  <1> QED BY <1>2, Invariance, PTL

-----------------------------------------------------------------------------
(* ConnectionProtocol implements HttpExchange: every step of a connection  *)
(* is a step of the promise made to its client, or changes nothing that    *)
(* the client can tell.                                                    *)


\* Quiet is a truth value.
LEMMA QuietBoolean == Quiet \in BOOLEAN
  BY DEF Quiet

\* What calls for an answer still does when more bytes have come.
LEMMA AnswerableStays ==
    ASSUME NEW k \in Requests, NEW m \in Nat, NEW n \in Nat, m <= n,
           Promise!Answerable(k, m)
    PROVE  Promise!Answerable(k, n)
  <1> DEFINE a == EndOf(Me, k - 1)
             z == Size(Me, k)
             r == Stream[Me][k]
  <1>1. Len(Stream[Me]) \in Nat /\ r.hdr \in Nat /\ z \in Nat
    BY StreamFacts
  <1>2. k \in Nat /\ k - 1 \in 0 .. Len(Stream[Me])
    BY <1>1 DEF Requests
  <1>3. a \in Nat
    BY <1>2, StreamFacts
  <1>4. ASSUME NEW q \in Nat
        PROVE  Promise!Answerable(k, q) <=>
                  /\ k <= Len(Stream[Me])
                  /\ \/ q - a >= z
                     \/ q - a >= RecvCap
                     \/ q - a >= r.hdr /\ r.kind \in {"malformed", "tooLarge"}
    BY DEF Promise!Answerable, Promise!Size, Promise!EndOf, Size, EndOf
  <1> HIDE DEF a, z, r
  <1> QED BY <1>1, <1>3, <1>4, CapAssumption

\* A completed receive resets the idle clock, which the client cannot tell.
LEMMA RecvImplements ==
    IInv /\ RecvCompletes => Promise!TimePasses \/ UNCHANGED Promise!vars
  <1> SUFFICES ASSUME IInv, RecvCompletes
               PROVE  Promise!TimePasses \/ UNCHANGED Promise!vars
    OBVIOUS
  <1>1. PICK n \in 1 .. RecvCap - Len(conn.buf) :
          /\ read + n <= sent /\ read' = read + n
          /\ Continue(OnRecv(conn, Bytes(read, read + n)))
    BY DEF RecvCompletes
  <1> DEFINE h == OnRecv(conn, Bytes(read, read + n))
  <1>2. /\ srv = "open" /\ conn.live /\ Waiting(conn, got.req, read)
        /\ conn \in ConnRecord /\ got.req \in 0 .. Len(Stream[Me])
    <2>1. op = "recv"
      BY DEF RecvCompletes
    <2>2. srv = "open"
      BY <2>1 DEF IInv, Situation, TypeOK
    <2> QED BY <2>1, <2>2 DEF IInv, Situation, TypeOK
  <1>3. /\ read \in Nat /\ n \in Nat \ {0} /\ read + n <= Total(Me)
        /\ n <= RecvCap - Len(conn.buf)
    <2>1. EndOf(Me, got.req) \in Nat /\ EndOf(Me, got.req) <= read
          /\ conn.buf = Bytes(EndOf(Me, got.req), read) /\ read \in Nat
      BY <1>2, StreamFacts, InvNumbers DEF Waiting, BuffersFrom, IInv
    <2>2. Len(conn.buf) \in Nat
      BY <2>1, BytesType
    <2> QED BY <2>1, <2>2, <1>1, InvNumbers, CapAssumption DEF IInv
  <1>4. Proceeds(h, Touch(conn), got.req, read')
    BY <1>1, <1>2, <1>3, OnRecvKeeps
  <1> HIDE DEF h
  <1>5. /\ conn' = h.conn /\ srv' = "open" /\ UNCHANGED <<sent, ended, got>>
    BY <1>1, <1>2, <1>4 DEF Continue, Proceeds, RecvCompletes, h
  <1>6. conn'.idle = FALSE
    BY <1>2, <1>4, <1>5 DEF Proceeds, Touch, ConnRecord
  <1>7. Quiet' = FALSE
    BY <1>6 DEF Quiet
  <1>8. CASE Quiet
    <2>1. Quiet' = ~Quiet
      BY <1>7, <1>8
    <2> QED BY <2>1, <1>2, <1>5 DEF Promise!TimePasses
  <1>9. CASE ~Quiet
    <2>1. Quiet' = Quiet
      BY <1>7, <1>9, QuietBoolean
    <2> QED BY <2>1, <1>2, <1>5 DEF Promise!vars
  <1> QED BY <1>8, <1>9

\* A completed send goes on with a response that was called for, and closes
\* the connection exactly behind the last unit of a final one.
LEMMA SendImplements == IInv /\ SendCompletes => Promise!Respond
  <1> SUFFICES ASSUME IInv, SendCompletes PROVE Promise!Respond
    OBVIOUS
  <1>0. /\ sent \in Nat /\ read \in Nat /\ read <= sent /\ read <= Total(Me)
        /\ Len(Stream[Me]) \in Nat /\ RespLen \in Nat \ {0}
    BY InvNumbers DEF IInv
  <1>1. op = "send" /\ srv = "open" /\ conn.live /\ conn \in ConnRecord
    BY DEF SendCompletes, IInv, Situation, TypeOK
  <1>2. PICK k \in Requests : Answering(conn, k, read) /\ got = Delivered(conn, k)
    BY <1>1 DEF IInv, Situation, Requests
  <1>3. PICK n \in 1 .. conn.sendLen - conn.sendOff :
          got' = Heard(Me, conn, n) /\ Continue(OnSend(conn, n))
    BY DEF SendCompletes
  <1> DEFINE h == OnSend(conn, n)
  <1>4. GoesOn(h, conn, k, read, n)
    BY <1>0, <1>1, <1>2, OnSendKeeps
  <1>5. got' = [req |-> k, unit |-> conn.sendOff + n]
    <2>1. conn.resp = <<Me, k>> /\ NoResponse = << >>
      BY <1>2 DEF Answering, NoResponse
    <2>2. conn.resp # NoResponse /\ conn.resp[1] = Me /\ conn.resp[2] = k
      BY <2>1
    <2> QED BY <1>3, <2>2 DEF Heard
  <1>6. /\ conn.sendOff \in 0 .. RespLen - 1 /\ conn.sendLen = RespLen /\ k \in Nat
        /\ n \in 1 .. RespLen /\ conn.sendOff + n <= RespLen
        /\ conn.closeAfter = Promise!Final(k) /\ ~Promise!Final(k - 1)
        /\ Promise!Answerable(k, read)
    BY <1>0, <1>2 DEF Answering, BuffersFrom, Requests
  <1>7. Promise!Answerable(k, sent)
    BY <1>0, <1>6, AnswerableStays
  <1>8. \E m \in 1 .. RespLen :
           \/ /\ Promise!Whole(got) /\ ~Promise!Final(got.req)
              /\ Promise!Answerable(got.req + 1, sent)
              /\ got' = [req |-> got.req + 1, unit |-> m]
           \/ got.unit + m <= RespLen /\ got' = [got EXCEPT !.unit = @ + m]
    <2>1. CASE conn.sendOff = 0
      <3>1. got.req = k - 1 /\ got.unit = RespLen /\ (k - 1) + 1 = k
        BY <2>1, <1>2, <1>6 DEF Delivered
      <3>2. got' = [req |-> got.req + 1, unit |-> n]
        BY <2>1, <3>1, <1>5, <1>6
      <3> QED BY <3>1, <3>2, <1>6, <1>7 DEF Promise!Whole
    <2>2. CASE conn.sendOff # 0
      <3>1. got = [req |-> k, unit |-> conn.sendOff]
        BY <2>2, <1>2 DEF Delivered
      <3> QED BY <3>1, <1>5, <1>6
    <2> QED BY <2>1, <2>2
  <1>9. Continue(h) /\ UNCHANGED <<sent, ended>>
    BY <1>3 DEF SendCompletes
  <1>10. Promise!Whole(got') /\ Promise!Final(got'.req) <=>
            conn.sendOff + n = RespLen /\ conn.closeAfter
    BY <1>5, <1>6 DEF Promise!Whole
  <1> HIDE DEF h
  <1>11. CASE conn.sendOff + n = RespLen /\ conn.closeAfter
    <2>1. h.io = "close"
      BY <1>4, <1>6, <1>11 DEF GoesOn
    <2>2. srv' = "closed"
      BY <2>1, <1>9 DEF Continue, Close
    <2>3. Quiet' = FALSE
      BY <2>2 DEF Quiet
    <2> QED BY <1>1, <1>8, <1>9, <1>10, <1>11, <2>2, <2>3 DEF Promise!Respond
  <1>12. CASE ~(conn.sendOff + n = RespLen /\ conn.closeAfter)
    <2>1. h.io # "close" /\ h.conn.idle \in {conn.idle, FALSE}
      BY <1>1, <1>4, <1>12 DEF GoesOn, Proceeds, Touch, ConnRecord
    <2>2. srv' = "open" /\ conn' = h.conn
      BY <2>1, <1>1, <1>9 DEF Continue
    <2>3. Quiet' \in {Quiet, FALSE}
      <3>1. CASE h.conn.idle = conn.idle
        <4>1. Quiet' = Quiet
          BY <3>1, <2>2, <1>1 DEF Quiet
        <4> QED BY <4>1
      <3>2. CASE h.conn.idle = FALSE
        <4>1. Quiet' = FALSE
          BY <3>2, <2>2 DEF Quiet
        <4> QED BY <4>1
      <3> QED BY <2>1, <3>1, <3>2
    <2> QED BY <1>1, <1>8, <1>9, <1>10, <1>12, <2>2, <2>3 DEF Promise!Respond
  <1> QED BY <1>11, <1>12

\* The closes that no final response asks for: there is always an occasion.
LEMMA HangUpImplements ==
    IInv /\ (RecvFails \/ SendFails \/ Sweep) => Promise!HangUp
  <1> SUFFICES ASSUME IInv, RecvFails \/ SendFails \/ Sweep PROVE Promise!HangUp
    OBVIOUS
  <1>1. /\ srv = "open" /\ srv' = "closed" /\ UNCHANGED <<sent, ended, got>>
    BY DEF RecvFails, SendFails, Sweep, Close, IInv, TypeOK, Situation
  <1>2. Quiet' = FALSE
    BY <1>1 DEF Quiet
  <1>3. op = "recv" =>
          got.unit = RespLen /\ ~Promise!Answerable(got.req + 1, read)
    BY <1>1 DEF IInv, Situation, Waiting
  <1>4. conn.state = "reading" => op = "recv"
    BY <1>1 DEF IInv, Situation, Answering
  <1>5. \/ ended = "fin" /\ got.unit = RespLen /\ ~Promise!Answerable(got.req + 1, sent)
        \/ Quiet /\ got.unit = RespLen
        \/ ended = "rst"
    BY <1>1, <1>3, <1>4 DEF RecvFails, SendFails, Sweep, Sweepable, Quiet
  <1> QED BY <1>1, <1>2, <1>5 DEF Promise!HangUp, Promise!Whole

\* Every step of the connection is a step of the promise, or a stutter.
LEMMA StepImplements == IInv /\ [Next]_vars => [Promise!Next]_Promise!vars
  <1> SUFFICES ASSUME IInv, [Next]_vars
               PROVE  Promise!Next \/ UNCHANGED Promise!vars
    OBVIOUS
  <1>1. CASE Write
    <2>1. Quiet' = Quiet
      BY <1>1 DEF Write, Quiet
    <2> QED BY <1>1, <2>1 DEF Write, Promise!Next, Promise!Write, Promise!Total,
               Promise!EndOf, Total, EndOf
  <1>2. CASE Finish
    <2>1. Quiet' = Quiet
      BY <1>2 DEF Finish, Quiet
    <2> QED BY <1>2, <2>1 DEF Finish, Promise!Next, Promise!Finish
  <1>3. CASE Reset
    <2>1. Quiet' = Quiet
      BY <1>3 DEF Reset, Quiet
    <2> QED BY <1>3, <2>1 DEF Reset, Promise!Next, Promise!Reset
  <1>4. CASE IdleElapses
    <2>1. conn'.idle = TRUE /\ ~conn.idle
      BY <1>4 DEF IdleElapses, IInv, TypeOK, ConnRecord
    <2>2. Quiet' = ~Quiet
      BY <1>4, <2>1 DEF IdleElapses, Quiet
    <2> QED BY <1>4, <2>2 DEF IdleElapses, Promise!Next, Promise!TimePasses
  <1>5. CASE Accept
    <2>1. Quiet' = Quiet
      BY <1>5 DEF Accept, Quiet, Emplace, EmptySlot
    <2> QED BY <1>5, <2>1 DEF Accept, Promise!Next, Promise!Accept
  <1>6. CASE Refuse
    <2>1. Quiet' = Quiet
      BY <1>6 DEF Refuse, Quiet
    <2> QED BY <1>6, <2>1 DEF Refuse, Promise!Next, Promise!Refuse
  <1>7. CASE RecvCompletes
    BY <1>7, RecvImplements DEF Promise!Next
  <1>8. CASE SendCompletes
    BY <1>8, SendImplements DEF Promise!Next
  <1>9. CASE RecvFails \/ SendFails \/ Sweep
    BY <1>9, HangUpImplements DEF Promise!Next
  <1>10. CASE CloseCompletes
    <2>1. srv = "closed" /\ srv' = "closed"
      BY <1>10 DEF CloseCompletes, IInv, TypeOK, Situation
    <2>2. Quiet' = Quiet
      BY <2>1 DEF Quiet
    <2> QED BY <1>10, <2>2 DEF CloseCompletes, Promise!vars
  <1>11. CASE UNCHANGED vars
    BY <1>11 DEF vars, Promise!vars, Quiet
  <1> QED BY <1>1, <1>2, <1>3, <1>4, <1>5, <1>6, <1>7, <1>8, <1>9, <1>10, <1>11
          DEF Next, Environment, Server

\* Whatever the client writes, and whenever it finishes, resets or falls
\* silent, a connection gives it whole responses in the order of its requests,
\* nothing behind a final one, and hangs up only on the four occasions due.
THEOREM Implements == Spec => KeepsPromise
  <1>1. Init => Promise!Init
    <2>1. ASSUME Init PROVE Quiet = FALSE
      BY <2>1 DEF Init, Quiet
    <2> QED BY <2>1 DEF Init, Promise!Init
  <1> QED BY <1>1, StepImplements, Invariance, PTL DEF Spec, KeepsPromise, Promise!Spec
===============================================================================
