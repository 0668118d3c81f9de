---------------------------- MODULE ServerLoopProofs ----------------------------
(***************************************************************************)
(* What the proofs about the backends rest on.  The handlers of EventLoop, *)
(* given any connection object that is well formed, keep it well formed,   *)
(* never take it for another client's, and start next what has something   *)
(* to do.  The free list of ServerLoop gives each slot out once.           *)
(***************************************************************************)
EXTENDS ServerLoop, FiniteSetTheorems, TLAPS

\* A connection object with its lengths in order
Sound(c) == /\ c \in ConnRecord /\ Len(c.buf) <= RecvCap
            /\ c.sendLen \in {0, RespLen} /\ c.sendOff <= c.sendLen

\* The handler gave c back as the same connection, and what it starts can go on:
\* a receive has room, a send has something to send.
Serves(handled, c) ==
    /\ Sound(handled.conn) /\ handled.conn.live = c.live /\ handled.conn.sock = c.sock
    /\ handled.io \in {"recv", "send", "close"}
    /\ handled.io = "recv" => /\ handled.conn.state = "reading"
                              /\ Len(handled.conn.buf) < RecvCap
    /\ handled.io = "send" => /\ handled.conn.state = "writing"
                              /\ handled.conn.sendOff < handled.conn.sendLen
    /\ handled.io = "close" => handled.conn.state # "reading"
    /\ handled.conn.idle => c.idle

-----------------------------------------------------------------------------
\* An element of a sequence.
LEMMA ElementOf ==
    ASSUME NEW S, NEW s \in Seq(S), NEW j \in 1 .. Len(s)
    PROVE  s[j] \in S
  OBVIOUS

\* The requests of a stream are not empty.
LEMMA SizeType ==
    ASSUME NEW cl \in Clients, NEW k \in 1 .. Len(Stream[cl])
    PROVE  Size(cl, k) \in Nat \ {0}
  <1>1. Len(Stream[cl]) \in Nat /\ k \in Nat
    BY StreamAssumption
  <1>2. \A j \in 0 .. Len(Stream[cl]) : EndOf(cl, j) \in Nat
    <2> TAKE j \in 0 .. Len(Stream[cl])
    <2>1. CASE j = 0
      BY <2>1 DEF EndOf
    <2>2. CASE j # 0
      <3>1. j \in 1 .. Len(Stream[cl])
        BY <1>1, <2>2
      <3>2. Stream[cl][j] \in [hdr : Nat \ {0}, last : Nat \ {0}, kind : Kinds]
        <4>1. Stream[cl] \in Seq([hdr : Nat \ {0}, last : Nat \ {0}, kind : Kinds])
          BY StreamAssumption
        <4> QED BY <3>1, <4>1, ElementOf, Zenon
      <3> QED BY <2>2, <3>2 DEF EndOf
    <2> QED BY <2>1, <2>2
  <1>3. k - 1 \in 0 .. Len(Stream[cl]) /\ k \in 0 .. Len(Stream[cl]) /\ k - 1 < k
    BY <1>1
  <1>4. EndOf(cl, k - 1) < EndOf(cl, k)
    BY <1>3, StreamAssumption
  <1>5. EndOf(cl, k - 1) \in Nat /\ EndOf(cl, k) \in Nat
    BY <1>2, <1>3
  <1> QED BY <1>4, <1>5 DEF Size

\* The response to a buffer is one to a request of the client whose bytes it
\* holds, or to none.
LEMMA AnswerType ==
    ASSUME NEW buf \in Seq(Byte), buf # << >>
    PROVE  /\ Answer(buf) \in Response
           /\ Framed(buf) => /\ Answer(buf) # NoResponse
                             /\ Answer(buf)[1] \in Clients
                             /\ Answer(buf)[2] \in 1 .. Len(Stream[Answer(buf)[1]])
  <1>1. buf[1] \in Byte /\ buf[1][1] \in Clients
    BY DEF Byte
  <1>2. CASE Framed(buf)
    <2>1. RequestIn(buf) \in 1 .. Len(Stream[buf[1][1]])
      BY <1>2 DEF Framed, RequestIn, StartsAt
    <2>2. Len(Stream[buf[1][1]]) \in Nat
      BY <1>1, StreamAssumption
    <2> QED BY <1>1, <1>2, <2>1, <2>2 DEF Answer, Response, NoResponse
  <1>3. CASE ~Framed(buf)
    BY <1>3 DEF Answer, NoResponse, Response
  <1> QED BY <1>2, <1>3

\* An error response ends the connection, in good order.
LEMMA ErrorServes ==
    ASSUME NEW c, Sound(c), NEW r \in Response
    PROVE  Serves(SendErrorResponse(c, r), c)
  <1> DEFINE d == SetSend(c, r)
             e == [d EXCEPT !.closeAfter = TRUE, !.state = "writing"]
  <1>0. RespLen \in Nat \ {0} /\ RecvCap \in Nat \ {0}
    BY CapAssumption
  <1>1. /\ d \in ConnRecord /\ d.sendLen = RespLen /\ d.sendOff = 0 /\ d.live = c.live
        /\ d.buf = c.buf /\ d.sock = c.sock /\ d.idle = c.idle
    BY <1>0 DEF Sound, SetSend, ConnRecord
  <1> HIDE DEF d
  <1>2. /\ e \in ConnRecord /\ e.sendLen = RespLen /\ e.sendOff = 0 /\ e.live = c.live
        /\ e.buf = c.buf /\ e.sock = c.sock /\ e.idle = c.idle /\ e.state = "writing"
    BY <1>1 DEF ConnRecord, ConnState
  <1>3. SendErrorResponse(c, r).conn = e /\ SendErrorResponse(c, r).io = "send"
    BY DEF SendErrorResponse, StartSend, d
  <1> HIDE DEF e
  <1> QED BY <1>0, <1>2, <1>3 DEF Sound, Serves

\* process_request over a buffer with something in it.
LEMMA ProcessServes ==
    ASSUME NEW c, Sound(c), c.buf # << >>
    PROVE  Serves(ProcessRequest(c), c)
  <1> DEFINE r == Answer(c.buf)
             result == ParseRequest(c.buf)
  <1>0. RespLen \in Nat \ {0} /\ RecvCap \in Nat \ {0} /\ c \in ConnRecord
        /\ c.buf \in Seq(Byte) /\ Len(c.buf) \in Nat
    BY CapAssumption DEF Sound, ConnRecord
  <1>1. /\ r \in Response
        /\ Framed(c.buf) => /\ r # NoResponse /\ r[1] \in Clients
                            /\ r[2] \in 1 .. Len(Stream[r[1]])
    BY <1>0, AnswerType
  <1>2. CASE result = "incomplete" /\ Len(c.buf) < RecvCap
    <2> DEFINE d == [c EXCEPT !.state = "reading"]
    <2>1. /\ d \in ConnRecord /\ d.sendLen = c.sendLen /\ d.sendOff = c.sendOff
          /\ d.live = c.live /\ d.buf = c.buf /\ d.sock = c.sock /\ d.idle = c.idle
          /\ d.state = "reading"
      BY <1>0 DEF ConnRecord, ConnState
    <2>2. ProcessRequest(c).conn = d /\ ProcessRequest(c).io = "recv"
      BY <1>2 DEF ProcessRequest, StartRecv
    <2> HIDE DEF d
    <2> QED BY <1>2, <2>1, <2>2 DEF Sound, Serves
  <1>3. CASE result \in {"incomplete", "bad_request", "too_large"}
             /\ ~(result = "incomplete" /\ Len(c.buf) < RecvCap)
    <2>1. ProcessRequest(c) = SendErrorResponse(c, r)
      BY <1>3 DEF ProcessRequest
    <2> QED BY <1>1, <2>1, ErrorServes
  <1>4. CASE result \notin {"incomplete", "bad_request", "too_large"}
    <2>1. Framed(c.buf)
      BY <1>4 DEF ParseRequest
    <2>2. Size(r[1], r[2]) \in Nat
      BY <1>1, <2>1, SizeType
    <2> DEFINE d == [c EXCEPT !.consumed = Size(r[1], r[2]), !.closeAfter = (result = "close")]
               e == SetSend(d, r)
               f == [e EXCEPT !.state = "writing"]
    <2>3. /\ d \in ConnRecord /\ d.sendLen = c.sendLen /\ d.sendOff = c.sendOff
          /\ d.live = c.live /\ d.buf = c.buf /\ d.sock = c.sock /\ d.idle = c.idle
      <3>1. (result = "close") \in BOOLEAN
        OBVIOUS
      <3> HIDE DEF result
      <3> QED BY <1>0, <2>2, <3>1 DEF ConnRecord
    <2>4. ProcessRequest(c) = Dispatch(c, result)
      BY <1>4 DEF ProcessRequest
    <2>5. CASE result = "reject"
      <3>1. ProcessRequest(c) = SendErrorResponse(d, r)
        BY <2>4, <2>5 DEF Dispatch
      <3> HIDE DEF d, r
      <3>2. Sound(d)
        BY <2>3 DEF Sound
      <3>3. Serves(SendErrorResponse(d, r), d)
        BY <1>1, <3>2, ErrorServes
      <3> QED BY <2>3, <3>1, <3>3 DEF Serves
    <2>6. CASE result # "reject"
      <3>1. ProcessRequest(c).conn = f /\ ProcessRequest(c).io = "send"
        BY <2>4, <2>6 DEF Dispatch, StartSend
      <3> HIDE DEF d, r
      <3>2. /\ e \in ConnRecord /\ e.sendLen = RespLen /\ e.sendOff = 0 /\ e.live = c.live
            /\ e.buf = c.buf /\ e.sock = c.sock /\ e.idle = c.idle
        BY <1>0, <1>1, <2>3 DEF SetSend, ConnRecord
      <3> HIDE DEF e
      <3>3. /\ f \in ConnRecord /\ f.sendLen = RespLen /\ f.sendOff = 0 /\ f.live = c.live
            /\ f.buf = c.buf /\ f.sock = c.sock /\ f.idle = c.idle /\ f.state = "writing"
        BY <3>2 DEF ConnRecord, ConnState
      <3> HIDE DEF f
      <3> QED BY <1>0, <3>1, <3>3 DEF Sound, Serves
    <2> QED BY <2>5, <2>6
  <1> QED BY <1>2, <1>3, <1>4

\* on_recv with something received that there was room for.
LEMMA OnRecvServes ==
    ASSUME NEW c, Sound(c), NEW bytes \in Seq(Byte), bytes # << >>,
           Len(c.buf) + Len(bytes) <= RecvCap
    PROVE  Serves(OnRecv(c, bytes), c)
  <1> DEFINE t == [c EXCEPT !.idle = FALSE]
             d == [t EXCEPT !.buf = @ \o bytes]
             e == [d EXCEPT !.state = "processing"]
  <1>0. c \in ConnRecord /\ c.buf \in Seq(Byte)
    BY DEF Sound, ConnRecord
  <1>1. /\ c.buf \o bytes \in Seq(Byte) /\ Len(c.buf \o bytes) = Len(c.buf) + Len(bytes)
        /\ Len(bytes) \in Nat \ {0} /\ Len(c.buf) \in Nat
    BY <1>0
  <1>2. /\ t \in ConnRecord /\ t.sendLen = c.sendLen /\ t.sendOff = c.sendOff
        /\ t.live = c.live /\ t.buf = c.buf /\ t.sock = c.sock /\ ~t.idle
    BY <1>0 DEF ConnRecord
  <1> HIDE DEF t
  <1>3. /\ d \in ConnRecord /\ d.sendLen = c.sendLen /\ d.sendOff = c.sendOff
        /\ d.live = c.live /\ d.buf = c.buf \o bytes /\ d.sock = c.sock /\ ~d.idle
    BY <1>1, <1>2 DEF ConnRecord
  <1> HIDE DEF d
  <1>4. /\ e \in ConnRecord /\ e.sendLen = c.sendLen /\ e.sendOff = c.sendOff
        /\ e.live = c.live /\ e.buf = c.buf \o bytes /\ e.sock = c.sock /\ ~e.idle
    BY <1>3 DEF ConnRecord, ConnState
  <1>5. OnRecv(c, bytes) = ProcessRequest(e)
    BY DEF OnRecv, AdvanceRecv, Touch, d, t
  <1> HIDE DEF e
  <1>6. Sound(e) /\ e.buf # << >>
    BY <1>1, <1>4 DEF Sound
  <1>7. Serves(ProcessRequest(e), e)
    BY <1>6, ProcessServes
  <1> QED BY <1>4, <1>5, <1>7 DEF Serves

\* on_send with something sent that there was to send.
LEMMA OnSendServes ==
    ASSUME NEW c, Sound(c), c.state = "writing", NEW n \in Nat \ {0}, n <= c.sendLen - c.sendOff
    PROVE  Serves(OnSend(c, n), c)
  <1> DEFINE d == [c EXCEPT !.sendOff = @ + n]
             rest == IF d.consumed < Len(d.buf) THEN SubSeq(d.buf, d.consumed + 1, Len(d.buf)) ELSE << >>
             x == [d EXCEPT !.state = "reading", !.buf = rest, !.resp = NoResponse, !.sendLen = 0,
                            !.sendOff = 0, !.consumed = 0, !.closeAfter = FALSE]
             e == [x EXCEPT !.idle = FALSE]
             f == [e EXCEPT !.state = "processing"]
  <1>0. /\ c \in ConnRecord /\ c.buf \in Seq(Byte) /\ RespLen \in Nat \ {0}
        /\ RecvCap \in Nat \ {0} /\ c.sendLen \in Nat /\ c.sendOff \in Nat
    BY CapAssumption DEF Sound, ConnRecord
  <1>1. /\ d \in ConnRecord /\ d.sendLen = c.sendLen /\ d.sendOff = c.sendOff + n
        /\ d.live = c.live /\ d.buf = c.buf /\ d.sock = c.sock /\ d.idle = c.idle
        /\ d.state = "writing"
    <2>1. c.sendOff + n \in Nat
      BY <1>0
    <2> QED BY <1>0, <2>1 DEF ConnRecord
  <1>2. d = AdvanceSend(c, n)
    BY DEF AdvanceSend
  <1> HIDE DEF d
  <1>3. d.buf \in Seq(Byte) /\ d.consumed \in Nat
    BY <1>1 DEF ConnRecord
  <1>4. rest \in Seq(Byte) /\ Len(rest) <= Len(c.buf)
    <2>1. CASE d.consumed < Len(d.buf)
      <3>0. Len(d.buf) \in Nat
        BY <1>3
      <3>1. d.consumed + 1 \in 1 .. Len(d.buf)
        BY <1>3, <2>1, <3>0
      <3>4. rest = SubSeq(d.buf, d.consumed + 1, Len(d.buf))
        BY <2>1
      <3>2. SubSeq(d.buf, d.consumed + 1, Len(d.buf)) \in Seq(Byte)
        BY <1>3, <3>0, <3>1
      <3>3. Len(SubSeq(d.buf, d.consumed + 1, Len(d.buf))) = Len(d.buf) - d.consumed
        BY <1>3, <3>0, <3>1
      <3> QED BY <1>1, <1>3, <3>0, <3>4, <3>2, <3>3
    <2>2. CASE ~(d.consumed < Len(d.buf))
      BY <1>0, <2>2
    <2> QED BY <2>1, <2>2
  <1>5. /\ x \in ConnRecord /\ x.sendLen = 0 /\ x.sendOff = 0 /\ x.live = c.live
        /\ x.sock = c.sock /\ x.buf = rest /\ x.state = "reading"
    <2> HIDE DEF rest
    <2> QED BY <1>1, <1>4 DEF ConnRecord, ConnState, Response, NoResponse
  <1>6. e = ResetForNextRequest(d, d.consumed)
    BY DEF ResetForNextRequest, Touch
  <1> HIDE DEF x, rest
  <1>7. /\ e \in ConnRecord /\ e.sendLen = 0 /\ e.sendOff = 0 /\ e.live = c.live
        /\ e.sock = c.sock /\ ~e.idle /\ e.buf = rest /\ e.state = "reading"
    BY <1>5 DEF ConnRecord
  <1> HIDE DEF e
  <1>8. /\ f \in ConnRecord /\ f.sendLen = 0 /\ f.sendOff = 0 /\ f.live = c.live
        /\ f.sock = c.sock /\ ~f.idle /\ f.buf = rest
    BY <1>7 DEF ConnRecord, ConnState
  <1>9. Sound(d) /\ Sound(e) /\ Sound(f)
    BY <1>0, <1>1, <1>4, <1>7, <1>8 DEF Sound
  <1>10. CASE ~SendComplete(d)
    <2>1. OnSend(c, n).conn = d /\ OnSend(c, n).io = "send"
      BY <1>2, <1>10 DEF OnSend, StartSend
    <2>2. d.sendOff < d.sendLen
      BY <1>0, <1>1, <1>10 DEF SendComplete
    <2> QED BY <1>1, <1>9, <2>1, <2>2 DEF Serves
  <1>11. CASE SendComplete(d) /\ d.closeAfter
    <2>1. OnSend(c, n).conn = d /\ OnSend(c, n).io = "close"
      BY <1>2, <1>11 DEF OnSend, StartClose
    <2> QED BY <1>1, <1>9, <2>1 DEF Serves
  <1>12. CASE SendComplete(d) /\ ~d.closeAfter /\ Len(e.buf) > 0
    <2>1. OnSend(c, n) = ProcessRequest(f)
      BY <1>2, <1>6, <1>12 DEF OnSend
    <2>2. f.buf # << >>
      BY <1>4, <1>7, <1>8, <1>12
    <2>3. Serves(ProcessRequest(f), f)
      BY <1>9, <2>2, ProcessServes
    <2> QED BY <1>8, <2>1, <2>3 DEF Serves
  <1>13. CASE SendComplete(d) /\ ~d.closeAfter /\ ~(Len(e.buf) > 0)
    <2>1. OnSend(c, n).conn = e /\ OnSend(c, n).io = "recv"
      BY <1>2, <1>6, <1>13 DEF OnSend, StartRecv
    <2>2. Len(e.buf) < RecvCap
      BY <1>0, <1>4, <1>7, <1>13
    <2> QED BY <1>7, <1>9, <2>1, <2>2 DEF Serves
  <1> QED BY <1>10, <1>11, <1>12, <1>13

-----------------------------------------------------------------------------
(* Slots                                                                   *)

\* The sets of slots are finite.
LEMMA SlotsFinite == IsFiniteSet(Slots) /\ \A ids \in SUBSET Slots : Cardinality(ids) \in Nat
  <1>1. IsFiniteSet(Slots)
    BY LoopAssumption, FS_Interval DEF Slots
  <1>2. \A ids \in SUBSET Slots : IsFiniteSet(ids)
    BY <1>1, FS_Subset
  <1> QED BY <1>1, <1>2, FS_CardinalityType

\* An empty slot, a new connection and a destroyed one are sound.
LEMMA SlotRecords ==
    /\ Sound(EmptySlot) /\ ~EmptySlot.live /\ EmptySlot.buf = << >> /\ ~EmptySlot.idle
    /\ \A cl \in Clients : /\ Sound(Emplace(cl)) /\ Emplace(cl).live /\ Emplace(cl).sock = cl
                           /\ Emplace(cl).buf = << >> /\ ~Emplace(cl).idle
                           /\ Emplace(cl).state = "reading"
    /\ \A c : Sound(c) => /\ Sound(Destroy(c)) /\ ~Destroy(c).live
                          /\ Destroy(c).sock = c.sock
  <1>0. RespLen \in Nat \ {0} /\ RecvCap \in Nat \ {0} /\ << >> \in Seq(Byte) /\ Len(<< >>) = 0
    BY CapAssumption
  <1>1. /\ EmptySlot \in ConnRecord /\ EmptySlot.buf = << >> /\ EmptySlot.sendLen = 0
        /\ EmptySlot.sendOff = 0 /\ ~EmptySlot.live /\ ~EmptySlot.idle
        /\ EmptySlot.state = "reading"
    BY <1>0 DEF EmptySlot, ConnRecord, ConnState, Response, NoResponse
  <1>2. Sound(EmptySlot)
    BY <1>0, <1>1 DEF Sound
  <1>3. ASSUME NEW cl \in Clients
        PROVE  /\ Sound(Emplace(cl)) /\ Emplace(cl).live /\ Emplace(cl).sock = cl
               /\ Emplace(cl).buf = << >> /\ ~Emplace(cl).idle /\ Emplace(cl).state = "reading"
    <2> DEFINE n == [EmptySlot EXCEPT !.live = TRUE, !.sock = cl]
    <2> HIDE DEF EmptySlot
    <2>1. /\ n \in ConnRecord /\ n.buf = << >> /\ n.sendLen = 0 /\ n.sendOff = 0
          /\ n.live /\ ~n.idle /\ n.state = "reading" /\ n.sock = cl
      BY <1>1 DEF ConnRecord
    <2>2. n = Emplace(cl)
      BY DEF Emplace
    <2> HIDE DEF n
    <2> QED BY <1>0, <2>1, <2>2 DEF Sound
  <1>4. ASSUME NEW c, Sound(c)
        PROVE  Sound(Destroy(c)) /\ ~Destroy(c).live /\ Destroy(c).sock = c.sock
    <2> DEFINE d == [c EXCEPT !.live = FALSE]
    <2>1. /\ d \in ConnRecord /\ d.buf = c.buf /\ d.sendLen = c.sendLen /\ d.sendOff = c.sendOff
          /\ ~d.live /\ d.sock = c.sock
      BY <1>4 DEF Sound, ConnRecord
    <2>2. d = Destroy(c)
      BY DEF Destroy
    <2> HIDE DEF d
    <2> QED BY <1>4, <2>1, <2>2 DEF Sound
  <1> QED BY <1>1, <1>2, <1>3, <1>4

\* alloc_conn_id takes a slot that is free off the list.
LEMMA AllocTakes ==
    ASSUME NEW free \in Seq(Slots), IsInjective(free), free # << >>
    PROVE  /\ Last(free) \in ToSet(free) /\ Last(free) \in Slots
           /\ Front(free) \in Seq(Slots) /\ IsInjective(Front(free))
           /\ ToSet(Front(free)) = ToSet(free) \ {Last(free)}
  <1> DEFINE m == Len(free)
             front == Front(free)
  <1>1. m \in Nat \ {0} /\ DOMAIN free = 1 .. m /\ \A i \in 1 .. m : free[i] \in Slots
    OBVIOUS
  <1>2. Last(free) = free[m]
    BY DEF Last
  <1>3. /\ front \in Seq(Slots) /\ DOMAIN front = 1 .. m - 1
        /\ \A i \in 1 .. m - 1 : front[i] = free[i]
    BY <1>1 DEF Front
  <1> HIDE DEF m, front
  <1>4. /\ \A i \in 1 .. m : i \in 1 .. m - 1 \/ i = m
        /\ \A i \in 1 .. m - 1 : i \in 1 .. m /\ i # m
        /\ m \in 1 .. m
    BY <1>1
  <1>5. \A i, j \in 1 .. m : free[i] = free[j] => i = j
    BY <1>1 DEF IsInjective
  <1>6. IsInjective(front)
    BY <1>3, <1>4, <1>5 DEF IsInjective
  <1>7. \A i \in 1 .. m - 1 : free[i] # free[m]
    BY <1>4, <1>5
  <1>8. ToSet(front) = {free[i] : i \in 1 .. m - 1} /\ ToSet(free) = {free[i] : i \in 1 .. m}
    BY <1>1, <1>3 DEF ToSet
  <1>9. ToSet(front) = ToSet(free) \ {free[m]}
    BY <1>4, <1>7, <1>8
  <1>10. free[m] \in ToSet(free) /\ free[m] \in Slots
    BY <1>1, <1>4, <1>8
  <1> QED BY <1>2, <1>3, <1>6, <1>9, <1>10 DEF front

\* One sequence after another.
LEMMA Joined ==
    ASSUME NEW S, NEW s \in Seq(S), NEW t \in Seq(S)
    PROVE  /\ s \o t \in Seq(S) /\ Len(s \o t) = Len(s) + Len(t)
           /\ DOMAIN (s \o t) = 1 .. Len(s) + Len(t)
           /\ \A i \in 1 .. Len(s) : (s \o t)[i] = s[i]
           /\ \A i \in 1 .. Len(t) : (s \o t)[Len(s) + i] = t[i]
  OBVIOUS

\* free_conn_id gives back slots that were not on the list.
LEMMA FreeReturns ==
    ASSUME NEW free \in Seq(Slots), IsInjective(free), NEW ids \in SUBSET Slots,
           ids \cap ToSet(free) = {}, NEW after,
           \E order \in Ascending(ids) : after = free \o order
    PROVE  /\ after \in Seq(Slots) /\ IsInjective(after)
           /\ ToSet(after) = ToSet(free) \cup ids
  <1> DEFINE n == Cardinality(ids)
  <1>a. n \in Nat
    BY SlotsFinite
  <1>b. PICK order \in [1 .. n -> ids] :
           /\ \A i, j \in DOMAIN order : i < j => order[i] < order[j]
           /\ ToSet(order) = ids /\ after = free \o order
    BY DEF Ascending
  <1>c. n \in Nat /\ order \in [1 .. n -> Slots]
    BY <1>a
  <1> HIDE DEF n
  <1> DEFINE both == free \o order
             m == Len(free)
  <1>1. order \in Seq(Slots) /\ Len(order) = n /\ DOMAIN order = 1 .. n
    BY <1>c
  <1>2. m \in Nat /\ DOMAIN free = 1 .. m
    OBVIOUS
  <1>3. both \in Seq(Slots) /\ Len(both) = m + n /\ DOMAIN both = 1 .. m + n
    <2>1. /\ both \in Seq(Slots) /\ Len(both) = Len(free) + Len(order)
          /\ DOMAIN both = 1 .. Len(free) + Len(order)
      BY <1>1, Joined
    <2> QED BY <1>1, <2>1
  <1>4. /\ \A i \in 1 .. m : both[i] = free[i]
        /\ \A i \in 1 .. n : both[m + i] = order[i]
    BY <1>1, Joined
  <1>5. \A i \in 1 .. m + n : i \in 1 .. m \/ (i - m \in 1 .. n /\ i = m + (i - m))
    BY <1>2, <1>a
  <1>6. \A i \in 1 .. n : m + i \in 1 .. m + n
    BY <1>2, <1>a
  <1>7. \A i \in 1 .. m : i \in 1 .. m + n
    BY <1>2, <1>a
  <1> HIDE DEF both, m
  <1>8. \A i, j \in 1 .. n : order[i] = order[j] => i = j
    <2> SUFFICES ASSUME NEW i \in 1 .. n, NEW j \in 1 .. n, order[i] = order[j], i # j PROVE FALSE
      OBVIOUS
    <2>1. order[i] \in Nat /\ order[j] \in Nat
      <3>1. order[i] \in Slots /\ order[j] \in Slots
        BY <1>c
      <3> QED BY <3>1, LoopAssumption DEF Slots
    <2>2. i < j \/ j < i
      BY <1>a
    <2>3. i < j => order[i] < order[j]
      BY <1>1, <1>b
    <2>4. j < i => order[j] < order[i]
      BY <1>1, <1>b
    <2> QED BY <2>1, <2>2, <2>3, <2>4
  <1>9. \A i \in 1 .. m, j \in 1 .. n : free[i] # order[j]
    BY <1>1, <1>2, <1>b DEF ToSet
  <1>10. IsInjective(both)
    <2> SUFFICES ASSUME NEW i \in 1 .. m + n, NEW j \in 1 .. m + n, both[i] = both[j] PROVE i = j
      BY <1>3 DEF IsInjective
    <2>1. CASE i \in 1 .. m /\ j \in 1 .. m
      BY <1>2, <1>4, <2>1 DEF IsInjective
    <2>2. CASE i \in 1 .. m /\ j - m \in 1 .. n /\ j = m + (j - m)
      BY <1>4, <1>9, <2>2
    <2>3. CASE j \in 1 .. m /\ i - m \in 1 .. n /\ i = m + (i - m)
      BY <1>4, <1>9, <2>3
    <2>4. CASE i - m \in 1 .. n /\ i = m + (i - m) /\ j - m \in 1 .. n /\ j = m + (j - m)
      <3>1. order[i - m] = order[j - m]
        BY <1>4, <2>4
      <3>2. i - m = j - m
        BY <1>8, <2>4, <3>1
      <3> QED BY <2>4, <3>2
    <2> QED BY <1>5, <2>1, <2>2, <2>3, <2>4
  <1>11. ToSet(both) = ToSet(free) \cup ids
    <2>1. ToSet(both) \subseteq ToSet(free) \cup ids
      <3> SUFFICES ASSUME NEW i \in 1 .. m + n PROVE both[i] \in ToSet(free) \cup ids
        BY <1>3 DEF ToSet
      <3>1. CASE i \in 1 .. m
        BY <1>2, <1>4, <3>1 DEF ToSet
      <3>2. CASE i - m \in 1 .. n /\ i = m + (i - m)
        BY <1>4, <3>2
      <3> QED BY <1>5, <3>1, <3>2
    <2>2. ToSet(free) \subseteq ToSet(both)
      BY <1>2, <1>3, <1>4, <1>7 DEF ToSet
    <2>3. ids \subseteq ToSet(both)
      <3> SUFFICES ASSUME NEW id \in ids PROVE id \in ToSet(both)
        OBVIOUS
      <3>1. PICK i \in 1 .. n : order[i] = id
        BY <1>1, <1>b DEF ToSet
      <3>2. both[m + i] = id /\ m + i \in 1 .. m + n
        BY <1>4, <1>6, <3>1
      <3> QED BY <1>3, <3>2 DEF ToSet
    <2> QED BY <2>1, <2>2, <2>3
  <1> QED BY <1>3, <1>10, <1>11, <1>b DEF both

================================================================================
