------------------------------ MODULE EventLoop ------------------------------
(***************************************************************************)
(* The backend-independent part of src/event_loop.cpp: what on_recv,       *)
(* on_send, on_timeout and process_request do to one connection, and which *)
(* I/O they start next.  Each handler is an operator returning the         *)
(* connection after it and the virtual call it ends with: "recv"           *)
(* (start_recv), "send" (start_send) or "close" (start_close); flush_io    *)
(* always follows.  The backends (EpollLoop, UringLoop) and the            *)
(* per-connection protocol (ConnectionProtocol) are built from these.      *)
(*                                                                         *)
(* A client's byte stream is given as a constant: Stream[cl] is the        *)
(* sequence of requests it would send.  Request k ends at position last;   *)
(* its first hdr bytes are what the parser needs before it can tell the    *)
(* kind:                                                                   *)
(*   "keep"       complete, answered by a handler, connection kept         *)
(*   "close"      complete, answered, Connection: close or HTTP/1.0        *)
(*   "reject"     complete, but answered by send_error_response (no Host,  *)
(*                unknown method, bad path, no route, handler threw)       *)
(*   "malformed"  parse_request returns bad_request                        *)
(*   "tooLarge"   Content-Length above max_body_size                       *)
(* A request longer than RecvCap is answered 431 once the buffer is full.  *)
(***************************************************************************)
EXTENDS Connection

CONSTANT Stream

Kinds == {"keep", "close", "reject", "malformed", "tooLarge"}

\* Where the k-th request of cl ends; the first one starts after position 0.
EndOf(cl, k) == IF k = 0 THEN 0 ELSE Stream[cl][k].last

ASSUME StreamAssumption ==
    \A cl \in Clients :
        /\ Stream[cl] \in Seq([hdr : Nat \ {0}, last : Nat \ {0}, kind : Kinds])
        /\ \A j, k \in 0 .. Len(Stream[cl]) : j < k => EndOf(cl, j) < EndOf(cl, k)
        /\ \A k \in 1 .. Len(Stream[cl]) :
              Stream[cl][k].hdr <= EndOf(cl, k) - EndOf(cl, k - 1)

Size(cl, k) == EndOf(cl, k) - EndOf(cl, k - 1)
Total(cl)   == EndOf(cl, Len(Stream[cl]))

-----------------------------------------------------------------------------
(* parse_request over the bytes of a receive buffer.                       *)

\* The requests of the stream that begin exactly where the buffer does
StartsAt(buf) ==
    {k \in 1 .. Len(Stream[buf[1][1]]) : EndOf(buf[1][1], k - 1) = buf[1][2] - 1}

\* The buffer is an unbroken piece of one stream that begins with a request;
\* anything else is bytes that make no request.
Framed(buf) ==
    /\ \A i \in 1 .. Len(buf) : buf[i] = <<buf[1][1], buf[1][2] + i - 1>>
    /\ StartsAt(buf) # {}

RequestIn(buf) == CHOOSE k \in StartsAt(buf) : TRUE

\* The response a buffer calls for: to its first request
Answer(buf) == IF Framed(buf) THEN <<buf[1][1], RequestIn(buf)>> ELSE NoResponse

ParseRequest(buf) ==
    LET cl == buf[1][1]
        k  == RequestIn(buf)
        r  == Stream[cl][k]
    IN  IF ~Framed(buf)               THEN "bad_request"
        ELSE IF Len(buf) < r.hdr        THEN "incomplete"
        ELSE IF r.kind = "malformed"    THEN "bad_request"
        ELSE IF r.kind = "tooLarge"     THEN "too_large"
        ELSE IF Len(buf) < Size(cl, k) THEN "incomplete"
        ELSE r.kind

-----------------------------------------------------------------------------
(* The handlers.                                                           *)

StartRecv(c)  == [conn |-> c, io |-> "recv"]
StartSend(c)  == [conn |-> c, io |-> "send"]
StartClose(c) == [conn |-> c, io |-> "close"]

\* Mutant: an error response keeps the connection
SendErrorKeepsAlive(c, r) ==
    StartSend([SetSend(c, r) EXCEPT !.state = "writing"])

SendErrorResponse(c, r) ==
    StartSend([SetSend(c, r) EXCEPT !.closeAfter = TRUE, !.state = "writing"])

\* A complete request that passed the parser: c knows what it consumed and
\* whether the connection ends with it; then either a handler answers it or
\* one of the checks refuses it.
Dispatch(c, kind) ==
    LET r == Answer(c.buf)
        d == [c EXCEPT !.consumed = Size(r[1], r[2]), !.closeAfter = (kind = "close")]
    IN  IF kind = "reject"
        THEN SendErrorResponse(d, r)
        ELSE StartSend([SetSend(d, r) EXCEPT !.state = "writing"])

\* Mutant: an incomplete request is waited for with a full buffer too
ProcessRequestOverfills(c) ==
    LET result == ParseRequest(c.buf)
    IN  IF result = "incomplete"
        THEN StartRecv([c EXCEPT !.state = "reading"])
        ELSE IF result \in {"bad_request", "too_large"}
        THEN SendErrorResponse(c, Answer(c.buf))
        ELSE Dispatch(c, result)

\* Mutant: the state stays "processing" while more is waited for
ProcessRequestForgetsState(c) ==
    LET result == ParseRequest(c.buf)
    IN  IF result = "incomplete" /\ Len(c.buf) < RecvCap
        THEN StartRecv(c)
        ELSE IF result \in {"incomplete", "bad_request", "too_large"}
        THEN SendErrorResponse(c, Answer(c.buf))
        ELSE Dispatch(c, result)

ProcessRequest(c) ==
    LET result == ParseRequest(c.buf)
    IN  IF result = "incomplete" /\ Len(c.buf) < RecvCap
        THEN StartRecv([c EXCEPT !.state = "reading"])
        ELSE IF result \in {"incomplete", "bad_request", "too_large"}  \* 431, 400, 413
        THEN SendErrorResponse(c, Answer(c.buf))
        ELSE Dispatch(c, result)

\* res > 0; a result <= 0 starts the close at once and changes nothing else
OnRecv(c, bytes) ==
    ProcessRequest([AdvanceRecv(Touch(c), bytes) EXCEPT !.state = "processing"])

\* Mutant: close_after_send is not looked at
OnSendKeepsAlive(c, n) ==
    LET d == AdvanceSend(c, n)
        e == ResetForNextRequest(d, d.consumed)
    IN  IF ~SendComplete(d)      THEN StartSend(d)
        ELSE IF Len(e.buf) > 0 THEN ProcessRequest([e EXCEPT !.state = "processing"])
        ELSE StartRecv(e)

\* Mutant: a pipelined request is left until more bytes arrive
OnSendForgetsPipeline(c, n) ==
    LET d == AdvanceSend(c, n)
    IN  IF ~SendComplete(d)  THEN StartSend(d)
        ELSE IF d.closeAfter  THEN StartClose(d)
        ELSE StartRecv(ResetForNextRequest(d, d.consumed))

OnSend(c, n) ==
    LET d == AdvanceSend(c, n)
        e == ResetForNextRequest(d, d.consumed)
    IN  IF ~SendComplete(d)  THEN StartSend(d)
        ELSE IF d.closeAfter  THEN StartClose(d)
        ELSE IF Len(e.buf) > 0 THEN ProcessRequest([e EXCEPT !.state = "processing"])
        ELSE StartRecv(e)

\* What the client at the other end has after n more units of c's send buffer:
\* the response it belongs to (0: none of its own) and how much of it
Heard(cl, c, n) ==
    [req |-> IF c.resp # NoResponse /\ c.resp[1] = cl THEN c.resp[2] ELSE 0,
     unit |-> c.sendOff + n]

\* What on_timeout closes: connections waiting for a request, for too long
Sweepable(c) == c.live /\ c.state = "reading" /\ c.idle
=============================================================================
