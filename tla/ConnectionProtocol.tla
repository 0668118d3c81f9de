-------------------------- MODULE ConnectionProtocol --------------------------
(***************************************************************************)
(* One connection between the client Me and an event loop, over an ideal   *)
(* backend: exactly one I/O operation of the connection is pending at any  *)
(* time, its completion calls the handler of event_loop.cpp that it is     *)
(* for, and the handler starts the next one.  This is the contract that    *)
(* on_recv, on_send, on_timeout and process_request assume of the three    *)
(* virtual calls start_recv, start_send and start_close, and that          *)
(* EpollLoop and UringLoop are held against.  A backend ends a closing     *)
(* connection either at once (epoll) or when the close completes           *)
(* (io_uring).                                                             *)
(***************************************************************************)
EXTENDS EventLoop

CONSTANTS Me,
          IdleTimeouts   \* whether the idle timeout may elapse

ASSUME MeAssumption == Me \in Clients /\ IdleTimeouts \in BOOLEAN

VARIABLES conn,    \* the connection object of Me
          op,      \* its pending operation: "none", "recv", "send", "close"
          sent,    \* bytes Me has written
          read,    \* of these, bytes received into a buffer
          ended,   \* "no", "fin" or "rst": how Me has ended its side
          got,     \* [req, unit]: the response units handed to Me
          srv      \* "none", "open" or "closed": the server's side

vars == <<conn, op, sent, read, ended, got, srv>>
client == <<sent, ended>>

Init == /\ conn = EmptySlot /\ op = "none"
        /\ sent = 0 /\ read = 0 /\ ended = "no"
        /\ got = [req |-> 0, unit |-> RespLen]
        /\ srv = "none"

-----------------------------------------------------------------------------
(* The client, and time.                                                   *)

Write == /\ ended = "no" /\ sent < Total(Me)
         /\ sent' = sent + 1
         /\ UNCHANGED <<conn, op, read, ended, got, srv>>

Finish == /\ ended = "no" /\ ended' = "fin"
          /\ UNCHANGED <<conn, op, sent, read, got, srv>>

Reset == /\ ended # "rst" /\ ended' = "rst"
         /\ UNCHANGED <<conn, op, sent, read, got, srv>>

IdleElapses ==
    /\ IdleTimeouts
    /\ srv = "open" /\ ~conn.idle
    /\ conn' = [conn EXCEPT !.idle = TRUE]
    /\ UNCHANGED <<op, sent, read, ended, got, srv>>

-----------------------------------------------------------------------------
(* The server.                                                             *)

Accept ==
    /\ srv = "none"
    /\ conn' = Emplace(Me) /\ op' = "recv" /\ srv' = "open"
    /\ UNCHANGED <<sent, read, ended, got>>

\* No slot is free: the accepted socket is closed without a word
Refuse ==
    /\ srv = "none" /\ srv' = "closed"
    /\ UNCHANGED <<conn, op, sent, read, ended, got>>

\* start_close, with the object destroyed at once or when the close completes
Close(c) ==
    /\ srv' = "closed"
    /\ \/ op' = "close" /\ conn' = c
       \/ op' = "none" /\ conn' = EmptySlot

\* Carry out what a handler returned
Continue(handled) ==
    IF handled.io = "close"
    THEN Close(handled.conn)
    ELSE op' = handled.io /\ conn' = handled.conn /\ srv' = srv

\* The bytes of Me's stream after position p, up to position q
Bytes(p, q) == [i \in 1 .. q - p |-> <<Me, p + i>>]

RecvCompletes ==
    /\ op = "recv"
    /\ \E n \in 1 .. RecvCap - Len(conn.buf) :
          /\ read + n <= sent
          /\ read' = read + n
          /\ Continue(OnRecv(conn, Bytes(read, read + n)))
    /\ UNCHANGED <<sent, ended, got>>

\* recv returns 0 when Me has finished and everything is read, an error after
\* a reset; on_recv closes
RecvFails ==
    /\ op = "recv"
    /\ ended = "rst" \/ (ended = "fin" /\ read = sent)
    /\ Close(conn)
    /\ UNCHANGED <<sent, read, ended, got>>

SendCompletes ==
    /\ op = "send"
    /\ \E n \in 1 .. conn.sendLen - conn.sendOff :
          /\ got' = Heard(Me, conn, n)
          /\ Continue(OnSend(conn, n))
    /\ UNCHANGED <<sent, read, ended>>

SendFails ==
    /\ op = "send" /\ ended = "rst"
    /\ Close(conn)
    /\ UNCHANGED <<sent, read, ended, got>>

\* on_timeout reaches this connection
Sweep ==
    /\ srv = "open" /\ Sweepable(conn)
    /\ Close(conn)
    /\ UNCHANGED <<sent, read, ended, got>>

CloseCompletes ==
    /\ op = "close"
    /\ op' = "none" /\ conn' = EmptySlot
    /\ UNCHANGED <<sent, read, ended, got, srv>>

-----------------------------------------------------------------------------
Environment == Write \/ Finish \/ Reset \/ IdleElapses

Server == \/ Accept \/ Refuse \/ RecvCompletes \/ RecvFails
          \/ SendCompletes \/ SendFails \/ Sweep \/ CloseCompletes

Next == Environment \/ Server

Spec == Init /\ [][Next]_vars

-----------------------------------------------------------------------------
(* Properties.                                                             *)

\* Type invariant: every variable, and every field of the connection, keeps
\* its type.
TypeOK ==
    /\ conn \in ConnRecord /\ op \in {"none", "recv", "send", "close"}
    /\ sent \in 0 .. Total(Me) /\ read \in 0 .. sent
    /\ ended \in {"no", "fin", "rst"} /\ srv \in {"none", "open", "closed"}
    /\ got \in [req : 0 .. Len(Stream[Me]), unit : 1 .. RespLen]

\* The request the bytes in the buffer begin with: the one being answered, or
\* the one after the last answered.
Serving == IF conn.resp = NoResponse THEN got.req + 1 ELSE conn.resp[2]

\* The receive buffer is the unread rest of the stream: it begins exactly
\* where the request being served does and runs without gap, repetition or
\* foreign byte to the last byte received.  This is what the memmove of
\* reset_for_next_request and total_consumed must achieve for pipelining.
BufferIsUnread ==
    conn.live =>
        /\ read - Len(conn.buf) = EndOf(Me, Serving - 1)
        /\ conn.buf = Bytes(read - Len(conn.buf), read)

\* A receive is never started with a full buffer: recv with length 0 returns
\* 0, which on_recv takes for the end of the stream.  process_request must
\* answer 431 before it comes to that.
RoomToReceive == op = "recv" => Len(conn.buf) < RecvCap

\* The state tells what is pending, on which on_timeout relies: a connection
\* it may close as idle has an empty send side and waits in a receive.
StateMatchesOp ==
    srv = "open" =>
        /\ conn.live
        /\ conn.state = "reading" => op = "recv" /\ conn.resp = NoResponse
        /\ conn.state # "reading" => op = "send" /\ conn.state = "writing"
                                     /\ conn.sendOff < conn.sendLen

\* The connection implements the promise made to the client: whole responses,
\* in order, each to a request whose bytes have arrived, none after a final
\* one, and no hang-up that is not due.
Quiet == srv = "open" /\ conn.idle

Promise == INSTANCE HttpExchange WITH quiet <- Quiet

KeepsPromise == Promise!Spec

\* The inductive invariant behind both.  Between two requests the connection
\* is at rest and its buffer holds an unanswerable beginning of the next one;
\* while it answers request k the buffer begins with k, and closeAfter and
\* consumed say how to go on.
Resting(c) == /\ c.resp = NoResponse /\ c.sendLen = 0 /\ c.sendOff = 0
              /\ c.consumed = 0 /\ c.closeAfter = FALSE

BuffersFrom(c, k, q) ==
    /\ k \in 0 .. Len(Stream[Me])
    /\ EndOf(Me, k) <= q /\ q - EndOf(Me, k) <= RecvCap
    /\ c.buf = Bytes(EndOf(Me, k), q)
    /\ ~Promise!Final(k)

Waiting(c, k, q) ==
    /\ c.state = "reading" /\ Resting(c) /\ BuffersFrom(c, k, q)
    /\ ~Promise!Answerable(k + 1, q) /\ Len(c.buf) < RecvCap

Answering(c, k, q) ==
    /\ c.state = "writing" /\ c.resp = <<Me, k>> /\ BuffersFrom(c, k - 1, q)
    /\ c.sendLen = RespLen /\ c.sendOff \in 0 .. RespLen - 1
    /\ k \in 1 .. Len(Stream[Me]) /\ Promise!Answerable(k, q)
    /\ c.closeAfter = Promise!Final(k)
    /\ ~c.closeAfter => c.consumed = Size(Me, k) /\ Size(Me, k) <= Len(c.buf)

\* What Me has of the response that c is sending
Delivered(c, k) == IF c.sendOff = 0 THEN [req |-> k - 1, unit |-> RespLen]
                                    ELSE [req |-> k, unit |-> c.sendOff]

\* At every moment the server is in one of these situations.
Situation ==
    /\ srv = "none" => /\ conn = EmptySlot /\ op = "none" /\ read = 0
                       /\ got = [req |-> 0, unit |-> RespLen]
    /\ srv = "open" =>
          /\ conn.live
          /\ \/ op = "recv" /\ Waiting(conn, got.req, read) /\ got.unit = RespLen
             \/ op = "send" /\ \E k \in 1 .. Len(Stream[Me]) :
                                 Answering(conn, k, read) /\ got = Delivered(conn, k)
    /\ srv = "closed" => /\ op \in {"none", "close"}
                         /\ op = "none" => conn = EmptySlot
                         /\ BufferIsUnread

\* Request k is complete and no response before it was final.
Due(k) == Promise!Answerable(k, sent) /\ \A j \in 1 .. k - 1 : ~Promise!Final(j)
=============================================================================
