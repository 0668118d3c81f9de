----------------------------- MODULE Connection -----------------------------
(***************************************************************************)
(* The connection object of src/connection.{h,cpp}: the record every slot  *)
(* of event_loop::connections_ holds, and the operations the event loop    *)
(* calls on it.                                                            *)
(*                                                                         *)
(* The receive buffer is the sequence of the recv_len_ bytes received and  *)
(* not yet consumed.  A byte is the pair <<client, position>>: which       *)
(* client wrote it and where in that client's stream it lies, so a byte    *)
(* that reaches a wrong connection, or out of order, is told apart.  The   *)
(* response in the send buffer is named by the request it answers; its     *)
(* length is RespLen units.  The last-activity time stamp is abstracted to *)
(* idle: the idle timeout has elapsed since touch() was last called.  The  *)
(* fields of a destroyed connection stay in the record (live = FALSE): the *)
(* storage of a std::optional keeps its bytes, and code that dereferences  *)
(* it without asking reads them.                                           *)
(***************************************************************************)
EXTENDS Integers, Sequences

CONSTANTS Clients,   \* the peers; one connection attempt each
          RecvCap,   \* bytes of recv_buf_ (4096 in the code)
          RespLen    \* units of one response in the send buffer

ASSUME CapAssumption == RecvCap \in Nat \ {0} /\ RespLen \in Nat \ {0}

\* conn_state; the code never assigns "closing"
ConnState == {"reading", "processing", "writing", "closing"}

Byte == Clients \X Nat

\* Which request of which client a response answers; None is send_buf_ = nullptr,
\* and also the answer to bytes that are no request of anybody.
Response == (Clients \X Nat) \cup {<<>>}
NoResponse == <<>>

ConnRecord ==
    [live : BOOLEAN, sock : Clients \cup {"none"}, state : ConnState,
     buf : Seq(Byte), resp : Response, sendLen : Nat, sendOff : Nat,
     consumed : Nat, closeAfter : BOOLEAN, idle : BOOLEAN]

\* An empty slot no connection was ever constructed in
EmptySlot ==
    [live |-> FALSE, sock |-> "none", state |-> "reading", buf |-> << >>,
     resp |-> NoResponse, sendLen |-> 0, sendOff |-> 0, consumed |-> 0,
     closeAfter |-> FALSE, idle |-> FALSE]

\* connections_[id].emplace(fd, arena)
Emplace(cl) == [EmptySlot EXCEPT !.live = TRUE, !.sock = cl]

\* connections_[id].reset(): the object ends, its storage keeps its contents
Destroy(c) == [c EXCEPT !.live = FALSE]

Touch(c) == [c EXCEPT !.idle = FALSE]

AdvanceRecv(c, bytes) == [c EXCEPT !.buf = @ \o bytes]

\* Mutant: the length counts a terminating NUL
SetSendWithTerminator(c, r) ==
    [c EXCEPT !.resp = r, !.sendLen = RespLen + 1, !.sendOff = 0]

SetSend(c, r) == [c EXCEPT !.resp = r, !.sendLen = RespLen, !.sendOff = 0]

AdvanceSend(c, n) == [c EXCEPT !.sendOff = @ + n]

SendComplete(c) == c.sendOff >= c.sendLen

\* Mutant: what lies behind the consumed request is dropped
ResetForgetsRest(c, n) ==
    Touch([c EXCEPT !.state = "reading", !.buf = << >>,
                    !.resp = NoResponse, !.sendLen = 0, !.sendOff = 0,
                    !.consumed = 0, !.closeAfter = FALSE])

\* Keep-alive: move what lies behind the consumed request to the front.
ResetForNextRequest(c, n) ==
    Touch([c EXCEPT !.state = "reading",
                    !.buf = IF n < Len(@) THEN SubSeq(@, n + 1, Len(@)) ELSE << >>,
                    !.resp = NoResponse, !.sendLen = 0, !.sendOff = 0,
                    !.consumed = 0, !.closeAfter = FALSE])
=============================================================================
