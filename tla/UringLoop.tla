------------------------------ MODULE UringLoop ------------------------------
(***************************************************************************)
(* The io_uring backend, src/uring_loop.{h,cpp}: the thread queues         *)
(* operations, the kernel completes them in any order, and the thread      *)
(* handles one completion after the other.                                 *)
(*                                                                         *)
(* The user data of an operation is not the operation: it points to the    *)
(* one entry event_store_ has per connection number, and what a completion *)
(* is taken for is what that entry says when the completion is handled.    *)
(* Operations and completions here carry what they really were (op, sock), *)
(* which the code never sees.                                              *)
(*                                                                         *)
(* Without SQPOLL io_uring_submit hands the queue to the kernel before it  *)
(* returns, so no queue outlives a handler and acquire_sqe cannot fail.    *)
(* With SQPOLL a kernel thread empties the queue in its own time, and      *)
(* acquire_sqe fails as long as the queue is full.                         *)
(***************************************************************************)
EXTENDS ServerLoop

CONSTANTS SqPolls,  \* {FALSE}, and TRUE if config_.sqpoll == on: the kernel may refuse
          SqCap     \* entries of the submission queue (256 in the code)

\* No client goes by the name that stands for no socket.
ASSUME SocketAssumption == "none" \notin Clients

VARIABLES sqPoll,      \* the ring was set up with IORING_SETUP_SQPOLL
          eventStore,  \* eventStore[id]: type of event_store_[id]
          sq,          \* entries not yet taken by the kernel (SQPOLL)
          inflight,    \* operations the kernel has and has not completed
          cq,          \* completions not yet handled
          taken        \* taken[cl]: bytes of cl the kernel moved to a buffer

ringVars == <<sqPoll, eventStore, sq, inflight, cq, taken>>
vars == <<loopVars, ringVars>>

\* off and len: where in the buffer the operation reads or writes
Op(op, id, sock, off, len) == [op |-> op, id |-> id, sock |-> sock, off |-> off, len |-> len]
AcceptOp  == Op("accept", 0, "none", 0, 0)
TimeoutOp == Op("timeout", 0, "none", 0, 0)

\* Mutant: recv writes to the start of the buffer
OpForStart(io, id, c) ==
    CASE io = "recv"  -> Op("recv", id, c.sock, 0, RecvCap)
      [] io = "send"  -> Op("send", id, c.sock, c.sendOff, c.sendLen - c.sendOff)
      [] io = "close" -> Op("close", id, c.sock, 0, 0)

\* The operation start_recv, start_send or start_close prepares for slot id
OpFor(io, id, c) ==
    CASE io = "recv"  -> Op("recv", id, c.sock, Len(c.buf), RecvCap - Len(c.buf))
      [] io = "send"  -> Op("send", id, c.sock, c.sendOff, c.sendLen - c.sendOff)
      [] io = "close" -> Op("close", id, c.sock, 0, 0)

Init == /\ LoopInit
        /\ sqPoll \in SqPolls
        /\ eventStore = [id \in Slots |-> "accept"]   \* zero-initialised
        /\ sq = << >> /\ inflight = <<AcceptOp, TimeoutOp>> /\ cq = << >>
        /\ taken = [cl \in Clients |-> 0]

-----------------------------------------------------------------------------
(* The submission queue                                                    *)

\* acquire_sqe succeeds n times in a row
Acquirable(n) == sqPoll => Len(sq) + n <= SqCap

\* The acquired entries, at the flush that ends the handler
Submit(ops) ==
    IF sqPoll THEN sq' = sq \o ops /\ UNCHANGED inflight
              ELSE inflight' = inflight \o ops /\ UNCHANGED sq

\* The kernel's SQPOLL thread takes an entry
SqThread ==
    /\ sq # << >>
    /\ inflight' = Append(inflight, Head(sq)) /\ sq' = Tail(sq)
    /\ UNCHANGED <<loopVars, sqPoll, eventStore, cq, taken>>

-----------------------------------------------------------------------------
(* Clients and time                                                        *)

ClientActs(cl) ==
    /\ Connect(cl) \/ Write(cl) \/ Finish(cl) \/ Reset(cl) \/ IdleElapses(cl)
    /\ UNCHANGED ringVars

-----------------------------------------------------------------------------
(* The kernel completes operations.  res is the number of bytes or units,  *)
(* 0 for end of stream and errors; more is IORING_CQE_F_MORE.              *)

Completion(o, res) == [op |-> o.op, id |-> o.id, sock |-> o.sock, off |-> o.off,
                       res |-> res, more |-> FALSE]

Complete(i, res) ==
    /\ cq' = Append(cq, Completion(inflight[i], res))
    /\ inflight' = RemoveAt(inflight, i)

MinOf(a, b) == IF a < b THEN a ELSE b

KernelReceives(cl) ==
    \E i \in DOMAIN inflight :
        /\ inflight[i].op = "recv" /\ inflight[i].sock = cl
        /\ LET n == MinOf(sent[cl] - taken[cl], inflight[i].len)
           IN  /\ n > 0 \/ ended[cl] \in {"fin", "rst"}
               /\ Complete(i, n)
               /\ taken' = [taken EXCEPT ![cl] = @ + n]
    /\ UNCHANGED <<loopVars, sqPoll, eventStore, sq>>

KernelSends(cl) ==
    \E i \in DOMAIN inflight :
        /\ inflight[i].op = "send" /\ inflight[i].sock = cl
        /\ \E n \in 0 .. inflight[i].len : /\ n = 0 <=> ended[cl] = "rst"
                                           /\ Complete(i, n)
    /\ UNCHANGED <<loopVars, sqPoll, eventStore, sq, taken>>

KernelCloses(cl) ==
    \E i \in DOMAIN inflight :
        /\ inflight[i].op = "close" /\ inflight[i].sock = cl
        /\ Complete(i, 0)
        /\ UNCHANGED <<loopVars, sqPoll, eventStore, sq, taken>>

\* The multishot accept hands over one more connection and may end with it
KernelAccepts(cl) ==
    /\ srv[cl] = "backlog" /\ \A j \in DOMAIN cq : ~(cq[j].op = "accept" /\ cq[j].sock = cl)
    /\ \E i \in DOMAIN inflight, more \in BOOLEAN :
          /\ inflight[i].op = "accept"
          /\ cq' = Append(cq, [Completion(AcceptOp, 1) EXCEPT !.sock = cl, !.more = more])
          /\ inflight' = IF more THEN inflight ELSE RemoveAt(inflight, i)
    /\ UNCHANGED <<loopVars, sqPoll, eventStore, sq, taken>>

\* ... or ends with an error
AcceptFails ==
    /\ \E i \in DOMAIN inflight : inflight[i].op = "accept" /\ Complete(i, 0)
    /\ UNCHANGED <<loopVars, sqPoll, eventStore, sq, taken>>

\* Five seconds after it was armed: no close, which never waits for anything,
\* is still under way by then.
TimerExpires ==
    /\ \A o \in ToSet(sq \o inflight) : o.op # "close"
    /\ \E i \in DOMAIN inflight : inflight[i].op = "timeout" /\ Complete(i, 0)
    /\ UNCHANGED <<loopVars, sqPoll, eventStore, sq, taken>>

-----------------------------------------------------------------------------
(* The thread handles the next completion.                                 *)

\* The pending completion, taken for an event of this type
Next_cqe(type) ==
    /\ cq # << >> /\ cq' = Tail(cq) /\ UNCHANGED sqPoll
    /\ type = IF Head(cq).id = 0 THEN Head(cq).op ELSE eventStore[Head(cq).id]

Closed(cl) == srv' = [srv EXCEPT ![cl] = "closed"]

\* Mutant: start_close leaves event_store_ as it is
PerformKeepsEvent(id, handled) ==
    LET c == handled.conn
    IN  IF Acquirable(1)
        THEN /\ Submit(<<OpFor(handled.io, id, c)>>)
             /\ IF handled.io = "close"
                THEN Closed(c.sock) /\ UNCHANGED eventStore
                ELSE eventStore' = [eventStore EXCEPT ![id] = handled.io] /\ UNCHANGED srv
             /\ conns' = [conns EXCEPT ![id] = c]
             /\ UNCHANGED freeList
        ELSE /\ conns' = [conns EXCEPT ![id] = Destroy(c)]
             /\ FreeConnIds({id})
             /\ Closed(c.sock)
             /\ UNCHANGED <<eventStore, sq, inflight>>

\* Carry out what a handler returned for slot id; without an entry in the
\* submission queue the connection is closed and freed at once (close_sync,
\* and the same in start_close).
Perform(id, handled) ==
    LET c == handled.conn
    IN  IF Acquirable(1)
        THEN /\ Submit(<<OpFor(handled.io, id, c)>>)
             /\ eventStore' = [eventStore EXCEPT ![id] = handled.io]
             /\ conns' = [conns EXCEPT ![id] = c]
             /\ IF handled.io = "close" THEN Closed(c.sock) ELSE UNCHANGED srv
             /\ UNCHANGED freeList
        ELSE /\ conns' = [conns EXCEPT ![id] = Destroy(c)]
             /\ FreeConnIds({id})
             /\ Closed(c.sock)
             /\ UNCHANGED <<eventStore, sq, inflight>>

\* What lies in the receive buffer behind recv_len_ when res more bytes are
\* counted: the bytes of this completion if it wrote them there, else garbage.
Arrived(e, c) ==
    [i \in 1 .. e.res |-> IF e.op = "recv" /\ e.off = Len(c.buf)
                          THEN <<e.sock, read[e.sock] + i>> ELSE <<e.sock, 0>>]

\* Mutant: res = 0 is nothing to handle
HandleRecvIgnoresEnd ==
    LET e == Head(cq)
        c == conns[e.id]
    IN  /\ Next_cqe("recv")
        /\ read' = [read EXCEPT ![e.sock] = @ + e.res]
        /\ IF e.res = 0
           THEN UNCHANGED <<conns, freeList, srv, eventStore, sq, inflight>>
           ELSE Perform(e.id, OnRecv(c, Arrived(e, c)))
        /\ UNCHANGED <<sent, ended, got, taken>>

HandleRecv ==
    LET e == Head(cq)
        c == conns[e.id]
    IN  /\ Next_cqe("recv")
        /\ read' = [read EXCEPT ![e.sock] = @ + e.res]
        /\ Perform(e.id, IF e.res = 0 THEN StartClose(c) ELSE OnRecv(c, Arrived(e, c)))
        /\ UNCHANGED <<sent, ended, got, taken>>

HandleSend ==
    LET e == Head(cq)
        c == conns[e.id]
    IN  /\ Next_cqe("send")
        /\ got' = IF e.res = 0 THEN got ELSE [got EXCEPT ![c.sock] = Heard(c.sock, c, e.res)]
        /\ Perform(e.id, IF e.res = 0 THEN StartClose(c) ELSE OnSend(c, e.res))
        /\ UNCHANGED <<sent, read, ended, taken>>

HandleClose ==
    LET e == Head(cq)
    IN  /\ Next_cqe("close")
        /\ conns' = [conns EXCEPT ![e.id] = Destroy(@)]
        /\ FreeConnIds({e.id})
        /\ UNCHANGED <<sent, read, ended, got, srv, eventStore, sq, inflight, taken>>

\* submit_accept if the multishot has ended and an entry can be acquired
\* besides the n this handler has used; else nothing, and nothing later
Rearm(e, n) == IF ~e.more /\ Acquirable(n + 1) THEN <<AcceptOp>> ELSE << >>

\* Mutant: the early returns do not re-arm
HandleAcceptNothingForgets ==
    LET e == Head(cq)
    IN  /\ Next_cqe("accept") /\ (e.res = 0 \/ Full)
        /\ srv' = [cl \in Clients |-> IF cl = e.sock THEN "closed" ELSE srv[cl]]
        /\ UNCHANGED <<conns, freeList, sent, read, ended, got, eventStore, sq, inflight, taken>>

\* A failed accept, or a connection for which there is no slot
HandleAcceptNothing ==
    LET e == Head(cq)
    IN  /\ Next_cqe("accept") /\ (e.res = 0 \/ Full)
        /\ srv' = [cl \in Clients |-> IF cl = e.sock THEN "closed" ELSE srv[cl]]
        /\ Submit(Rearm(e, 0))
        /\ UNCHANGED <<conns, freeList, sent, read, ended, got, eventStore, taken>>

\* Mutant: the close_sync fallback of a new connection does not free its slot
HandleAcceptLeaks ==
    LET e  == Head(cq)
        id == AllocConnId
        c  == Emplace(e.sock)
    IN  /\ Next_cqe("accept") /\ e.res > 0 /\ ~Full
        /\ TakeConnId
        /\ IF Acquirable(1)
           THEN /\ conns' = [conns EXCEPT ![id] = c]
                /\ srv' = [srv EXCEPT ![e.sock] = "open"]
                /\ eventStore' = [eventStore EXCEPT ![id] = "recv"]
                /\ Submit(<<OpFor("recv", id, c)>> \o Rearm(e, 1))
           ELSE /\ conns' = [conns EXCEPT ![id] = Destroy(c)]
                /\ Closed(e.sock)
                /\ UNCHANGED <<eventStore, sq, inflight>>
        /\ UNCHANGED <<sent, read, ended, got, taken>>

HandleAccept ==
    LET e  == Head(cq)
        id == AllocConnId
        c  == Emplace(e.sock)
    IN  /\ Next_cqe("accept") /\ e.res > 0 /\ ~Full
        /\ IF Acquirable(1)
           THEN /\ conns' = [conns EXCEPT ![id] = c]
                /\ TakeConnId
                /\ srv' = [srv EXCEPT ![e.sock] = "open"]
                /\ eventStore' = [eventStore EXCEPT ![id] = "recv"]
                /\ Submit(<<OpFor("recv", id, c)>> \o Rearm(e, 1))
           ELSE /\ conns' = [conns EXCEPT ![id] = Destroy(c)]
                /\ Closed(e.sock)
                /\ UNCHANGED <<freeList, eventStore, sq, inflight>>
        /\ UNCHANGED <<sent, read, ended, got, taken>>

\* on_timeout over all slots in order, then the timer again
HandleTimeout ==
    LET idle  == {id \in Slots : Sweepable(conns[id])}
        async == {id \in idle : Acquirable(Cardinality({j \in idle : j <= id}))}
        rest  == idle \ async
        timer == IF Acquirable(Cardinality(idle) + 1) THEN <<TimeoutOp>> ELSE << >>
    IN  /\ Next_cqe("timeout")
        /\ \E order \in Ascending(async) :
              Submit([i \in DOMAIN order |-> OpFor("close", order[i], conns[order[i]])] \o timer)
        /\ eventStore' = [id \in Slots |-> IF id \in async THEN "close" ELSE eventStore[id]]
        /\ srv' = [cl \in Clients |-> IF cl \in {conns[id].sock : id \in idle}
                                      THEN "closed" ELSE srv[cl]]
        /\ conns' = [id \in Slots |-> IF id \in rest THEN Destroy(conns[id]) ELSE conns[id]]
        /\ FreeConnIds(rest)
        /\ UNCHANGED <<sent, read, ended, got, taken>>

-----------------------------------------------------------------------------
Kernel == \/ SqThread \/ AcceptFails \/ TimerExpires
          \/ \E cl \in Clients : \/ KernelReceives(cl) \/ KernelSends(cl)
                                 \/ KernelCloses(cl) \/ KernelAccepts(cl)

Thread == \/ HandleRecv \/ HandleSend \/ HandleClose
          \/ HandleAcceptNothing \/ HandleAccept \/ HandleTimeout

Next == (\E cl \in Clients : ClientActs(cl)) \/ Kernel \/ Thread

Spec == Init /\ [][Next]_vars

\* The thread handles completions whenever there are some, and the kernel
\* completes what can complete; clients read what they are sent.
Fairness == /\ WF_vars(Thread) /\ WF_vars(SqThread)
            /\ \A cl \in Clients : /\ WF_vars(KernelReceives(cl))
                                   /\ WF_vars(KernelSends(cl))
                                   /\ WF_vars(KernelCloses(cl))

FairSpec == Spec /\ Fairness

-----------------------------------------------------------------------------
(* Properties.                                                             *)

OpType == [op : {"recv", "send", "close", "accept", "timeout"}, id : {0} \cup Slots,
           sock : Clients \cup {"none"}, off : Nat, len : Nat]
CompletionType == [op : {"recv", "send", "close", "accept", "timeout"}, id : {0} \cup Slots,
                   sock : Clients \cup {"none"}, off : Nat, res : Nat, more : BOOLEAN]

\* Type invariant of the loop and its rings.
TypeOK ==
    /\ LoopTypeOK /\ sqPoll \in SqPolls
    /\ eventStore \in [Slots -> {"recv", "send", "close", "accept"}]
    /\ sq \in Seq(OpType) /\ inflight \in Seq(OpType)
    /\ cq \in Seq(CompletionType) /\ taken \in [Clients -> Nat]

\* All that is somewhere between its submission and its handling
Outstanding(what(_)) ==
    Cardinality({i \in DOMAIN sq : what(sq[i])})
  + Cardinality({i \in DOMAIN inflight : what(inflight[i])})
  + Cardinality({i \in DOMAIN cq : what(cq[i])})

\* A peer that has gone silently: the sweep closes its connection under the
\* receive that is in flight, which then never completes.
Gone(sock) == sock \in Clients /\ ended[sock] = "gone"

\* Exactly one operation of each connection whose peer has not gone silently is
\* outstanding, and event_store_ says which: only then can one entry per connection
\* stand for it in run().  Nothing is left over for the next connection in the
\* slot.  (Where IdlePeersGone is FALSE the sweep of a live idle peer breaks it.)
OneOperationEach ==
    \A id \in Slots :
        LET mine(o) == o.id = id /\ ~Gone(o.sock)
            served  == conns[id].live /\ ~Gone(conns[id].sock)
        IN  /\ Outstanding(mine) = IF served THEN 1 ELSE 0
            /\ served => Outstanding(LAMBDA o : mine(o) /\ o.op = eventStore[id]
                                               /\ o.sock = conns[id].sock) = 1

\* The accept and the timer are never lost, whatever handle_accept does with
\* what was accepted: each is outstanding all the time (an accept that goes on
\* and has completed counts once).  With SQPOLL submit_accept and submit_timeout
\* drop them when the queue is full.
AlwaysAccepting ==
    ~sqPoll => /\ Outstanding(LAMBDA o : o.op = "accept") >= 1
               /\ Outstanding(LAMBDA o : o.op = "timeout") = 1

\* A completion is handled for the operation it is the completion of, on the
\* connection that started it.
CompletionIsOwn ==
    [][cq # << >> =>
          LET e == Head(cq)
          IN  (cq' = Tail(cq) /\ e.id # 0) =>
                 /\ eventStore[e.id] = e.op
                 /\ conns[e.id].live /\ conns[e.id].sock = e.sock]_vars

Pending(cl) ==
    IF SlotOf(cl) = {} THEN "none" ELSE eventStore[CHOOSE id \in SlotOf(cl) : TRUE]

Protocol(Me) == INSTANCE ConnectionProtocol WITH
    conn <- ConnOf(Me), op <- Pending(Me), sent <- sent[Me], read <- read[Me],
    ended <- IF ended[Me] = "gone" THEN "no" ELSE ended[Me], got <- got[Me],
    srv <- IF srv[Me] = "backlog" THEN "none" ELSE srv[Me]

\* A completion handled while no entry of the submission queue is to be had
Starved == cq # << >> /\ cq' = Tail(cq) /\ ~Acquirable(1)

\* Whatever run() does for one client, no other client can tell: every step is,
\* for each connection, a step of its own protocol or no step at all.  The one
\* exception is the close_sync of start_recv and start_send, which ends an
\* exchange anywhere when acquire_sqe fails.
ServesEachClient ==
    /\ \A cl \in Clients : Protocol(cl)!Init
    /\ [][Starved \/ \A cl \in Clients : [Protocol(cl)!Next]_(Protocol(cl)!vars)]_vars

\* Every request that arrives completely on an open connection is answered.
EveryRequestAnswered ==
    \A cl \in Clients : \A k \in 1 .. Len(Stream[cl]) :
        (srv[cl] = "open" /\ Protocol(cl)!Due(k)) ~>
            \/ got[cl].req > k \/ (got[cl].req = k /\ got[cl].unit = RespLen)
            \/ ended[cl] = "rst"

\* A connection whose client has ended it gives its slot back.
EveryConnectionEnds ==
    \A cl \in Clients :
        (srv[cl] = "open" /\ ended[cl] \in {"fin", "rst"}) ~> (SlotOf(cl) = {})
=============================================================================
