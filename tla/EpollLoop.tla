------------------------------ MODULE EpollLoop ------------------------------
(***************************************************************************)
(* The epoll backend, src/epoll_loop.{h,cpp}: one thread that waits for a  *)
(* batch of events, handles them one after the other, and drains a socket  *)
(* with recv or send until it would block or a mode switch breaks the      *)
(* loop.  Clients act between any two system calls.                        *)
(*                                                                         *)
(* epoll itself is modelled by what the code uses of it.  interest[cl] is  *)
(* what the socket is registered for, edge-triggered; ready holds the      *)
(* sockets with an edge to report: an edge arises when input, buffer space *)
(* or an error arrives, and when a registration is made for something that *)
(* is already there.  epoll_wait reports what holds at that moment and     *)
(* forgets the edges.  Listening socket and timer are level-triggered.     *)
(* A batch is handled in any order.                                        *)
(***************************************************************************)
EXTENDS ServerLoop

CONSTANT SendBuffer   \* units the kernel's send buffer of a socket holds

ASSUME SendBufferAssumption == SendBuffer \in Nat \ {0}

VARIABLES interest,   \* "none", "in" or "out"
          ready,      \* sockets with an unreported edge
          room,       \* room[cl]: free units in the socket's send buffer
          batch,      \* events_[i .. n-1]: reported and not handled yet
          pc,         \* "wait", "batch", "accept", "recv", "send"
          cur         \* the connection a drain loop works on

kernelVars == <<interest, ready, room>>
threadVars == <<batch, pc, cur>>
vars == <<loopVars, kernelVars, threadVars>>

Init == /\ LoopInit
        /\ interest = [cl \in Clients |-> "none"]
        /\ ready = {}
        /\ room = [cl \in Clients |-> SendBuffer]
        /\ batch = {} /\ pc = "wait" /\ cur = 0

-----------------------------------------------------------------------------
(* The kernel's view of a socket                                           *)

Readable(cl) == read[cl] < sent[cl] \/ ended[cl] \in {"fin", "rst"}
Writable(cl) == room[cl] > 0 \/ ended[cl] = "rst"

\* The sockets for which what they are registered for is there
Awaited == {cl \in Clients : \/ interest[cl] = "in" /\ Readable(cl)
                             \/ interest[cl] = "out" /\ Writable(cl)}

\* Mutant: a registration made by the accept is never modified
RegisterOnce(cl, events) ==
    IF interest[cl] = "none"
    THEN /\ interest' = [interest EXCEPT ![cl] = events]
         /\ ready' = IF cl \in Awaited' THEN ready \cup {cl} ELSE ready
    ELSE UNCHANGED <<interest, ready>>

\* epoll_ctl: register a socket; an edge if what it waits for holds already
Register(cl, events) ==
    /\ interest' = [interest EXCEPT ![cl] = events]
    /\ ready' = IF cl \in Awaited' THEN ready \cup {cl} ELSE ready

\* Something arrived on a socket: an edge if the socket is registered for it
Wake(cl, events) ==
    ready' = IF interest[cl] \in events THEN ready \cup {cl} ELSE ready

-----------------------------------------------------------------------------
(* Clients and time                                                        *)

ClientConnects(cl) == Connect(cl) /\ UNCHANGED <<kernelVars, threadVars>>

ClientWrites(cl) == /\ Write(cl) /\ Wake(cl, {"in"})
                    /\ UNCHANGED <<interest, room, threadVars>>

ClientFinishes(cl) == /\ Finish(cl) /\ Wake(cl, {"in"})
                      /\ UNCHANGED <<interest, room, threadVars>>

ClientResets(cl) == /\ Reset(cl) /\ Wake(cl, {"in", "out"})
                    /\ UNCHANGED <<interest, room, threadVars>>

\* The client reads what was sent to it
ClientReads(cl) ==
    /\ srv[cl] = "open" /\ ended[cl] \in {"no", "fin"} /\ room[cl] < SendBuffer
    /\ room' = [room EXCEPT ![cl] = SendBuffer]
    /\ Wake(cl, {"out"})
    /\ UNCHANGED <<loopVars, interest, threadVars>>

IdleTimeElapses(cl) == IdleElapses(cl) /\ UNCHANGED <<kernelVars, threadVars>>

-----------------------------------------------------------------------------
(* epoll_wait and the dispatch of a batch                                  *)

Event(what, id) == [what |-> what, id |-> id]

\* What epoll_wait reports of a connection: an error or hang-up whatever it
\* is registered for, else what it is registered for if that holds now.
Report(id) ==
    LET cl == conns[id].sock
    IN  IF ended[cl] = "rst"                            THEN {Event("hup", id)}
        ELSE IF interest[cl] = "in" /\ Readable(cl)     THEN {Event("in", id)}
        ELSE IF interest[cl] = "out" /\ Writable(cl)    THEN {Event("out", id)}
        ELSE {}

Connecting == {cl \in Clients : srv[cl] = "backlog"}

\* The timer expires every 5 s: any epoll_wait may find it expired.
Wait ==
    /\ pc = "wait"
    /\ \E timer \in SUBSET {Event("timer", 0)} :
          batch' = timer
                   \cup {Event("listen", 0) : cl \in Connecting}
                   \cup UNION {Report(id) : id \in UNION {SlotOf(cl) : cl \in ready}}
    /\ batch' # {}
    /\ pc' = "batch" /\ ready' = {}
    /\ UNCHANGED <<loopVars, interest, room, cur>>

EndOfBatch ==
    /\ pc = "batch" /\ batch = {} /\ pc' = "wait" /\ cur' = 0
    /\ UNCHANGED <<loopVars, kernelVars, batch>>

\* Mutant: the slot of a closed connection is not given back
CloseAllLeaks(ids) ==
    LET socks == {conns[id].sock : id \in ids}
    IN  /\ interest' = [cl \in Clients |-> IF cl \in socks THEN "none" ELSE interest[cl]]
        /\ ready' = ready \ socks
        /\ srv' = [cl \in Clients |-> IF cl \in socks THEN "closed" ELSE srv[cl]]
        /\ conns' = [id \in Slots |-> IF id \in ids THEN Destroy(conns[id]) ELSE conns[id]]
        /\ UNCHANGED freeList

\* start_close on some connections: out of the epoll set, shut down, closed,
\* freed.  An id without a connection goes through the same motions, on the
\* socket its storage still names.
CloseAll(ids) ==
    LET socks == {conns[id].sock : id \in ids}
    IN  /\ interest' = [cl \in Clients |-> IF cl \in socks THEN "none" ELSE interest[cl]]
        /\ ready' = ready \ socks
        /\ srv' = [cl \in Clients |-> IF cl \in socks THEN "closed" ELSE srv[cl]]
        /\ conns' = [id \in Slots |-> IF id \in ids THEN Destroy(conns[id]) ELSE conns[id]]
        /\ FreeConnIds(ids)

\* EPOLLERR or EPOLLHUP: start_close at once, before the check that the
\* connection still exists
HandleHangUp ==
    /\ pc = "batch"
    /\ \E e \in batch :
          /\ e.what = "hup" /\ batch' = batch \ {e}
          /\ CloseAll({e.id})
    /\ UNCHANGED <<sent, read, ended, got, room, pc, cur>>

\* EPOLLIN or EPOLLOUT on a connection that exists: enter the drain loop
HandleReady ==
    /\ pc = "batch"
    /\ \E e \in batch :
          /\ e.what \in {"in", "out"} /\ batch' = batch \ {e}
          /\ IF conns[e.id].live
             THEN cur' = e.id /\ pc' = IF e.what = "in" THEN "recv" ELSE "send"
             ELSE UNCHANGED <<pc, cur>>
    /\ UNCHANGED <<loopVars, kernelVars>>

\* Mutant: on_timeout does not ask for the state
HandleTimerOfAnyState ==
    /\ pc = "batch" /\ Event("timer", 0) \in batch
    /\ batch' = batch \ {Event("timer", 0)}
    /\ CloseAll({id \in Slots : conns[id].live /\ conns[id].idle})
    /\ UNCHANGED <<sent, read, ended, got, room, pc, cur>>

\* The timer event: on_timeout over all slots in order
HandleTimer ==
    /\ pc = "batch" /\ Event("timer", 0) \in batch
    /\ batch' = batch \ {Event("timer", 0)}
    /\ CloseAll({id \in Slots : Sweepable(conns[id])})
    /\ UNCHANGED <<sent, read, ended, got, room, pc, cur>>

HandleListen ==
    /\ pc = "batch" /\ Event("listen", 0) \in batch
    /\ batch' = batch \ {Event("listen", 0)} /\ pc' = "accept"
    /\ UNCHANGED <<loopVars, kernelVars, cur>>

-----------------------------------------------------------------------------
(* The drain loops: one system call per step                               *)

\* accept4 returns a connection and a slot is free for it
AcceptOne ==
    /\ pc = "accept" /\ ~Full
    /\ \E cl \in Connecting :
          /\ conns' = [conns EXCEPT ![AllocConnId] = Emplace(cl)]
          /\ TakeConnId
          /\ srv' = [srv EXCEPT ![cl] = "open"]
          /\ UNCHANGED <<sent, read, ended, got, room, threadVars>>
          /\ Register(cl, "in")

\* All slots are taken: the accepted socket is closed at once
RefuseOne ==
    /\ pc = "accept" /\ Full
    /\ \E cl \in Connecting : srv' = [srv EXCEPT ![cl] = "closed"]
    /\ UNCHANGED <<conns, freeList, sent, read, ended, got, kernelVars, threadVars>>

AcceptEmpty ==
    /\ pc = "accept" /\ Connecting = {} /\ pc' = "batch"
    /\ UNCHANGED <<loopVars, kernelVars, batch, cur>>

\* recv_break_ and send_break_: the drain loop ends with the iteration in
\* which a handler switched the mode or closed.  Both flags are cleared when
\* the loop is entered, so only the calls made in this iteration count.
Breaks(io) == io = "close" \/ (pc = "recv" /\ io = "send") \/ (pc = "send" /\ io = "recv")

\* Carry out what a handler of cur returned: the start_... call it ends with
Perform(handled) ==
    /\ pc' = IF Breaks(handled.io) THEN "batch" ELSE pc
    /\ IF handled.io = "close"
       THEN CloseAll({cur})
       ELSE /\ conns' = [conns EXCEPT ![cur] = handled.conn]
            /\ Register(handled.conn.sock, IF handled.io = "recv" THEN "in" ELSE "out")
            /\ UNCHANGED <<freeList, srv>>

MinOf(a, b) == IF a < b THEN a ELSE b

\* recv returns data
RecvData ==
    LET c == conns[cur]
        cl == c.sock
        n == MinOf(sent[cl] - read[cl], RecvCap - Len(c.buf))
    IN  /\ pc = "recv" /\ n > 0
        /\ read' = [read EXCEPT ![cl] = @ + n]
        /\ UNCHANGED <<sent, ended, got, room, batch, cur>>
        /\ Perform(OnRecv(c, [i \in 1 .. n |-> <<cl, read[cl] + i>>]))

\* Mutant: the end of the stream ends the drain loop and nothing else
RecvEndForgetsClose ==
    LET cl == conns[cur].sock
    IN  /\ pc = "recv" /\ Len(conns[cur].buf) < RecvCap
        /\ read[cl] = sent[cl] /\ ended[cl] \in {"fin", "rst"}
        /\ pc' = "batch"
        /\ UNCHANGED <<loopVars, kernelVars, batch, cur>>

\* recv returns 0 or an error other than EAGAIN: on_recv closes
RecvEnd ==
    LET cl == conns[cur].sock
    IN  /\ pc = "recv" /\ Len(conns[cur].buf) < RecvCap
        /\ read[cl] = sent[cl] /\ ended[cl] \in {"fin", "rst"}
        /\ Perform(StartClose(conns[cur]))
        /\ UNCHANGED <<sent, read, ended, got, room, batch, cur>>

\* EAGAIN, or no room left in the receive buffer
RecvBlocks ==
    LET c == conns[cur]
    IN  /\ pc = "recv"
        /\ ~Readable(c.sock) \/ Len(c.buf) = RecvCap
        /\ pc' = "batch"
        /\ UNCHANGED <<loopVars, kernelVars, batch, cur>>

\* Mutant: the whole response is taken for sent, not what send returned
SendDataInFull ==
    LET c == conns[cur]
        cl == c.sock
        n == c.sendLen - c.sendOff
    IN  /\ pc = "send" /\ n > 0 /\ room[cl] > 0 /\ ended[cl] # "rst"
        /\ room' = [room EXCEPT ![cl] = @ - n]
        /\ got' = [got EXCEPT ![cl] = Heard(cl, c, n)]
        /\ UNCHANGED <<sent, read, ended, batch, cur>>
        /\ Perform(OnSend(c, n))

\* send takes what there is room for
SendData ==
    LET c == conns[cur]
        cl == c.sock
        n == MinOf(room[cl], c.sendLen - c.sendOff)
    IN  /\ pc = "send" /\ n > 0 /\ ended[cl] # "rst"
        /\ room' = [room EXCEPT ![cl] = @ - n]
        /\ got' = [got EXCEPT ![cl] = Heard(cl, c, n)]
        /\ UNCHANGED <<sent, read, ended, batch, cur>>
        /\ Perform(OnSend(c, n))

\* send fails: on_send closes
SendError ==
    LET c == conns[cur]
    IN  /\ pc = "send" /\ c.sendOff < c.sendLen /\ ended[c.sock] = "rst"
        /\ Perform(StartClose(c))
        /\ UNCHANGED <<sent, read, ended, got, room, batch, cur>>

\* EAGAIN, or nothing to send
SendBlocks ==
    LET c == conns[cur]
    IN  /\ pc = "send"
        /\ c.sendOff >= c.sendLen \/ (room[c.sock] = 0 /\ ended[c.sock] # "rst")
        /\ pc' = "batch"
        /\ UNCHANGED <<loopVars, kernelVars, batch, cur>>

-----------------------------------------------------------------------------
Environment == \E cl \in Clients :
    \/ ClientConnects(cl) \/ ClientWrites(cl) \/ ClientFinishes(cl)
    \/ ClientResets(cl) \/ ClientReads(cl) \/ IdleTimeElapses(cl)

Thread == \/ Wait \/ EndOfBatch \/ HandleHangUp \/ HandleReady \/ HandleTimer
          \/ HandleListen \/ AcceptOne \/ RefuseOne \/ AcceptEmpty
          \/ RecvData \/ RecvEnd \/ RecvBlocks \/ SendData \/ SendError \/ SendBlocks

Next == Environment \/ Thread

Spec == Init /\ [][Next]_vars

\* The thread runs whenever it can; every 5 s the timer is among the events;
\* a client that is there reads what it is sent.
Fairness == /\ WF_vars(Thread)
            /\ SF_vars(Wait /\ Event("timer", 0) \in batch')
            /\ \A cl \in Clients : WF_vars(ClientReads(cl))

FairSpec == Spec /\ Fairness

-----------------------------------------------------------------------------
(* Properties.                                                             *)

\* Type invariant of the loop, the registrations and the thread.
TypeOK ==
    /\ LoopTypeOK
    /\ interest \in [Clients -> {"none", "in", "out"}]
    /\ ready \subseteq Clients
    /\ room \in [Clients -> 0 .. SendBuffer]
    /\ batch \subseteq [what : {"listen", "timer", "hup", "in", "out"}, id : {0} \cup Slots]
    /\ pc \in {"wait", "batch", "accept", "recv", "send"}
    /\ cur \in {0} \cup Slots

\* The edge for this connection was reported, or its drain loop is running
BeingHandled(cl, events) ==
    \E id \in SlotOf(cl) :
        \/ \E e \in batch : e.id = id /\ e.what \in {events, "hup"}
        \/ cur = id /\ pc = IF events = "in" THEN "recv" ELSE "send"

\* No wake-up is lost although epoll is edge-triggered: whenever an open
\* connection waits for input (room) that is there, an edge is pending, its
\* event is in the batch, or its drain loop has not stopped.  The break flags
\* and the re-registration in start_recv and start_send are there for this.
NoLostWakeup ==
    \A cl \in Clients : srv[cl] = "open" =>
        /\ interest[cl] = "in" /\ Readable(cl) => cl \in ready \/ BeingHandled(cl, "in")
        /\ interest[cl] = "out" /\ Writable(cl) => cl \in ready \/ BeingHandled(cl, "out")

\* Each connection, looked at alone, follows ConnectionProtocol: the registered
\* interest is its one pending operation.
Pending(cl) == CASE interest[cl] = "in"  -> "recv"
                 [] interest[cl] = "out" -> "send"
                 [] OTHER -> "none"

Protocol(Me) == INSTANCE ConnectionProtocol WITH
    conn <- ConnOf(Me), op <- Pending(Me), sent <- sent[Me], read <- read[Me],
    ended <- IF ended[Me] = "gone" THEN "no" ELSE ended[Me], got <- got[Me],
    srv <- IF srv[Me] = "backlog" THEN "none" ELSE srv[Me]

\* Whatever the loop does for one client, no other client can tell: every step
\* is, for each connection, a step of its own protocol or no step at all.
ServesEachClient ==
    /\ \A cl \in Clients : Protocol(cl)!Init
    /\ [][\A cl \in Clients : [Protocol(cl)!Next]_(Protocol(cl)!vars)]_vars

\* Every request that arrives completely on an open connection is answered,
\* whatever the other clients do; only a reset or an idle peer excuses.
EveryRequestAnswered ==
    \A cl \in Clients : \A k \in 1 .. Len(Stream[cl]) :
        (srv[cl] = "open" /\ Protocol(cl)!Due(k)) ~>
            \/ got[cl].req > k \/ (got[cl].req = k /\ got[cl].unit = RespLen)
            \/ ended[cl] \in {"rst", "gone"}

\* A connection whose client has ended it gives its slot back, unless the
\* client neither reads nor resets any more.
EveryConnectionEnds ==
    \A cl \in Clients :
        (srv[cl] = "open" /\ ended[cl] \in {"fin", "rst"}) ~> (SlotOf(cl) = {})
=============================================================================
