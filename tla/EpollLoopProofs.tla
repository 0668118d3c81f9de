---------------------------- MODULE EpollLoopProofs ----------------------------
(***************************************************************************)
(* Theorems about EpollLoop, for every number of clients and slots, every  *)
(* stream, and every size of the buffers, and for peers that do nothing    *)
(* more after their idle timeout (QuietPeers, which every theorem assumes):*)
(* no slot is lost, no wake-up is lost, and each connection follows its    *)
(* protocol.                                                               *)
(***************************************************************************)
EXTENDS EpollLoop, ServerLoopProofs

\* A connection that is idle belongs to a client that is gone: without this an
\* EPOLLHUP may find its slot free or reused, see the README.
QuietPeers == IdleTimeouts => IdlePeersGone

-----------------------------------------------------------------------------
(* The inductive invariant                                                 *)

Peer(id) == conns[id].sock

\* Every open socket has one live slot, and every live slot an open socket of
\* its own; what is not open is not registered.
SocketsHaveSlots ==
    /\ \A id \in Slots : conns[id].live => Peer(id) \in Clients /\ srv[Peer(id)] = "open"
    /\ \A i, j \in Slots : conns[i].live /\ conns[j].live /\ Peer(i) = Peer(j) => i = j
    /\ \A cl \in Clients : srv[cl] = "open" => \E id \in Slots : conns[id].live /\ Peer(id) = cl
    /\ \A cl \in Clients : srv[cl] # "open" => interest[cl] = "none"

\* A live connection waits for what it can go on with; one that is idle has
\* nothing to hear of its client any more.
Waits(id) ==
    /\ interest[Peer(id)] \in {"in", "out"}
    /\ interest[Peer(id)] = "in" => conns[id].state = "reading" /\ Len(conns[id].buf) < RecvCap
    /\ interest[Peer(id)] = "out" => /\ conns[id].state = "writing"
                                     /\ conns[id].sendOff < conns[id].sendLen
    /\ conns[id].idle => ended[Peer(id)] = "gone" /\ read[Peer(id)] = sent[Peer(id)]

LiveOnesWait == \A id \in Slots : conns[id].live => Waits(id)

\* An event of the batch is still true of the live connection it names.
True(e) ==
    \/ e.id = 0 /\ e.what \in {"listen", "timer"}
    \/ /\ e.id \in Slots /\ conns[e.id].live
       /\ \/ e.what = "hup" /\ ended[Peer(e.id)] = "rst"
          \/ e.what = "in" /\ interest[Peer(e.id)] = "in" /\ Readable(Peer(e.id))
          \/ e.what = "out" /\ interest[Peer(e.id)] = "out"

BatchIsTrue ==
    /\ \A e \in batch : True(e)
    /\ \A e, f \in batch : e.id = f.id /\ e.id # 0 => e = f

\* A drain loop works on a live connection, for which nothing else is reported.
DrainsOne ==
    /\ pc = "wait" => batch = {}
    /\ pc \in {"recv", "send"} =>
          /\ cur \in Slots /\ conns[cur].live /\ \A e \in batch : e.id # cur
          /\ interest[Peer(cur)] = IF pc = "recv" THEN "in" ELSE "out"

Proper == \A id \in Slots : Sound(conns[id])

EInv == /\ TypeOK /\ Proper /\ SlotsConserved /\ SocketsHaveSlots /\ LiveOnesWait
        /\ BatchIsTrue /\ DrainsOne /\ NoLostWakeup

-----------------------------------------------------------------------------
(* Steps that touch less than the whole                                    *)

\* The types, one by one.
LEMMA Types ==
    ASSUME EInv
    PROVE  /\ conns \in [Slots -> ConnRecord] /\ freeList \in Seq(Slots)
           /\ sent \in [Clients -> Nat] /\ read \in [Clients -> Nat]
           /\ ended \in [Clients -> {"no", "fin", "rst", "gone"}]
           /\ got \in [Clients -> [req : Nat, unit : 1 .. RespLen]]
           /\ srv \in [Clients -> {"none", "backlog", "open", "closed"}]
           /\ interest \in [Clients -> {"none", "in", "out"}] /\ ready \in SUBSET Clients
           /\ room \in [Clients -> 0 .. SendBuffer]
           /\ pc \in {"wait", "batch", "accept", "recv", "send"} /\ cur \in {0} \cup Slots
           /\ 0 \notin Slots /\ \A id \in Slots : Sound(conns[id])
  BY LoopAssumption DEF EInv, TypeOK, LoopTypeOK, Proper, Slots

\* Sound objects are what the type invariant asks of them.
LEMMA SoundIsTyped ==
    ASSUME conns \in [Slots -> ConnRecord], Proper
    PROVE  \A id \in Slots : Len(conns[id].buf) <= RecvCap /\ conns[id].sendOff <= conns[id].sendLen
  BY DEF Proper, Sound

\* The slot of a client.
LEMMA OneSlot ==
    ASSUME EInv
    PROVE  /\ \A cl \in Clients : srv[cl] = "open" => \E id \in Slots : SlotOf(cl) = {id}
           /\ \A cl \in Clients : srv[cl] # "open" => SlotOf(cl) = {}
           /\ \A id \in Slots : conns[id].live => SlotOf(Peer(id)) = {id} /\ ConnOf(Peer(id)) = conns[id]
  <1>1. \A id \in Slots : conns[id].live => SlotOf(Peer(id)) = {id}
    BY DEF EInv, SocketsHaveSlots, SlotOf, Peer
  <1>2. \A id \in Slots : conns[id].live => ConnOf(Peer(id)) = conns[id]
    BY <1>1 DEF ConnOf
  <1>3. \A cl \in Clients : srv[cl] = "open" => \E id \in Slots : SlotOf(cl) = {id}
    BY <1>1 DEF EInv, SocketsHaveSlots
  <1>4. \A cl \in Clients : srv[cl] # "open" => SlotOf(cl) = {}
    BY DEF EInv, SocketsHaveSlots, SlotOf, Peer
  <1> QED BY <1>1, <1>2, <1>3, <1>4

\* The thread alone moves: what it stops handling was in vain.
LEMMA ThreadKeeps ==
    ASSUME EInv, UNCHANGED <<loopVars, kernelVars>>, batch' \subseteq batch, DrainsOne',
           pc' \in {"wait", "batch", "accept", "recv", "send"}, cur' \in {0} \cup Slots,
           \A cl \in Clients : interest[cl] = "in" /\ Readable(cl) /\ BeingHandled(cl, "in")
                                   => BeingHandled(cl, "in")',
           \A cl \in Clients : interest[cl] = "out" /\ Writable(cl) /\ BeingHandled(cl, "out")
                                   => BeingHandled(cl, "out")'
    PROVE  EInv'
  <1>1. TypeOK' /\ Proper' /\ SlotsConserved' /\ SocketsHaveSlots' /\ LiveOnesWait'
    BY DEF EInv, TypeOK, LoopTypeOK, Proper, SlotsConserved, SocketsHaveSlots, LiveOnesWait,
           loopVars, kernelVars, Waits, Peer
  <1>2. BatchIsTrue'
    BY DEF EInv, BatchIsTrue, True, loopVars, kernelVars, Peer, Readable
  <1>3. NoLostWakeup'
    BY DEF EInv, NoLostWakeup, loopVars, kernelVars, Readable, Writable
  <1> QED BY <1>1, <1>2, <1>3 DEF EInv

\* A client alone moves: what becomes readable or writable raises an edge.
LEMMA ClientKeeps ==
    ASSUME EInv, TypeOK', UNCHANGED <<conns, freeList, interest, threadVars>>,
           \A cl \in Clients : srv'[cl] = "open" <=> srv[cl] = "open",
           \A cl \in Clients : ended[cl] = "rst" => ended'[cl] = "rst",
           \A cl \in Clients : ended[cl] = "gone" /\ read[cl] = sent[cl] =>
                                   ended'[cl] = "gone" /\ read'[cl] = sent'[cl],
           \A cl \in Clients : Readable(cl) => Readable(cl)', ready \subseteq ready',
           \A cl \in Clients : interest[cl] = "in" /\ Readable(cl)' => Readable(cl) \/ cl \in ready',
           \A cl \in Clients : interest[cl] = "out" /\ Writable(cl)' => Writable(cl) \/ cl \in ready'
    PROVE  EInv'
  <1>1. Proper' /\ SlotsConserved' /\ SocketsHaveSlots' /\ DrainsOne'
    BY DEF EInv, Proper, SlotsConserved, SocketsHaveSlots, DrainsOne, Peer, threadVars
  <1>2. LiveOnesWait'
    BY DEF EInv, LiveOnesWait, Waits, Peer, SocketsHaveSlots
  <1>3. BatchIsTrue'
    BY DEF EInv, BatchIsTrue, True, threadVars, Peer, SocketsHaveSlots
  <1>4. \A cl \in Clients : \A ev \in {"in", "out"} : BeingHandled(cl, ev) => BeingHandled(cl, ev)'
    BY DEF BeingHandled, SlotOf, threadVars
  <1>5. NoLostWakeup'
    BY <1>4 DEF EInv, NoLostWakeup
  <1> QED BY <1>1, <1>2, <1>3, <1>5 DEF EInv

\* start_close on live connections, of which nothing is left to handle.
LEMMA CloseKeeps ==
    ASSUME EInv, NEW ids \in SUBSET Slots, \A id \in ids : conns[id].live, CloseAll(ids),
           UNCHANGED <<sent, ended, cur>>,
           read' \in [Clients -> Nat], room' \in [Clients -> 0 .. SendBuffer],
           got' \in [Clients -> [req : Nat, unit : 1 .. RespLen]],
           \A cl \in Clients : read'[cl] = read[cl] \/ \E id \in ids : cl = Peer(id),
           \A cl \in Clients : room'[cl] = room[cl] \/ \E id \in ids : cl = Peer(id),
           batch' \subseteq batch, pc' = "batch",
           \A e \in batch : e \notin batch' => e.id \in ids \/ e.id = 0,
           \A e \in batch' : e.id \notin ids,
           pc \in {"batch", "accept"} \/ cur \in ids
    PROVE  EInv'
  <1> DEFINE socks == {conns[id].sock : id \in ids}
  <1>0. /\ \A id \in Slots : conns'[id] = IF id \in ids THEN Destroy(conns[id]) ELSE conns[id]
        /\ conns' \in [Slots -> ConnRecord] /\ Proper'
    <2>1. conns' = [id \in Slots |-> IF id \in ids THEN Destroy(conns[id]) ELSE conns[id]]
      BY DEF CloseAll
    <2>2. \A id \in Slots : conns'[id] = IF id \in ids THEN Destroy(conns[id]) ELSE conns[id]
      BY <2>1
    <2>3. \A id \in Slots : Sound(conns'[id])
      <3> TAKE id \in Slots
      <3>1. Sound(conns[id]) /\ Sound(Destroy(conns[id]))
        BY Types, SlotRecords, Zenon
      <3> QED BY <2>2, <3>1
    <2>4. \A id \in Slots : conns'[id] \in ConnRecord
      BY <2>3 DEF Sound
    <2>5. conns' \in [Slots -> ConnRecord]
      BY <2>1, <2>2, <2>4
    <2> QED BY <2>2, <2>3, <2>5 DEF Proper
  <1>1. /\ \A id \in Slots : conns'[id].live <=> conns[id].live /\ id \notin ids
        /\ \A id \in Slots : Peer(id)' = Peer(id)
        /\ \A id \in Slots : conns'[id].live => conns'[id] = conns[id]
    <2> SUFFICES ASSUME NEW id \in Slots
                 PROVE  /\ conns'[id].live <=> conns[id].live /\ id \notin ids
                        /\ conns'[id].sock = conns[id].sock
                        /\ conns'[id].live => conns'[id] = conns[id]
      BY DEF Peer
    <2>1. ~Destroy(conns[id]).live /\ Destroy(conns[id]).sock = conns[id].sock
      BY Types, SlotRecords, Zenon
    <2> QED BY <1>0, <2>1
  <1>2. /\ \A id \in Slots : conns[id].live => (Peer(id) \in socks <=> id \in ids)
        /\ socks \subseteq Clients
    BY DEF EInv, SocketsHaveSlots, Peer
  <1>3. /\ \A cl \in Clients : interest'[cl] = IF cl \in socks THEN "none" ELSE interest[cl]
        /\ \A cl \in Clients : srv'[cl] = IF cl \in socks THEN "closed" ELSE srv[cl]
        /\ ready' = ready \ socks
        /\ interest' \in [Clients -> {"none", "in", "out"}]
        /\ srv' \in [Clients -> {"none", "backlog", "open", "closed"}]
    BY Types DEF CloseAll
  <1>a. \A cl \in Clients : cl \notin socks => read'[cl] = read[cl] /\ room'[cl] = room[cl]
    BY DEF Peer
  <1> HIDE DEF socks
  <1>4. freeList' \in Seq(Slots) /\ SlotsConserved'
    <2>1. FreeConnIds(ids)
      BY DEF CloseAll
    <2>2. /\ freeList \in Seq(Slots) /\ IsInjective(freeList)
          /\ ids \cap ToSet(freeList) = {}
      BY Types DEF EInv, SlotsConserved
    <2>3. /\ freeList' \in Seq(Slots) /\ IsInjective(freeList')
          /\ ToSet(freeList') = ToSet(freeList) \cup ids
      BY <2>1, <2>2, FreeReturns DEF FreeConnIds
    <2>4. ToSet(freeList) = {id \in Slots : ~conns[id].live}
      BY DEF EInv, SlotsConserved
    <2>5. ToSet(freeList') = {id \in Slots : ~conns'[id].live}
      BY <1>1, <2>3, <2>4
    <2> QED BY <2>3, <2>5 DEF SlotsConserved
  <1>5. TypeOK'
    <2>1. LoopTypeOK'
      BY <1>0, <1>3, <1>4, Types DEF LoopTypeOK, Proper, Sound
    <2> QED BY <1>3, <2>1, Types DEF EInv, TypeOK
  <1>6. SocketsHaveSlots'
    <2>1. \A id \in Slots : conns'[id].live => Peer(id)' \in Clients /\ srv'[Peer(id)'] = "open"
      BY <1>1, <1>2, <1>3 DEF EInv, SocketsHaveSlots
    <2>2. \A i, j \in Slots : conns'[i].live /\ conns'[j].live /\ Peer(i)' = Peer(j)' => i = j
      BY <1>1 DEF EInv, SocketsHaveSlots
    <2>3. \A cl \in Clients : srv'[cl] = "open" => \E id \in Slots : conns'[id].live /\ Peer(id)' = cl
      BY <1>1, <1>2, <1>3 DEF EInv, SocketsHaveSlots
    <2>4. \A cl \in Clients : srv'[cl] # "open" => interest'[cl] = "none"
      BY <1>3 DEF EInv, SocketsHaveSlots
    <2> QED BY <2>1, <2>2, <2>3, <2>4 DEF SocketsHaveSlots
  <1>7. \A id \in Slots : conns'[id].live => /\ conns[id].live /\ id \notin ids
                                             /\ interest'[Peer(id)'] = interest[Peer(id)]
                                             /\ read'[Peer(id)'] = read[Peer(id)]
    BY <1>1, <1>2, <1>3, <1>a DEF EInv, SocketsHaveSlots
  <1>8. LiveOnesWait'
    <2> SUFFICES ASSUME NEW id \in Slots, conns'[id].live PROVE Waits(id)'
      BY DEF LiveOnesWait
    <2>1. Waits(id) /\ conns'[id] = conns[id] /\ Peer(id)' = Peer(id)
      BY <1>1 DEF EInv, LiveOnesWait
    <2>2. interest'[Peer(id)] = interest[Peer(id)] /\ read'[Peer(id)] = read[Peer(id)]
      BY <1>7, <2>1
    <2> QED BY <2>1, <2>2 DEF Waits
  <1>9. BatchIsTrue'
    BY <1>1, <1>7 DEF EInv, BatchIsTrue, True, Readable
  <1>10. DrainsOne'
    BY DEF DrainsOne
  <1>11. NoLostWakeup'
    <2> SUFFICES ASSUME NEW cl \in Clients, srv'[cl] = "open", NEW ev \in {"in", "out"},
                        BeingHandled(cl, ev)
                 PROVE  BeingHandled(cl, ev)'
      BY <1>3, <1>a DEF EInv, NoLostWakeup, Readable, Writable
    <2>1. cl \notin socks
      BY <1>3
    <2>2. \A id \in SlotOf(cl) : id \in Slots /\ id \notin ids /\ id \in SlotOf(cl)' /\ id # 0
      BY <1>1, <1>2, <2>1, Types DEF SlotOf, Peer
    <2> QED BY <2>2 DEF BeingHandled
  <1> QED BY <1>0, <1>4, <1>5, <1>6, <1>8, <1>9, <1>10, <1>11 DEF EInv

\* A handler gave the connection of a drain loop back: it goes on, registered
\* anew for what it waits for.
LEMMA ContinueKeeps ==
    ASSUME EInv, pc \in {"recv", "send"}, NEW h, Serves(h, conns[cur]), h.io # "close", Perform(h),
           UNCHANGED <<sent, ended, batch, cur>>,
           read' \in [Clients -> Nat], room' \in [Clients -> 0 .. SendBuffer],
           got' \in [Clients -> [req : Nat, unit : 1 .. RespLen]],
           \A cl \in Clients : cl # Peer(cur) => read'[cl] = read[cl] /\ room'[cl] = room[cl],
           conns[cur].idle => read' = read
    PROVE  EInv'
  <1> DEFINE me == h.conn.sock
             ev == IF h.io = "recv" THEN "in" ELSE "out"
  <1>0. h.conn.sock = conns[cur].sock
    BY DEF Serves
  <1>1. /\ cur \in Slots /\ conns[cur].live /\ me \in Clients /\ srv[me] = "open"
        /\ \A e \in batch : e.id # cur
        /\ \A id \in Slots : conns[id].live /\ conns[id].sock = me => id = cur
        /\ conns[cur].sock = me
    BY <1>0 DEF EInv, DrainsOne, SocketsHaveSlots, Peer
  <1>2. /\ Sound(h.conn) /\ h.conn.live /\ h.io \in {"recv", "send"}
        /\ h.io = "recv" => h.conn.state = "reading" /\ Len(h.conn.buf) < RecvCap
        /\ h.io = "send" => h.conn.state = "writing" /\ h.conn.sendOff < h.conn.sendLen
        /\ h.conn.idle => conns[cur].idle
    BY <1>1 DEF Serves
  <1>3. /\ conns' = [conns EXCEPT ![cur] = h.conn] /\ UNCHANGED <<freeList, srv>>
        /\ interest' = [interest EXCEPT ![me] = ev]
        /\ ready' = IF me \in Awaited' THEN ready \cup {me} ELSE ready
        /\ pc' = IF Breaks(h.io) THEN "batch" ELSE pc
    BY <1>2 DEF Perform, Register
  <1> HIDE DEF ev, me
  <1>4. ev \in {"in", "out"} /\ (ev = "in" <=> h.io = "recv") /\ (ev = "out" <=> h.io = "send")
    BY <1>2 DEF ev
  <1>5. /\ \A id \in Slots : conns'[id] = IF id = cur THEN h.conn ELSE conns[id]
        /\ \A cl \in Clients : interest'[cl] = IF cl = me THEN ev ELSE interest[cl]
        /\ interest' \in [Clients -> {"none", "in", "out"}]
        /\ ready' \in SUBSET Clients /\ ready \subseteq ready'
    BY <1>1, <1>3, <1>4, Types
  <1>6. /\ \A id \in Slots : conns'[id].live <=> conns[id].live
        /\ \A id \in Slots : Peer(id)' = Peer(id)
    BY <1>1, <1>2, <1>5 DEF Peer, me
  <1>7. conns' \in [Slots -> ConnRecord] /\ Proper'
    <2>1. \A id \in Slots : Sound(conns'[id])
      BY <1>2, <1>5, Types, Zenon
    <2>2. \A id \in Slots : conns'[id] \in ConnRecord
      BY <2>1 DEF Sound
    <2>3. conns' = [id \in Slots |-> conns'[id]]
      BY <1>3, Types
    <2> QED BY <2>1, <2>2, <2>3 DEF Proper
  <1>8. SlotsConserved' /\ SocketsHaveSlots'
    BY <1>1, <1>3, <1>5, <1>6 DEF EInv, SlotsConserved, SocketsHaveSlots
  <1>9. TypeOK'
    <2>1. LoopTypeOK'
      BY <1>3, <1>7, Types DEF LoopTypeOK, Proper, Sound
    <2>2. pc' \in {"wait", "batch", "accept", "recv", "send"}
      BY <1>3, Types
    <2> QED BY <1>5, <2>1, <2>2, Types DEF EInv, TypeOK
  <1>10. LiveOnesWait'
    <2> SUFFICES ASSUME NEW id \in Slots, conns'[id].live PROVE Waits(id)'
      BY DEF LiveOnesWait
    <2>1. CASE id = cur
      <3>1. conns'[id] = h.conn /\ Peer(id)' = me /\ interest'[me] = ev
        BY <1>1, <1>5, <1>6, <2>1 DEF Peer
      <3>2. h.conn.idle => ended'[me] = "gone" /\ read'[me] = sent'[me]
        BY <1>1, <1>2 DEF EInv, LiveOnesWait, Waits, Peer
      <3> QED BY <1>2, <1>4, <3>1, <3>2 DEF Waits
    <2>2. CASE id # cur
      <3>1. conns'[id] = conns[id] /\ Peer(id)' = Peer(id) /\ Peer(id) # me /\ Peer(id) \in Clients
        BY <1>1, <1>5, <1>6, <2>2 DEF EInv, SocketsHaveSlots, Peer
      <3>2. interest'[Peer(id)] = interest[Peer(id)] /\ read'[Peer(id)] = read[Peer(id)]
        BY <1>1, <1>5, <3>1 DEF Peer
      <3> QED BY <1>6, <3>1, <3>2 DEF EInv, LiveOnesWait, Waits
    <2> QED BY <2>1, <2>2
  <1>11. BatchIsTrue'
    <2>1. \A e \in batch : e.id \in Slots /\ conns[e.id].live =>
             /\ conns'[e.id].live /\ Peer(e.id)' = Peer(e.id)
             /\ interest'[Peer(e.id)] = interest[Peer(e.id)] /\ read'[Peer(e.id)] = read[Peer(e.id)]
      BY <1>1, <1>5, <1>6 DEF EInv, SocketsHaveSlots, Peer
    <2> QED BY <2>1 DEF EInv, BatchIsTrue, True, Readable
  <1>12. DrainsOne'
    <2>1. pc' \in {"recv", "send"} => pc' = pc /\ ev = IF pc = "recv" THEN "in" ELSE "out"
      BY <1>2, <1>3, <1>4 DEF Breaks
    <2>2. pc' # "wait"
      BY <1>3
    <2> QED BY <1>1, <1>5, <1>6, <2>1, <2>2 DEF EInv, DrainsOne, Peer
  <1>13. NoLostWakeup'
    <2> SUFFICES ASSUME NEW cl \in Clients, srv'[cl] = "open", NEW w \in {"in", "out"},
                        interest'[cl] = w, w = "in" => Readable(cl)', w = "out" => Writable(cl)'
                 PROVE  cl \in ready' \/ BeingHandled(cl, w)'
      BY DEF NoLostWakeup
    <2>1. CASE cl = me
      <3>1. ev = w
        BY <1>5, <2>1
      <3>2. me \in Awaited'
        BY <2>1, <3>1 DEF Awaited
      <3> QED BY <1>3, <2>1, <3>2
    <2>2. CASE cl # me
      <3>1. /\ interest[cl] = w /\ srv[cl] = "open"
        BY <1>3, <1>5, <2>2
      <3>2. w = "in" => Readable(cl)
        BY <1>1, <1>5, <2>2 DEF Readable, Peer
      <3>3. w = "out" => Writable(cl)
        BY <1>1, <1>5, <2>2 DEF Writable, Peer
      <3>4. cl \in ready \/ BeingHandled(cl, w)
        BY <3>1, <3>2, <3>3 DEF EInv, NoLostWakeup
      <3>5. BeingHandled(cl, w) => BeingHandled(cl, w)'
        BY <1>1, <1>6, <2>2 DEF BeingHandled, SlotOf, Peer
      <3> QED BY <1>5, <3>4, <3>5
    <2> QED BY <2>1, <2>2
  <1> QED BY <1>7, <1>8, <1>9, <1>10, <1>11, <1>12, <1>13 DEF EInv

-----------------------------------------------------------------------------
(* The clients                                                             *)

\* What a client does to its end of the connection.
LEMMA ClientActsKeep ==
    ASSUME EInv, NEW me \in Clients,
           \/ ClientConnects(me) \/ ClientWrites(me) \/ ClientFinishes(me)
           \/ ClientResets(me) \/ ClientReads(me)
    PROVE  EInv'
  <1> USE DEF kernelVars, threadVars, loopVars
  <1>1. CASE ClientConnects(me)
    <2>1. TypeOK'
      BY <1>1, Types DEF ClientConnects, Connect, EInv, TypeOK, LoopTypeOK
    <2>2. \A cl \in Clients : srv'[cl] = "open" <=> srv[cl] = "open"
      BY <1>1, Types DEF ClientConnects, Connect
    <2>3. /\ \A cl \in Clients : Readable(cl) => Readable(cl)'
          /\ \A cl \in Clients : Readable(cl)' => Readable(cl)
          /\ \A cl \in Clients : Writable(cl)' => Writable(cl)
      BY <1>1 DEF ClientConnects, Connect, Readable, Writable
    <2>4. UNCHANGED <<conns, freeList, sent, read, ended, interest, ready, threadVars>>
      BY <1>1 DEF ClientConnects, Connect
    <2> QED BY <2>1, <2>2, <2>3, <2>4, ClientKeeps
  <1>2. CASE ClientWrites(me)
    <2>0. /\ sent' = [sent EXCEPT ![me] = @ + 1] /\ ended[me] = "no"
          /\ ready' = IF interest[me] \in {"in"} THEN ready \cup {me} ELSE ready
          /\ UNCHANGED <<conns, freeList, read, ended, got, srv, interest, room, threadVars>>
      BY <1>2 DEF ClientWrites, Write, Wake
    <2>1. TypeOK'
      BY <2>0, Types, SMTT(30) DEF EInv, TypeOK, LoopTypeOK
    <2>2. \A cl \in Clients : cl # me => sent'[cl] = sent[cl]
      BY <2>0, Types
    <2>3. sent'[me] = sent[me] + 1 /\ \A cl \in Clients : sent[cl] \in Nat /\ read[cl] \in Nat
      BY <2>0, Types
    <2>4. \A cl \in Clients : Readable(cl) => Readable(cl)'
      BY <2>0, <2>2, <2>3 DEF Readable
    <2>5. \A cl \in Clients : interest[cl] = "in" /\ Readable(cl)' => Readable(cl) \/ cl \in ready'
      BY <2>0, <2>2 DEF Readable
    <2>6. \A cl \in Clients : Writable(cl)' <=> Writable(cl)
      BY <2>0 DEF Writable
    <2>7. \A cl \in Clients : ended[cl] = "gone" /\ read[cl] = sent[cl] =>
                                  ended'[cl] = "gone" /\ read'[cl] = sent'[cl]
      BY <2>0, <2>2
    <2> QED BY <2>0, <2>1, <2>4, <2>5, <2>6, <2>7, ClientKeeps
  <1>3. CASE ClientFinishes(me) \/ ClientResets(me)
    <2>0. /\ \/ ended' = [ended EXCEPT ![me] = "fin"] /\ ended[me] = "no"
             \/ ended' = [ended EXCEPT ![me] = "rst"] /\ ended[me] \in {"no", "fin"}
                /\ (interest[me] = "out" => me \in ready')
          /\ interest[me] = "in" => me \in ready'
          /\ ready \subseteq ready' /\ ready' \subseteq Clients
          /\ UNCHANGED <<conns, freeList, sent, read, got, srv, interest, room, threadVars>>
      BY <1>3, Types DEF ClientFinishes, ClientResets, Finish, Reset, Wake
    <2>1. TypeOK'
      BY <2>0, Types DEF EInv, TypeOK, LoopTypeOK
    <2>2. /\ \A cl \in Clients : cl # me => ended'[cl] = ended[cl]
          /\ \/ ended'[me] = "fin" /\ ended[me] = "no"
             \/ ended'[me] = "rst" /\ ended[me] # "rst" /\ ended[me] # "gone"
                /\ (interest[me] = "out" => me \in ready')
      BY <2>0, Types
    <2>3. \A cl \in Clients : Readable(cl) => Readable(cl)'
      BY <2>0, <2>2 DEF Readable
    <2>4. \A cl \in Clients : interest[cl] = "in" /\ Readable(cl)' => Readable(cl) \/ cl \in ready'
      BY <2>0, <2>2 DEF Readable
    <2>5. \A cl \in Clients : interest[cl] = "out" /\ Writable(cl)' => Writable(cl) \/ cl \in ready'
      BY <2>0, <2>2 DEF Writable
    <2> QED BY <2>0, <2>1, <2>2, <2>3, <2>4, <2>5, ClientKeeps
  <1>4. CASE ClientReads(me)
    <2>0. /\ room' = [room EXCEPT ![me] = SendBuffer]
          /\ interest[me] = "out" => me \in ready'
          /\ ready \subseteq ready' /\ ready' \subseteq Clients
          /\ UNCHANGED <<loopVars, interest, threadVars>>
      BY <1>4, Types DEF ClientReads, Wake
    <2>1. TypeOK'
      <3>1. room' \in [Clients -> 0 .. SendBuffer]
        BY <2>0, Types, SendBufferAssumption
      <3> QED BY <2>0, <3>1, Types DEF EInv, TypeOK, LoopTypeOK
    <2>2. \A cl \in Clients : Readable(cl)' <=> Readable(cl)
      BY <2>0 DEF Readable
    <2>3. \A cl \in Clients : interest[cl] = "out" /\ Writable(cl)' => Writable(cl) \/ cl \in ready'
      BY <2>0, Types DEF Writable
    <2> QED BY <2>0, <2>1, <2>2, <2>3, ClientKeeps
  <1> QED BY <1>1, <1>2, <1>3, <1>4

\* The idle timeout elapses for a peer that is gone.
LEMMA IdleKeeps ==
    ASSUME QuietPeers, EInv, NEW me \in Clients, IdleTimeElapses(me)
    PROVE  EInv'
  <1>1. PICK id \in SlotOf(me) : conns' = [conns EXCEPT ![id].idle = TRUE]
    BY DEF IdleTimeElapses, IdleElapses
  <1>2. /\ srv[me] = "open" /\ ended[me] \in {"no", "gone"} /\ read[me] = sent[me]
        /\ ended' = [ended EXCEPT ![me] = "gone"]
        /\ UNCHANGED <<freeList, sent, read, got, srv, interest, ready, room, batch, pc, cur>>
    BY DEF IdleTimeElapses, IdleElapses, QuietPeers, kernelVars, threadVars
  <1>3. id \in Slots /\ conns[id].live /\ Peer(id) = me
    BY DEF SlotOf, Peer
  <1> DEFINE c == [conns[id] EXCEPT !.idle = TRUE]
  <1>4. \A i \in Slots : conns'[i] = IF i = id THEN c ELSE conns[i]
    BY <1>1, <1>3, Types
  <1>5. /\ Sound(c) /\ c.live /\ c.sock = conns[id].sock /\ c.state = conns[id].state
        /\ c.buf = conns[id].buf /\ c.sendLen = conns[id].sendLen /\ c.sendOff = conns[id].sendOff
    <2>1. Sound(conns[id])
      BY <1>3, Types, Zenon
    <2>2. /\ c \in ConnRecord /\ c.live = conns[id].live /\ c.sock = conns[id].sock
          /\ c.state = conns[id].state /\ c.buf = conns[id].buf
          /\ c.sendLen = conns[id].sendLen /\ c.sendOff = conns[id].sendOff
      BY <2>1 DEF Sound, ConnRecord
    <2> HIDE DEF c
    <2> QED BY <1>3, <2>1, <2>2 DEF Sound
  <1> HIDE DEF c
  <1>6. /\ \A i \in Slots : conns'[i].live <=> conns[i].live
        /\ \A i \in Slots : Peer(i)' = Peer(i)
        /\ \A i \in Slots : /\ conns'[i].state = conns[i].state /\ conns'[i].buf = conns[i].buf
                           /\ conns'[i].sendLen = conns[i].sendLen
                           /\ conns'[i].sendOff = conns[i].sendOff
        /\ \A i \in Slots : conns'[i].idle => conns[i].idle \/ i = id
    BY <1>3, <1>4, <1>5 DEF Peer
  <1>7. conns' \in [Slots -> ConnRecord] /\ Proper'
    <2>1. \A i \in Slots : Sound(conns'[i])
      BY <1>4, <1>5, Types, Zenon
    <2>2. \A i \in Slots : conns'[i] \in ConnRecord
      BY <2>1 DEF Sound
    <2>3. conns' = [i \in Slots |-> conns'[i]]
      BY <1>1, Types
    <2> QED BY <2>1, <2>2, <2>3 DEF Proper
  <1>8. /\ \A cl \in Clients : ended'[cl] = IF cl = me THEN "gone" ELSE ended[cl]
        /\ ended' \in [Clients -> {"no", "fin", "rst", "gone"}]
    BY <1>2, Types
  <1>9. TypeOK'
    <2>1. LoopTypeOK'
      BY <1>2, <1>7, <1>8, Types DEF LoopTypeOK, Proper, Sound
    <2> QED BY <1>2, <2>1 DEF EInv, TypeOK
  <1>10. SlotsConserved' /\ SocketsHaveSlots' /\ DrainsOne'
    BY <1>2, <1>6 DEF EInv, SlotsConserved, SocketsHaveSlots, DrainsOne
  <1>11. LiveOnesWait'
    <2> SUFFICES ASSUME NEW i \in Slots, conns'[i].live PROVE Waits(i)'
      BY DEF LiveOnesWait
    <2>1. Waits(i) /\ Peer(i) \in Clients /\ Peer(i)' = Peer(i)
      BY <1>6 DEF EInv, LiveOnesWait, SocketsHaveSlots
    <2> QED BY <1>2, <1>3, <1>6, <1>8, <2>1 DEF Waits
  <1>12. /\ \A cl \in Clients : Readable(cl)' => Readable(cl)
         /\ \A cl \in Clients : Writable(cl)' => Writable(cl)
    BY <1>2, <1>8 DEF Readable, Writable
  <1>13. BatchIsTrue'
    <2>1. ASSUME NEW e \in batch, True(e) PROVE True(e)'
      <3>1. CASE e.id = 0
        BY <2>1, <3>1, Types DEF True
      <3>2. CASE e.id \in Slots /\ conns[e.id].live
        <4>1. /\ Peer(e.id) \in Clients /\ Peer(e.id)' = Peer(e.id) /\ conns'[e.id].live
              /\ interest' = interest
          BY <1>2, <1>6, <3>2 DEF EInv, SocketsHaveSlots
        <4>2. ended[Peer(e.id)] = "rst" => ended'[Peer(e.id)] = "rst"
          BY <1>2, <1>8, <4>1
        <4>3. Readable(Peer(e.id)) => Readable(Peer(e.id))'
          <5>1. Readable(Peer(e.id)) => read'[Peer(e.id)] < sent'[Peer(e.id)]
                                          \/ ended'[Peer(e.id)] \in {"fin", "rst"}
            BY <1>2, <1>8, <4>1 DEF Readable
          <5> QED BY <4>1, <5>1 DEF Readable
        <4> QED BY <2>1, <3>2, <4>1, <4>2, <4>3, Types DEF True
      <3> QED BY <2>1, <3>1, <3>2 DEF True
    <2> QED BY <1>2, <2>1 DEF EInv, BatchIsTrue
  <1>14. NoLostWakeup'
    <2>1. \A cl \in Clients : \A ev \in {"in", "out"} : BeingHandled(cl, ev) => BeingHandled(cl, ev)'
      BY <1>2, <1>6 DEF BeingHandled, SlotOf, Peer
    <2> SUFFICES ASSUME NEW cl \in Clients, srv'[cl] = "open"
                 PROVE  /\ interest'[cl] = "in" /\ Readable(cl)'
                              => cl \in ready' \/ BeingHandled(cl, "in")'
                        /\ interest'[cl] = "out" /\ Writable(cl)'
                              => cl \in ready' \/ BeingHandled(cl, "out")'
      BY DEF NoLostWakeup
    <2>2. srv[cl] = "open" /\ interest'[cl] = interest[cl] /\ ready' = ready
      BY <1>2
    <2>3. /\ interest[cl] = "in" /\ Readable(cl) => cl \in ready \/ BeingHandled(cl, "in")
          /\ interest[cl] = "out" /\ Writable(cl) => cl \in ready \/ BeingHandled(cl, "out")
      BY <2>2 DEF EInv, NoLostWakeup
    <2> QED BY <1>12, <2>1, <2>2, <2>3
  <1> QED BY <1>7, <1>9, <1>10, <1>11, <1>13, <1>14 DEF EInv

-----------------------------------------------------------------------------
(* The thread                                                              *)

\* A connection has at most one event, that of what holds for it.
LEMMA Reported ==
    ASSUME EInv, NEW id \in Slots, conns[id].live, NEW e \in Report(id)
    PROVE  /\ True(e) /\ e.id = id /\ Report(id) = {e}
           /\ e \in [what : {"listen", "timer", "hup", "in", "out"}, id : {0} \cup Slots]
  BY DEF Report, Event, True, Peer

\* epoll_wait reports every edge there is.
LEMMA WaitKeeps ==
    ASSUME EInv, Wait
    PROVE  EInv'
  <1> DEFINE woken == UNION {SlotOf(cl) : cl \in ready}
             reports == UNION {Report(id) : id \in woken}
  <1>1. PICK timer \in SUBSET {Event("timer", 0)} :
           batch' = timer \cup {Event("listen", 0) : cl \in Connecting} \cup reports
    BY DEF Wait
  <1>2. /\ pc = "wait" /\ pc' = "batch" /\ ready' = {} /\ batch = {} /\ cur' = cur
        /\ UNCHANGED <<conns, freeList, sent, read, ended, got, srv, interest, room>>
    BY DEF Wait, EInv, DrainsOne, loopVars
  <1>3. \A id \in woken : id \in Slots /\ conns[id].live
    BY DEF SlotOf
  <1>4. \A e \in batch' : e \in {Event("timer", 0), Event("listen", 0)} \/ \E id \in woken : e \in Report(id)
    BY <1>1
  <1> HIDE DEF woken
  <1>5. ASSUME NEW e \in batch'
        PROVE  /\ True(e)
               /\ e.id = 0 \/ (e.id \in woken /\ e \in Report(e.id))
               /\ e \in [what : {"listen", "timer", "hup", "in", "out"}, id : {0} \cup Slots]
    <2>1. CASE e \in {Event("timer", 0), Event("listen", 0)}
      BY <2>1 DEF Event, True
    <2>2. CASE \E id \in woken : e \in Report(id)
      BY <1>3, <2>2, Reported
    <2> QED BY <1>4, <2>1, <2>2
  <1>6. TypeOK' /\ Proper' /\ SlotsConserved' /\ SocketsHaveSlots' /\ LiveOnesWait' /\ DrainsOne'
    <2>1. TypeOK'
      BY <1>2, <1>5 DEF EInv, TypeOK, LoopTypeOK
    <2> QED BY <1>2, <2>1 DEF EInv, Proper, SlotsConserved, SocketsHaveSlots, LiveOnesWait,
                              Waits, Peer, DrainsOne
  <1>7. BatchIsTrue'
    <2>1. \A e \in batch' : True(e)'
      BY <1>2, <1>5 DEF True, Peer, Readable
    <2>2. \A e, f \in batch' : e.id = f.id /\ e.id # 0 => e = f
      BY <1>3, <1>5, Reported
    <2> QED BY <2>1, <2>2 DEF BatchIsTrue
  <1>8. NoLostWakeup'
    <2> SUFFICES ASSUME NEW cl \in Clients, srv[cl] = "open", NEW ev \in {"in", "out"},
                        interest[cl] = ev, ev = "in" => Readable(cl), ev = "out" => Writable(cl)
                 PROVE  BeingHandled(cl, ev)'
      BY <1>2 DEF NoLostWakeup, Readable, Writable
    <2>1. cl \in ready
      BY <1>2, Types DEF EInv, NoLostWakeup, BeingHandled
    <2>2. PICK id \in Slots : SlotOf(cl) = {id}
      BY OneSlot DEF SlotOf
    <2>3. id \in woken /\ conns[id].live /\ conns[id].sock = cl
      BY <2>1, <2>2 DEF SlotOf, woken
    <2>4. PICK e : e \in Report(id) /\ e.id = id /\ e.what \in {ev, "hup"}
      <3> DEFINE what == IF ended[cl] = "rst" THEN "hup" ELSE ev
      <3>1. Event(what, id) \in Report(id)
        BY <2>3 DEF Report
      <3>2. Event(what, id).id = id /\ Event(what, id).what \in {ev, "hup"}
        BY DEF Event
      <3> QED BY <3>1, <3>2
    <2>5. e \in batch' /\ id \in SlotOf(cl)'
      BY <1>1, <1>2, <2>2, <2>3, <2>4 DEF SlotOf
    <2> QED BY <2>4, <2>5 DEF BeingHandled
  <1> QED BY <1>6, <1>7, <1>8 DEF EInv

\* Steps that handle an event, or end a loop, without a call of a handler.
LEMMA EndOfBatchKeeps == ASSUME EInv, EndOfBatch PROVE EInv'
  <1>1. DrainsOne'
    BY DEF EndOfBatch, DrainsOne
  <1>2. \A cl \in Clients : ~BeingHandled(cl, "in") /\ ~BeingHandled(cl, "out")
    BY DEF EndOfBatch, BeingHandled
  <1> QED BY <1>1, <1>2, ThreadKeeps DEF EndOfBatch

\* The queue of the listening socket is empty: back to the batch.
LEMMA AcceptEmptyKeeps == ASSUME EInv, AcceptEmpty PROVE EInv'
  <1>1. DrainsOne'
    BY DEF AcceptEmpty, DrainsOne
  <1>2. /\ \A cl \in Clients : BeingHandled(cl, "in") => BeingHandled(cl, "in")'
        /\ \A cl \in Clients : BeingHandled(cl, "out") => BeingHandled(cl, "out")'
    BY DEF AcceptEmpty, BeingHandled, SlotOf, loopVars
  <1>3. /\ UNCHANGED <<loopVars, kernelVars>> /\ batch' \subseteq batch
        /\ pc' \in {"wait", "batch", "accept", "recv", "send"} /\ cur' \in {0} \cup Slots
    BY Types DEF AcceptEmpty
  <1> QED BY <1>1, <1>2, <1>3, ThreadKeeps

\* An event of the listening socket concerns no connection.
LEMMA HandleListenKeeps == ASSUME EInv, HandleListen PROVE EInv'
  <1>1. DrainsOne'
    BY DEF HandleListen, DrainsOne
  <1>2. /\ \A cl \in Clients : BeingHandled(cl, "in") => BeingHandled(cl, "in")'
        /\ \A cl \in Clients : BeingHandled(cl, "out") => BeingHandled(cl, "out")'
    BY Types DEF HandleListen, BeingHandled, SlotOf, loopVars, Event
  <1>3. /\ UNCHANGED <<loopVars, kernelVars>> /\ batch' \subseteq batch
        /\ pc' \in {"wait", "batch", "accept", "recv", "send"} /\ cur' \in {0} \cup Slots
    BY Types DEF HandleListen
  <1> QED BY <1>1, <1>2, <1>3, ThreadKeeps

\* From the event of a connection its drain loop takes over.
LEMMA HandleReadyKeeps == ASSUME EInv, HandleReady PROVE EInv'
  <1>1. PICK e \in batch : /\ e.what \in {"in", "out"} /\ batch' = batch \ {e}
                           /\ IF conns[e.id].live
                              THEN cur' = e.id /\ pc' = IF e.what = "in" THEN "recv" ELSE "send"
                              ELSE UNCHANGED <<pc, cur>>
    BY DEF HandleReady
  <1>2. /\ pc = "batch" /\ UNCHANGED <<loopVars, kernelVars>>
    BY DEF HandleReady
  <1>3. /\ True(e) /\ e.id \in Slots /\ conns[e.id].live
        /\ e.what = "in" => interest[Peer(e.id)] = "in"
        /\ e.what = "out" => interest[Peer(e.id)] = "out"
        /\ \A f \in batch' : f \in batch /\ f.id # e.id
    <2>1. True(e) /\ \A f \in batch : e.id = f.id /\ e.id # 0 => e = f
      BY DEF EInv, BatchIsTrue
    <2>2. /\ e.id \in Slots /\ conns[e.id].live
          /\ e.what = "in" => interest[Peer(e.id)] = "in"
          /\ e.what = "out" => interest[Peer(e.id)] = "out"
      BY <1>1, <2>1 DEF True
    <2>3. e.id # 0
      BY <2>2, Types
    <2> QED BY <1>1, <2>1, <2>2, <2>3
  <1>4. cur' = e.id /\ pc' = IF e.what = "in" THEN "recv" ELSE "send"
    BY <1>1, <1>3
  <1>5. UNCHANGED <<conns, interest>>
    BY <1>2 DEF loopVars, kernelVars
  <1>6. DrainsOne'
    BY <1>1, <1>3, <1>4, <1>5 DEF DrainsOne, Peer
  <1>7. ASSUME NEW cl \in Clients, NEW ev \in {"in", "out"}, interest[cl] = ev, BeingHandled(cl, ev)
        PROVE  BeingHandled(cl, ev)'
    <2>1. PICK id \in SlotOf(cl) : \E f \in batch : f.id = id /\ f.what \in {ev, "hup"}
      BY <1>2, <1>7 DEF BeingHandled
    <2>2. id \in SlotOf(cl)' /\ Peer(id) = cl
      BY <1>5, <2>1 DEF SlotOf, Peer
    <2>3. CASE id = e.id
      <3>1. e.what = ev
        BY <1>1, <1>3, <1>7, <2>2, <2>3
      <3> QED BY <1>4, <2>2, <2>3, <3>1 DEF BeingHandled
    <2>4. CASE id # e.id
      BY <1>1, <2>1, <2>2, <2>4 DEF BeingHandled
    <2> QED BY <2>3, <2>4
  <1> QED BY <1>1, <1>2, <1>3, <1>4, <1>6, <1>7, ThreadKeeps

\* A drain loop stops only when there is nothing more for it.
LEMMA BlocksKeep == ASSUME EInv, RecvBlocks \/ SendBlocks PROVE EInv'
  <1>1. /\ pc \in {"recv", "send"} /\ pc' = "batch" /\ UNCHANGED <<loopVars, kernelVars, batch, cur>>
        /\ pc = "recv" => ~Readable(Peer(cur)) \/ Len(conns[cur].buf) = RecvCap
        /\ pc = "send" => \/ conns[cur].sendOff >= conns[cur].sendLen
                          \/ room[Peer(cur)] = 0 /\ ended[Peer(cur)] # "rst"
    <2>1. CASE RecvBlocks
      BY <2>1 DEF RecvBlocks, Peer
    <2>2. CASE SendBlocks
      BY <2>2 DEF SendBlocks, Peer
    <2> QED BY <2>1, <2>2
  <1>2. /\ cur \in Slots /\ conns[cur].live /\ Waits(cur)
        /\ interest[Peer(cur)] = IF pc = "recv" THEN "in" ELSE "out"
        /\ Sound(conns[cur])
    <2>1. /\ cur \in Slots /\ conns[cur].live /\ Waits(cur)
          /\ interest[Peer(cur)] = IF pc = "recv" THEN "in" ELSE "out"
      BY <1>1 DEF EInv, DrainsOne, LiveOnesWait
    <2> QED BY <2>1, Types, Zenon
  <1>3. pc = "recv" => ~Readable(Peer(cur))
    BY <1>1, <1>2, CapAssumption DEF Waits, Sound, ConnRecord
  <1>4. pc = "send" => ~Writable(Peer(cur))
    <2>1. conns[cur].sendOff \in Nat /\ conns[cur].sendLen \in Nat
      BY <1>2 DEF Sound, ConnRecord
    <2> QED BY <1>1, <1>2, <2>1 DEF Waits, Writable
  <1>5. ASSUME NEW cl \in Clients, NEW ev \in {"in", "out"}, interest[cl] = ev, BeingHandled(cl, ev),
               ev = "in" => Readable(cl), ev = "out" => Writable(cl)
        PROVE  BeingHandled(cl, ev)'
    <2>1. cl # Peer(cur)
      BY <1>1, <1>2, <1>3, <1>4, <1>5
    <2> QED BY <1>1, <1>5, <2>1 DEF BeingHandled, SlotOf, Peer, loopVars
  <1>6. DrainsOne'
    BY <1>1 DEF DrainsOne
  <1> QED BY <1>1, <1>5, <1>6, Types, ThreadKeeps

\* A hang-up closes the connection it was reported for, which still exists.
LEMMA HangUpKeeps == ASSUME EInv, HandleHangUp PROVE EInv'
  <1>1. PICK e \in batch : e.what = "hup" /\ batch' = batch \ {e} /\ CloseAll({e.id})
    BY DEF HandleHangUp
  <1>2. pc = "batch" /\ UNCHANGED <<sent, read, ended, got, room, pc, cur>>
    BY DEF HandleHangUp
  <1>3. /\ e.id \in Slots /\ conns[e.id].live
        /\ \A f \in batch : e.id = f.id /\ e.id # 0 => e = f
    BY <1>1 DEF EInv, BatchIsTrue, True
  <1>4. /\ \A f \in batch' : f.id \notin {e.id}
        /\ \A f \in batch : f \notin batch' => f.id \in {e.id}
    BY <1>1, <1>3, Types
  <1>5. {e.id} \in SUBSET Slots /\ (\A id \in {e.id} : conns[id].live) /\ batch' \subseteq batch
    BY <1>1, <1>3
  <1> QED BY <1>1, <1>2, <1>4, <1>5, Types, CloseKeeps

\* The sweep closes connections of which nothing more is heard: none of them
\* has an event in the batch.
LEMMA TimerKeeps == ASSUME EInv, HandleTimer PROVE EInv'
  <1> DEFINE ids == {id \in Slots : Sweepable(conns[id])}
  <1>1. /\ pc = "batch" /\ batch' = batch \ {Event("timer", 0)} /\ CloseAll(ids)
        /\ UNCHANGED <<sent, read, ended, got, room, pc, cur>>
    BY DEF HandleTimer
  <1>2. \A id \in ids : /\ id \in Slots /\ conns[id].live /\ conns[id].state = "reading"
                       /\ ended[Peer(id)] = "gone" /\ read[Peer(id)] = sent[Peer(id)]
                       /\ interest[Peer(id)] # "out" /\ Peer(id) \in Clients
    BY DEF Sweepable, EInv, LiveOnesWait, Waits, SocketsHaveSlots
  <1> HIDE DEF ids
  <1>3. ASSUME NEW e \in batch', e.id \in ids PROVE FALSE
    <2>1. True(e) /\ e.id # 0
      BY <1>1, <1>2, <1>3, Types DEF EInv, BatchIsTrue
    <2>2. ~Readable(Peer(e.id))
      BY <1>2, <1>3, Types DEF Readable
    <2> QED BY <1>2, <1>3, <2>1, <2>2 DEF True
  <1>4. \A e \in batch : e \notin batch' => e.id = 0
    BY <1>1 DEF Event
  <1>5. ids \in SUBSET Slots /\ (\A id \in ids : conns[id].live) /\ batch' \subseteq batch
    BY <1>1, <1>2
  <1> QED BY <1>1, <1>3, <1>4, <1>5, Types, CloseKeeps

\* A drain loop that closes its connection.
LEMMA DrainCloses ==
    ASSUME EInv, pc \in {"recv", "send"}, CloseAll({cur}), pc' = "batch",
           UNCHANGED <<sent, ended, batch, cur>>,
           read' \in [Clients -> Nat], room' \in [Clients -> 0 .. SendBuffer],
           got' \in [Clients -> [req : Nat, unit : 1 .. RespLen]],
           \A cl \in Clients : cl # Peer(cur) => read'[cl] = read[cl] /\ room'[cl] = room[cl]
    PROVE  EInv'
  <1>1. {cur} \in SUBSET Slots /\ (\A id \in {cur} : conns[id].live) /\ \A e \in batch' : e.id \notin {cur}
    BY DEF EInv, DrainsOne
  <1>2. /\ \A cl \in Clients : read'[cl] = read[cl] \/ \E id \in {cur} : cl = Peer(id)
        /\ \A cl \in Clients : room'[cl] = room[cl] \/ \E id \in {cur} : cl = Peer(id)
    OBVIOUS
  <1> QED BY <1>1, <1>2, CloseKeeps

\* A receive at the end of the stream, a send after a reset.
LEMMA EndsKeep == ASSUME EInv, RecvEnd \/ SendError PROVE EInv'
  <1>1. /\ pc \in {"recv", "send"} /\ CloseAll({cur}) /\ pc' = "batch"
        /\ UNCHANGED <<sent, read, ended, got, room, batch, cur>>
    BY DEF RecvEnd, SendError, Perform, StartClose, Breaks
  <1> QED BY <1>1, Types, DrainCloses

\* A handler was called: whatever it returned, the invariant holds.
LEMMA HandledKeeps ==
    ASSUME EInv, pc \in {"recv", "send"}, NEW h, Serves(h, conns[cur]), Perform(h),
           UNCHANGED <<sent, ended, batch, cur>>,
           read' \in [Clients -> Nat], room' \in [Clients -> 0 .. SendBuffer],
           got' \in [Clients -> [req : Nat, unit : 1 .. RespLen]],
           \A cl \in Clients : cl # Peer(cur) => read'[cl] = read[cl] /\ room'[cl] = room[cl],
           conns[cur].idle => read' = read
    PROVE  EInv'
  <1>1. CASE h.io = "close"
    <2>1. CloseAll({cur}) /\ pc' = "batch"
      BY <1>1 DEF Perform, Breaks
    <2> QED BY <2>1, DrainCloses
  <1>2. CASE h.io # "close"
    BY <1>2, ContinueKeeps
  <1> QED BY <1>1, <1>2

\* The connection a drain loop works on.
LEMMA Drained ==
    ASSUME EInv, pc \in {"recv", "send"}
    PROVE  /\ cur \in Slots /\ conns[cur].live /\ Sound(conns[cur]) /\ Peer(cur) \in Clients
           /\ srv[Peer(cur)] = "open" /\ Waits(cur)
           /\ interest[Peer(cur)] = IF pc = "recv" THEN "in" ELSE "out"
           /\ conns[cur].buf \in Seq(Byte) /\ Len(conns[cur].buf) \in 0 .. RecvCap
           /\ conns[cur].sendOff \in Nat /\ conns[cur].sendLen \in {0, RespLen}
           /\ conns[cur].resp \in Response
  <1>1. /\ cur \in Slots /\ conns[cur].live /\ Peer(cur) \in Clients
        /\ srv[Peer(cur)] = "open" /\ Waits(cur)
        /\ interest[Peer(cur)] = IF pc = "recv" THEN "in" ELSE "out"
    BY DEF EInv, DrainsOne, SocketsHaveSlots, LiveOnesWait
  <1>2. Sound(conns[cur])
    BY <1>1, Types, Zenon
  <1> QED BY <1>1, <1>2, CapAssumption DEF Sound, ConnRecord

\* A receive never brings more than there is room for.
LEMMA RecvDataKeeps == ASSUME EInv, RecvData PROVE EInv'
  <1> DEFINE c == conns[cur]
             cl == Peer(cur)
             n == MinOf(sent[cl] - read[cl], RecvCap - Len(c.buf))
             bytes == [i \in 1 .. n |-> <<cl, read[cl] + i>>]
  <1>1. /\ pc = "recv" /\ n > 0 /\ read' = [read EXCEPT ![cl] = @ + n]
        /\ UNCHANGED <<sent, ended, got, room, batch, cur>> /\ Perform(OnRecv(c, bytes))
    BY DEF RecvData, Peer
  <1>2. /\ cl \in Clients /\ Sound(c) /\ Waits(cur) /\ Len(c.buf) \in 0 .. RecvCap
        /\ sent[cl] \in Nat /\ read[cl] \in Nat
    BY <1>1, Drained, Types
  <1>3. n \in Nat \ {0} /\ n <= sent[cl] - read[cl] /\ n <= RecvCap - Len(c.buf)
    <2>1. /\ Len(c.buf) \in Nat /\ RecvCap \in Nat
          /\ n \in {sent[cl] - read[cl], RecvCap - Len(c.buf)}
          /\ n <= sent[cl] - read[cl] /\ n <= RecvCap - Len(c.buf)
      BY <1>2, CapAssumption DEF MinOf
    <2>2. n \in Int /\ n > 0
      BY <1>1, <1>2, <2>1
    <2> HIDE DEF n, c, cl
    <2> QED BY <2>1, <2>2
  <1>4. ~c.idle
    BY <1>2, <1>3 DEF Waits
  <1> HIDE DEF n
  <1>5. bytes \in Seq(Byte) /\ Len(bytes) = n
    BY <1>2, <1>3 DEF Byte
  <1>6. bytes # << >> /\ Len(c.buf) + Len(bytes) <= RecvCap
    BY <1>2, <1>3, <1>5, CapAssumption, SMTT(30)
  <1> HIDE DEF bytes
  <1>7. Serves(OnRecv(c, bytes), c)
    BY <1>2, <1>5, <1>6, OnRecvServes, Zenon
  <1>8. read' \in [Clients -> Nat] /\ \A x \in Clients : x # cl => read'[x] = read[x]
    BY <1>1, <1>2, <1>3, Types
  <1> HIDE DEF c, cl
  <1> DEFINE h == OnRecv(c, bytes)
  <1>9. Serves(h, conns[cur]) /\ Perform(h) /\ ~conns[cur].idle
    BY <1>1, <1>4, <1>7 DEF c
  <1>10. \A x \in Clients : x # Peer(cur) => read'[x] = read[x] /\ room'[x] = room[x]
    BY <1>1, <1>8 DEF cl
  <1> HIDE DEF h
  <1> QED BY <1>1, <1>8, <1>9, <1>10, Types, HandledKeeps

\* A send never takes more than is left of the response.
LEMMA SendDataKeeps == ASSUME EInv, SendData PROVE EInv'
  <1> DEFINE c == conns[cur]
             cl == Peer(cur)
             n == MinOf(room[cl], c.sendLen - c.sendOff)
  <1>1. /\ pc = "send" /\ n > 0 /\ room' = [room EXCEPT ![cl] = @ - n]
        /\ got' = [got EXCEPT ![cl] = Heard(cl, c, n)]
        /\ UNCHANGED <<sent, read, ended, batch, cur>> /\ Perform(OnSend(c, n))
    BY DEF SendData, Peer
  <1>2. /\ cl \in Clients /\ Sound(c) /\ Waits(cur) /\ interest[cl] = "out"
        /\ c.sendOff \in Nat /\ c.sendLen \in {0, RespLen} /\ c.resp \in Response
        /\ room[cl] \in 0 .. SendBuffer
    BY <1>1, Drained, Types
  <1>3. /\ n \in Nat \ {0} /\ n <= room[cl] /\ n <= c.sendLen - c.sendOff
        /\ c.sendOff + n \in 1 .. RespLen /\ room[cl] - n \in 0 .. SendBuffer
    <2>1. c.sendLen \in Nat /\ c.sendLen <= RespLen /\ RespLen \in Nat /\ SendBuffer \in Nat
      BY <1>2, CapAssumption, SendBufferAssumption
    <2>2. n \in {room[cl], c.sendLen - c.sendOff} /\ n <= room[cl] /\ n <= c.sendLen - c.sendOff
      BY <1>2, <2>1 DEF MinOf
    <2>3. n \in Int /\ n > 0
      BY <1>1, <1>2, <2>1, <2>2
    <2> HIDE DEF n, c, cl
    <2> QED BY <1>2, <2>1, <2>2, <2>3
  <1>4. c.state = "writing"
    BY <1>2 DEF Waits
  <1> HIDE DEF n
  <1>5. Serves(OnSend(c, n), c)
    BY <1>2, <1>3, <1>4, OnSendServes, Zenon
  <1>6. /\ room' \in [Clients -> 0 .. SendBuffer]
        /\ \A x \in Clients : x # cl => room'[x] = room[x]
    BY <1>1, <1>2, <1>3, Types
  <1>7. Heard(cl, c, n) \in [req : Nat, unit : 1 .. RespLen]
    BY <1>2, <1>3 DEF Heard, Response, NoResponse
  <1>8. got' \in [Clients -> [req : Nat, unit : 1 .. RespLen]]
    BY <1>1, <1>2, <1>7, Types
  <1> HIDE DEF c, cl
  <1> DEFINE h == OnSend(c, n)
  <1>9. Serves(h, conns[cur]) /\ Perform(h)
    BY <1>1, <1>5 DEF c
  <1>10. \A x \in Clients : x # Peer(cur) => read'[x] = read[x] /\ room'[x] = room[x]
    BY <1>1, <1>6 DEF cl
  <1> HIDE DEF h
  <1> QED BY <1>1, <1>6, <1>8, <1>9, <1>10, Types, HandledKeeps

\* accept4 and a free slot: a new connection, registered for input.
LEMMA AcceptKeeps == ASSUME EInv, AcceptOne PROVE EInv'
  <1>0. PICK id : id = Last(freeList)
    OBVIOUS
  <1>1. PICK me \in Connecting :
           /\ conns' = [conns EXCEPT ![id] = Emplace(me)] /\ freeList' = Front(freeList)
           /\ srv' = [srv EXCEPT ![me] = "open"]
           /\ interest' = [interest EXCEPT ![me] = "in"]
           /\ ready' = IF me \in Awaited' THEN ready \cup {me} ELSE ready
    BY <1>0 DEF AcceptOne, Register, AllocConnId, TakeConnId
  <1>2. /\ pc = "accept" /\ freeList # << >>
        /\ UNCHANGED <<sent, read, ended, got, room, batch, pc, cur>>
    BY DEF AcceptOne, Full, threadVars
  <1>3. /\ id \in Slots /\ ~conns[id].live /\ freeList' \in Seq(Slots) /\ IsInjective(freeList')
        /\ ToSet(freeList') = ToSet(freeList) \ {id}
        /\ ToSet(freeList) = {i \in Slots : ~conns[i].live}
    <2>1. freeList \in Seq(Slots) /\ IsInjective(freeList) /\ freeList # << >>
      BY <1>2, Types DEF EInv, SlotsConserved
    <2>2. ToSet(freeList) = {i \in Slots : ~conns[i].live}
      BY DEF EInv, SlotsConserved
    <2> QED BY <1>0, <1>1, <2>1, <2>2, AllocTakes
  <1>4. me \in Clients /\ srv[me] = "backlog" /\ interest[me] = "none"
    BY DEF Connecting, EInv, SocketsHaveSlots
  <1> DEFINE c == Emplace(me)
  <1>5. /\ Sound(c) /\ c.live /\ c.sock = me /\ c.buf = << >> /\ ~c.idle /\ c.state = "reading"
    BY <1>4, SlotRecords, Zenon
  <1> HIDE DEF c
  <1>6. /\ \A i \in Slots : conns'[i] = IF i = id THEN c ELSE conns[i]
        /\ \A cl \in Clients : srv'[cl] = IF cl = me THEN "open" ELSE srv[cl]
        /\ \A cl \in Clients : interest'[cl] = IF cl = me THEN "in" ELSE interest[cl]
        /\ interest' \in [Clients -> {"none", "in", "out"}]
        /\ srv' \in [Clients -> {"none", "backlog", "open", "closed"}]
        /\ ready' \in SUBSET Clients /\ ready \subseteq ready'
    BY <1>1, <1>3, <1>4, Types DEF c
  <1>7. \A i \in Slots : conns[i].live => Peer(i) # me /\ i # id
    BY <1>3, <1>4 DEF EInv, SocketsHaveSlots
  <1>8. /\ \A i \in Slots : conns'[i].live <=> conns[i].live \/ i = id
        /\ \A i \in Slots : conns[i].live => conns'[i] = conns[i] /\ Peer(i)' = Peer(i)
        /\ Peer(id)' = me
    <2>1. conns'[id] = c
      BY <1>3, <1>6
    <2>2. \A i \in Slots : i # id => conns'[i] = conns[i]
      BY <1>6
    <2>3. Peer(id)' = me
      BY <1>5, <2>1 DEF Peer
    <2>4. \A i \in Slots : conns[i].live => conns'[i] = conns[i] /\ Peer(i)' = Peer(i)
      BY <1>7, <2>2 DEF Peer
    <2>5. \A i \in Slots : conns'[i].live <=> conns[i].live \/ i = id
      BY <1>5, <2>1, <2>2
    <2> QED BY <2>3, <2>4, <2>5
  <1>9. conns' \in [Slots -> ConnRecord] /\ Proper'
    <2>1. \A i \in Slots : Sound(conns'[i])
      BY <1>5, <1>6, Types, Zenon
    <2>2. \A i \in Slots : conns'[i] \in ConnRecord
      BY <2>1 DEF Sound
    <2>3. conns' = [i \in Slots |-> conns'[i]]
      BY <1>1, Types
    <2> QED BY <2>1, <2>2, <2>3 DEF Proper
  <1>10. TypeOK'
    <2>1. LoopTypeOK'
      BY <1>2, <1>3, <1>6, <1>9, Types DEF LoopTypeOK, Proper, Sound
    <2> QED BY <1>2, <1>6, <2>1 DEF EInv, TypeOK
  <1>11. SlotsConserved'
    BY <1>3, <1>8 DEF SlotsConserved
  <1>12. SocketsHaveSlots'
    <2>1. \A i \in Slots : conns'[i].live => Peer(i)' \in Clients /\ srv'[Peer(i)'] = "open"
      <3> TAKE i \in Slots
      <3>1. CASE i = id
        BY <1>4, <1>6, <1>8, <3>1
      <3>2. CASE i # id
        BY <1>6, <1>8, <3>2 DEF EInv, SocketsHaveSlots
      <3> QED BY <3>1, <3>2
    <2>2. \A i, j \in Slots : conns'[i].live /\ conns'[j].live /\ Peer(i)' = Peer(j)' => i = j
      <3> TAKE i, j \in Slots
      <3>1. CASE i = id \/ j = id
        BY <1>7, <1>8, <3>1
      <3>2. CASE i # id /\ j # id
        BY <1>8, <3>2 DEF EInv, SocketsHaveSlots
      <3> QED BY <3>1, <3>2
    <2>3. \A cl \in Clients : srv'[cl] = "open" => \E i \in Slots : conns'[i].live /\ Peer(i)' = cl
      <3> TAKE cl \in Clients
      <3>1. CASE cl = me
        BY <1>3, <1>8, <3>1
      <3>2. CASE cl # me
        BY <1>6, <1>8, <3>2 DEF EInv, SocketsHaveSlots
      <3> QED BY <3>1, <3>2
    <2>4. \A cl \in Clients : srv'[cl] # "open" => interest'[cl] = "none"
      BY <1>6 DEF EInv, SocketsHaveSlots
    <2> QED BY <2>1, <2>2, <2>3, <2>4 DEF SocketsHaveSlots
  <1>13. LiveOnesWait'
    <2> SUFFICES ASSUME NEW i \in Slots, conns'[i].live PROVE Waits(i)'
      BY DEF LiveOnesWait
    <2>1. CASE i = id
      <3>1. /\ conns'[i].state = "reading" /\ ~conns'[i].idle /\ Len(conns'[i].buf) < RecvCap
            /\ interest'[Peer(i)'] = "in"
        <4>1. conns'[i] = c /\ Peer(i)' = me /\ Len(c.buf) = 0
          BY <1>3, <1>5, <1>6, <1>8, <2>1
        <4>2. interest'[me] = "in" /\ 0 < RecvCap
          BY <1>4, <1>6, CapAssumption
        <4> QED BY <1>5, <4>1, <4>2
      <3> QED BY <3>1 DEF Waits
    <2>2. CASE i # id
      <3>1. /\ Waits(i) /\ conns'[i] = conns[i] /\ Peer(i)' = Peer(i)
            /\ interest'[Peer(i)] = interest[Peer(i)]
        BY <1>6, <1>7, <1>8, <2>2 DEF EInv, LiveOnesWait, SocketsHaveSlots
      <3> QED BY <1>2, <3>1 DEF Waits
    <2> QED BY <2>1, <2>2
  <1>14. BatchIsTrue'
    <2>1. ASSUME NEW e \in batch, True(e) PROVE True(e)'
      <3>1. CASE e.id = 0
        BY <2>1, <3>1, Types DEF True
      <3>2. CASE e.id \in Slots /\ conns[e.id].live
        <4>1. /\ conns'[e.id].live /\ Peer(e.id)' = Peer(e.id)
              /\ interest'[Peer(e.id)] = interest[Peer(e.id)]
          BY <1>6, <1>7, <1>8, <3>2 DEF EInv, SocketsHaveSlots
        <4> QED BY <1>2, <2>1, <3>2, <4>1, Types DEF True, Readable
      <3> QED BY <2>1, <3>1, <3>2 DEF True
    <2> QED BY <1>2, <2>1 DEF EInv, BatchIsTrue
  <1>15. DrainsOne'
    BY <1>2 DEF EInv, DrainsOne
  <1>16. NoLostWakeup'
    <2> SUFFICES ASSUME NEW cl \in Clients, srv'[cl] = "open"
                 PROVE  /\ interest'[cl] = "in" /\ Readable(cl)'
                              => cl \in ready' \/ BeingHandled(cl, "in")'
                        /\ interest'[cl] = "out" /\ Writable(cl)'
                              => cl \in ready' \/ BeingHandled(cl, "out")'
      BY DEF NoLostWakeup
    <2>1. CASE cl = me
      <3>1. interest'[cl] = "in"
        BY <1>6, <2>1
      <3> QED BY <1>1, <2>1, <3>1 DEF Awaited
    <2>2. CASE cl # me
      <3>1. /\ interest'[cl] = interest[cl] /\ srv[cl] = "open"
            /\ Readable(cl)' => Readable(cl)
            /\ Writable(cl)' => Writable(cl)
        BY <1>2, <1>6, <2>2 DEF Readable, Writable
      <3>2. /\ interest[cl] = "in" /\ Readable(cl) => cl \in ready \/ BeingHandled(cl, "in")
            /\ interest[cl] = "out" /\ Writable(cl) => cl \in ready \/ BeingHandled(cl, "out")
        BY <3>1 DEF EInv, NoLostWakeup
      <3>3. /\ BeingHandled(cl, "in") => BeingHandled(cl, "in")'
            /\ BeingHandled(cl, "out") => BeingHandled(cl, "out")'
        BY <1>2, <1>8 DEF BeingHandled, SlotOf, Peer
      <3> QED BY <1>6, <3>1, <3>2, <3>3
    <2> QED BY <2>1, <2>2
  <1> QED BY <1>9, <1>10, <1>11, <1>12, <1>13, <1>14, <1>15, <1>16 DEF EInv

\* No slot is free: a socket is closed before it is known to the loop.
LEMMA RefuseKeeps == ASSUME EInv, RefuseOne PROVE EInv'
  <1>1. PICK me \in Connecting : srv' = [srv EXCEPT ![me] = "closed"]
    BY DEF RefuseOne
  <1>2. /\ UNCHANGED <<conns, freeList, sent, read, ended, got, interest, ready, room, threadVars>>
        /\ srv[me] = "backlog"
    BY DEF RefuseOne, Connecting, kernelVars
  <1>3. TypeOK'
    BY <1>1, <1>2, Types DEF threadVars, EInv, TypeOK, LoopTypeOK
  <1>4. \A cl \in Clients : srv'[cl] = "open" <=> srv[cl] = "open"
    BY <1>1, <1>2, Types DEF Connecting
  <1>5. /\ \A cl \in Clients : Readable(cl) => Readable(cl)'
        /\ \A cl \in Clients : Readable(cl)' => Readable(cl)
        /\ \A cl \in Clients : Writable(cl)' => Writable(cl)
    BY <1>2 DEF Readable, Writable
  <1> QED BY <1>2, <1>3, <1>4, <1>5, ClientKeeps

-----------------------------------------------------------------------------
(* The theorems                                                            *)

\* At the start every slot is free.
LEMMA InitEInv == Init => EInv
  <1> SUFFICES ASSUME Init PROVE EInv
    OBVIOUS
  <1> DEFINE n == MaxConnections
  <1>1. /\ conns = [id \in Slots |-> EmptySlot] /\ freeList = [i \in Slots |-> n + 1 - i]
        /\ sent = [cl \in Clients |-> 0] /\ read = [cl \in Clients |-> 0]
        /\ ended = [cl \in Clients |-> "no"]
        /\ got = [cl \in Clients |-> [req |-> 0, unit |-> RespLen]]
        /\ srv = [cl \in Clients |-> "none"]
        /\ interest = [cl \in Clients |-> "none"] /\ ready = {}
        /\ room = [cl \in Clients |-> SendBuffer]
        /\ batch = {} /\ pc = "wait" /\ cur = 0
    BY DEF Init, LoopInit
  <1>2. n \in Nat /\ Slots = 1 .. n
    BY LoopAssumption DEF Slots
  <1> HIDE DEF n
  <1>3. \A id \in Slots : Sound(conns[id]) /\ ~conns[id].live /\ conns[id] \in ConnRecord
    <2>1. Sound(EmptySlot) /\ ~EmptySlot.live
      BY SlotRecords, Zenon
    <2>2. EmptySlot \in ConnRecord
      BY <2>1 DEF Sound
    <2> HIDE DEF EmptySlot
    <2> QED BY <1>1, <2>1, <2>2
  <1>4. freeList \in Seq(Slots) /\ IsInjective(freeList) /\ ToSet(freeList) = Slots
    <2>1. freeList \in [1 .. n -> Slots]
      BY <1>1, <1>2
    <2>2. freeList \in Seq(Slots) /\ DOMAIN freeList = 1 .. n
      BY <1>2, <2>1
    <2>3. IsInjective(freeList)
      BY <1>1, <1>2 DEF IsInjective
    <2>4. \A id \in Slots : n + 1 - id \in 1 .. n /\ freeList[n + 1 - id] = id
      BY <1>1, <1>2
    <2>5. ToSet(freeList) = Slots
      BY <1>2, <2>1, <2>2, <2>4 DEF ToSet
    <2> QED BY <2>2, <2>3, <2>5
  <1>5. conns \in [Slots -> ConnRecord]
    BY <1>1, <1>3
  <1>6. TypeOK /\ Proper
    <2>1. RespLen \in 1 .. RespLen /\ SendBuffer \in 0 .. SendBuffer
      BY CapAssumption, SendBufferAssumption
    <2>2. LoopTypeOK
      BY <1>1, <1>3, <1>4, <1>5, <2>1 DEF LoopTypeOK, Sound
    <2> QED BY <1>1, <1>3, <2>1, <2>2 DEF TypeOK, Proper
  <1>7. SlotsConserved /\ SocketsHaveSlots /\ LiveOnesWait /\ BatchIsTrue /\ DrainsOne /\ NoLostWakeup
    BY <1>1, <1>3, <1>4 DEF SlotsConserved, SocketsHaveSlots, LiveOnesWait, BatchIsTrue, DrainsOne,
                            NoLostWakeup
  <1> QED BY <1>6, <1>7 DEF EInv

\* Every step keeps the invariant.
LEMMA StepEInv == ASSUME QuietPeers, EInv, [Next]_vars PROVE EInv'
  <1>1. CASE Environment
    <2>1. PICK cl \in Clients : \/ ClientConnects(cl) \/ ClientWrites(cl) \/ ClientFinishes(cl)
                               \/ ClientResets(cl) \/ ClientReads(cl) \/ IdleTimeElapses(cl)
      BY <1>1 DEF Environment
    <2>2. CASE IdleTimeElapses(cl)
      BY <2>2, IdleKeeps
    <2> QED BY <2>1, <2>2, ClientActsKeep
  <1>2. CASE Thread
    BY <1>2, WaitKeeps, EndOfBatchKeeps, HangUpKeeps, HandleReadyKeeps, TimerKeeps,
       HandleListenKeeps, AcceptKeeps, RefuseKeeps, AcceptEmptyKeeps, RecvDataKeeps, EndsKeep,
       BlocksKeep, SendDataKeeps DEF Thread
  <1>3. CASE UNCHANGED vars
    BY <1>3 DEF vars, loopVars, kernelVars, threadVars, EInv, TypeOK, LoopTypeOK, Proper,
                SlotsConserved, SocketsHaveSlots, LiveOnesWait, Waits, Peer, BatchIsTrue, True,
                DrainsOne, NoLostWakeup, BeingHandled, SlotOf, Readable, Writable
  <1> QED BY <1>1, <1>2, <1>3 DEF Next

\* The inductive invariant of the epoll backend, for peers that do nothing after
\* their idle timeout (QuietPeers).
THEOREM EpollInvariant == ASSUME QuietPeers PROVE Spec => []EInv
  <1> QED BY InitEInv, StepEInv, PTL DEF Spec

\* The type invariant of the epoll backend, for peers that do nothing after their
\* idle timeout (QuietPeers): in particular no receive overruns the receive buffer
\* and no send runs past the response.
THEOREM EpollTyped == ASSUME QuietPeers PROVE Spec => []TypeOK
  <1>1. EInv => TypeOK
    BY DEF EInv
  <1> QED BY <1>1, EpollInvariant, PTL

\* When a peer does nothing after its idle timeout (QuietPeers), free_conn_id is
\* never called twice for a slot, nor ever forgotten.  Without the assumption it
\* is false: a hang-up reported behind the timer in one batch, of a connection
\* that the sweep has closed, frees the slot again (epoll_loop::run).
THEOREM EpollConserves == ASSUME QuietPeers PROVE Spec => []SlotsConserved
  <1>1. EInv => SlotsConserved
    BY DEF EInv
  <1> QED BY <1>1, EpollInvariant, PTL

\* When a peer does nothing after its idle timeout (QuietPeers), edge-triggered
\* epoll loses no wake-up.
THEOREM EpollHears == ASSUME QuietPeers PROVE Spec => []NoLostWakeup
  <1>1. EInv => NoLostWakeup
    BY DEF EInv
  <1> QED BY <1>1, EpollInvariant, PTL

-----------------------------------------------------------------------------
(* Each connection follows its protocol                                    *)

\* The protocol's handlers are the loop's.
LEMMA SameHandlers ==
    ASSUME NEW cl \in Clients
    PROVE  /\ Protocol(cl)!EmptySlot = EmptySlot /\ Protocol(cl)!Emplace(cl) = Emplace(cl)
           /\ Protocol(cl)!Total(cl) = Total(cl)
           /\ \A c, bytes : Protocol(cl)!OnRecv(c, bytes) = OnRecv(c, bytes)
           /\ \A c, n : Protocol(cl)!OnSend(c, n) = OnSend(c, n)
           /\ \A c, n : Protocol(cl)!Heard(cl, c, n) = Heard(cl, c, n)
           /\ \A c : Protocol(cl)!Sweepable(c) <=> Sweepable(c)
  <1>1. Protocol(cl)!EmptySlot = EmptySlot /\ Protocol(cl)!Emplace(cl) = Emplace(cl)
    BY DEF Protocol!EmptySlot, EmptySlot, Protocol!Emplace, Emplace, Protocol!NoResponse, NoResponse
  <1>2. Protocol(cl)!Total(cl) = Total(cl)
    BY DEF Protocol!Total, Total, Protocol!EndOf, EndOf
  <1>3. ASSUME NEW buf
        PROVE  /\ Protocol(cl)!Answer(buf) = Answer(buf)
               /\ Protocol(cl)!ParseRequest(buf) = ParseRequest(buf)
    BY DEF Protocol!Answer, Answer, Protocol!ParseRequest, ParseRequest, Protocol!Framed, Framed,
           Protocol!StartsAt, StartsAt, Protocol!EndOf, EndOf, Protocol!RequestIn, RequestIn,
           Protocol!Size, Size, Protocol!NoResponse, NoResponse
  <1>4. ASSUME NEW c PROVE Protocol(cl)!ProcessRequest(c) = ProcessRequest(c)
    BY <1>3, ZenonT(60) DEF Protocol!ProcessRequest, ProcessRequest, Protocol!SendErrorResponse, SendErrorResponse,
           Protocol!StartRecv, StartRecv, Protocol!StartSend, StartSend, Protocol!SetSend, SetSend,
           Protocol!Dispatch, Dispatch, Protocol!Size, Size, Protocol!EndOf, EndOf
  <1>5. ASSUME NEW c, NEW bytes PROVE Protocol(cl)!OnRecv(c, bytes) = OnRecv(c, bytes)
    BY <1>4 DEF Protocol!OnRecv, OnRecv, Protocol!AdvanceRecv, AdvanceRecv, Protocol!Touch, Touch
  <1>6. ASSUME NEW c, NEW n PROVE Protocol(cl)!OnSend(c, n) = OnSend(c, n)
    <2>1. \A d, m : Protocol(cl)!ResetForNextRequest(d, m) = ResetForNextRequest(d, m)
      BY DEF Protocol!ResetForNextRequest, ResetForNextRequest, Protocol!Touch, Touch,
             Protocol!NoResponse, NoResponse
    <2>2. Protocol(cl)!AdvanceSend(c, n) = AdvanceSend(c, n)
      BY DEF Protocol!AdvanceSend, AdvanceSend
    <2>3. \A d : /\ Protocol(cl)!SendComplete(d) <=> SendComplete(d)
                /\ Protocol(cl)!StartSend(d) = StartSend(d)
                /\ Protocol(cl)!StartClose(d) = StartClose(d)
                /\ Protocol(cl)!StartRecv(d) = StartRecv(d)
      BY DEF Protocol!SendComplete, SendComplete, Protocol!StartSend, StartSend,
             Protocol!StartClose, StartClose, Protocol!StartRecv, StartRecv
    <2> QED BY <1>4, <2>1, <2>2, <2>3 DEF Protocol!OnSend, OnSend
  <1>7. ASSUME NEW c, NEW n PROVE Protocol(cl)!Heard(cl, c, n) = Heard(cl, c, n)
    BY DEF Protocol!Heard, Heard, Protocol!NoResponse, NoResponse
  <1>8. ASSUME NEW c PROVE Protocol(cl)!Sweepable(c) <=> Sweepable(c)
    BY DEF Protocol!Sweepable, Sweepable
  <1> QED BY <1>1, <1>2, <1>5, <1>6, <1>7, <1>8

\* The connection object the protocol of a client speaks of, before a step.
LEMMA ObjectBefore ==
    ASSUME EInv
    PROVE  /\ \A id \in Slots : conns[id].live => ConnOf(Peer(id)) = conns[id]
           /\ \A cl \in Clients : srv[cl] # "open" => ConnOf(cl) = EmptySlot
  BY OneSlot DEF ConnOf

\* ... and after it.
LEMMA ObjectAfter ==
    ASSUME EInv'
    PROVE  /\ \A id \in Slots, cl \in Clients :
                 conns'[id].live /\ conns'[id].sock = cl => ConnOf(cl)' = conns'[id]
           /\ \A cl \in Clients : srv'[cl] # "open" => ConnOf(cl)' = EmptySlot
  <1>1. \A id \in Slots, cl \in Clients : conns'[id].live /\ conns'[id].sock = cl => SlotOf(cl)' = {id}
    BY DEF EInv, SocketsHaveSlots, SlotOf, Peer
  <1>2. \A cl \in Clients : srv'[cl] # "open" => SlotOf(cl)' = {}
    BY DEF EInv, SocketsHaveSlots, SlotOf, Peer
  <1> QED BY <1>1, <1>2 DEF ConnOf

\* A step that leaves a client's connection as it was is none of its protocol.
LEMMA Stutters ==
    ASSUME EInv, EInv', NEW cl \in Clients,
           \A id \in Slots : conns[id].live /\ Peer(id) = cl => conns'[id] = conns[id],
           sent'[cl] = sent[cl], read'[cl] = read[cl], ended'[cl] = ended[cl], got'[cl] = got[cl],
           srv'[cl] = srv[cl] \/ (srv[cl] = "none" /\ srv'[cl] = "backlog"),
           interest'[cl] = interest[cl]
    PROVE  UNCHANGED Protocol(cl)!vars
  <1>1. ConnOf(cl)' = ConnOf(cl)
    <2>1. CASE srv[cl] = "open"
      <3>1. PICK id \in Slots : conns[id].live /\ Peer(id) = cl
        BY <2>1 DEF EInv, SocketsHaveSlots
      <3>2. conns'[id] = conns[id]
        BY <3>1
      <3> QED BY <3>1, <3>2, ObjectBefore, ObjectAfter DEF Peer
    <2>2. CASE srv[cl] # "open"
      BY <2>2, ObjectBefore, ObjectAfter
    <2> QED BY <2>1, <2>2
  <1> QED BY <1>1 DEF Protocol!vars, Pending

\* What is pending is what the socket is registered for.
LEMMA Pendings ==
    ASSUME NEW cl \in Clients
    PROVE  /\ interest[cl] = "in" => Pending(cl) = "recv"
           /\ interest[cl] = "out" => Pending(cl) = "send"
           /\ interest'[cl] = "in" => Pending(cl)' = "recv"
           /\ interest'[cl] = "out" => Pending(cl)' = "send"
           /\ interest'[cl] = "none" => Pending(cl)' = "none"
  BY DEF Pending

\* start_close is the close of the protocol for the connections it is for, and
\* no step of the others.
LEMMA Closes ==
    ASSUME EInv, EInv', NEW ids \in SUBSET Slots, \A id \in ids : conns[id].live, CloseAll(ids),
           NEW cl \in Clients
    PROVE  /\ \A id \in ids : Peer(id) = cl => Protocol(cl)!Close(ConnOf(cl))
           /\ (\A id \in ids : Peer(id) # cl) =>
                 /\ srv'[cl] = srv[cl] /\ interest'[cl] = interest[cl]
                 /\ \A id \in Slots : conns[id].live /\ Peer(id) = cl => conns'[id] = conns[id]
  <1>1. ASSUME NEW id \in ids, Peer(id) = cl PROVE Protocol(cl)!Close(ConnOf(cl))
    <2>1. srv'[cl] = "closed" /\ interest'[cl] = "none"
      BY <1>1 DEF CloseAll, Peer
    <2>2. ConnOf(cl)' = EmptySlot /\ Pending(cl)' = "none"
      BY <2>1, ObjectAfter, Pendings
    <2> QED BY <2>1, <2>2, SameHandlers DEF Protocol!Close
  <1>2. ASSUME \A id \in ids : Peer(id) # cl
        PROVE  /\ srv'[cl] = srv[cl] /\ interest'[cl] = interest[cl]
               /\ \A id \in Slots : conns[id].live /\ Peer(id) = cl => conns'[id] = conns[id]
    BY <1>2 DEF CloseAll, Peer
  <1> QED BY <1>1, <1>2

\* What a handler starts is what the protocol goes on with.
LEMMA Continues ==
    ASSUME EInv, EInv', pc \in {"recv", "send"}, NEW h, Serves(h, conns[cur]), Perform(h),
           NEW cl \in Clients
    PROVE  /\ Peer(cur) = cl => Protocol(cl)!Continue(h)
           /\ Peer(cur) # cl =>
                 /\ srv'[cl] = srv[cl] /\ interest'[cl] = interest[cl]
                 /\ \A id \in Slots : conns[id].live /\ Peer(id) = cl => conns'[id] = conns[id]
  <1>0. cur \in Slots /\ conns[cur].live /\ Peer(cur) \in Clients
    BY Drained
  <1>1. CASE h.io = "close"
    <2>1. CloseAll({cur}) /\ {cur} \in SUBSET Slots /\ \A id \in {cur} : conns[id].live
      BY <1>0, <1>1 DEF Perform
    <2>2. /\ Peer(cur) = cl => Protocol(cl)!Close(ConnOf(cl)) /\ srv'[cl] = "closed"
                              /\ Pending(cl)' = "none" /\ ConnOf(cl)' = EmptySlot
          /\ Peer(cur) # cl =>
                 /\ srv'[cl] = srv[cl] /\ interest'[cl] = interest[cl]
                 /\ \A id \in Slots : conns[id].live /\ Peer(id) = cl => conns'[id] = conns[id]
      <3>1. Peer(cur) = cl => srv'[cl] = "closed" /\ interest'[cl] = "none"
        BY <2>1 DEF CloseAll, Peer
      <3> QED BY <2>1, <3>1, Closes, ObjectAfter, Pendings
    <2> QED BY <1>1, <2>2, SameHandlers DEF Protocol!Continue, Protocol!Close
  <1>2. CASE h.io # "close"
    <2>1. /\ conns' = [conns EXCEPT ![cur] = h.conn] /\ UNCHANGED srv
          /\ interest' = [interest EXCEPT ![h.conn.sock] = IF h.io = "recv" THEN "in" ELSE "out"]
      BY <1>2 DEF Perform, Register
    <2>2. /\ h.io \in {"recv", "send"} /\ h.conn.live /\ h.conn.sock = Peer(cur)
      BY <1>0, <1>2 DEF Serves, Peer
    <2>3. ASSUME Peer(cur) = cl PROVE Protocol(cl)!Continue(h)
      <3>1. conns'[cur] = h.conn /\ interest'[cl] = IF h.io = "recv" THEN "in" ELSE "out"
        BY <1>0, <2>1, <2>2, <2>3, Types
      <3>2. ConnOf(cl)' = h.conn /\ Pending(cl)' = h.io
        BY <1>0, <2>2, <2>3, <3>1, ObjectAfter, Pendings
      <3>3. srv'[cl] = srv[cl]
        BY <2>1
      <3> QED BY <1>2, <3>2, <3>3 DEF Protocol!Continue
    <2>4. ASSUME Peer(cur) # cl
          PROVE  /\ srv'[cl] = srv[cl] /\ interest'[cl] = interest[cl]
                 /\ \A id \in Slots : conns[id].live /\ Peer(id) = cl => conns'[id] = conns[id]
      BY <2>1, <2>2, <2>4, Types
    <2> QED BY <2>3, <2>4
  <1> QED BY <1>1, <1>2

\* The actions of a client are those its protocol has for it.
LEMMA ClientFollows ==
    ASSUME EInv, EInv', NEW me \in Clients, NEW cl \in Clients,
           \/ ClientConnects(me) \/ ClientWrites(me) \/ ClientFinishes(me)
           \/ ClientResets(me) \/ ClientReads(me) \/ IdleTimeElapses(me)
    PROVE  [Protocol(cl)!Next]_(Protocol(cl)!vars)
  <1>1. CASE ClientConnects(me) \/ ClientReads(me)
    <2>1. /\ UNCHANGED <<conns, interest, sent, read, ended, got>>
          /\ srv' = srv \/ (srv[me] = "none" /\ srv' = [srv EXCEPT ![me] = "backlog"])
      BY <1>1 DEF ClientConnects, Connect, ClientReads, kernelVars, loopVars
    <2>2. srv'[cl] = srv[cl] \/ (srv[cl] = "none" /\ srv'[cl] = "backlog")
      BY <2>1, Types
    <2> QED BY <2>1, <2>2, Stutters
  <1>2. CASE (ClientWrites(me) \/ ClientFinishes(me) \/ ClientResets(me)) /\ me # cl
    <2>1. /\ UNCHANGED <<conns, interest, read, got, srv>>
          /\ sent' = sent \/ sent' = [sent EXCEPT ![me] = @ + 1]
          /\ ended' = ended \/ \E how : ended' = [ended EXCEPT ![me] = how]
      BY <1>2 DEF ClientWrites, Write, ClientFinishes, Finish, ClientResets, Reset
    <2>2. sent'[cl] = sent[cl] /\ ended'[cl] = ended[cl]
      BY <1>2, <2>1, Types
    <2> QED BY <2>1, <2>2, Stutters
  <1>3. CASE (ClientWrites(me) \/ ClientFinishes(me) \/ ClientResets(me)) /\ me = cl
    <2>1. UNCHANGED <<conns, interest, read, got, srv>>
      BY <1>3 DEF ClientWrites, Write, ClientFinishes, Finish, ClientResets, Reset
    <2>2. ConnOf(cl)' = ConnOf(cl) /\ Pending(cl)' = Pending(cl)
      BY <2>1 DEF ConnOf, SlotOf, Pending
    <2>3. CASE ClientWrites(me)
      <3>1. ended[cl] = "no" /\ ended' = ended /\ sent[cl] < Total(cl) /\ sent'[cl] = sent[cl] + 1
        BY <1>3, <2>3, Types DEF ClientWrites, Write
      <3>2. Protocol(cl)!Write
        BY <2>1, <2>2, <3>1, SameHandlers DEF Protocol!Write
      <3> QED BY <3>2 DEF Protocol!Next, Protocol!Environment
    <2>4. CASE ClientFinishes(me)
      <3>1. ended[cl] = "no" /\ ended'[cl] = "fin" /\ sent' = sent
        BY <1>3, <2>4, Types DEF ClientFinishes, Finish
      <3>2. Protocol(cl)!Finish
        BY <2>1, <2>2, <3>1 DEF Protocol!Finish
      <3> QED BY <3>2 DEF Protocol!Next, Protocol!Environment
    <2>5. CASE ClientResets(me)
      <3>1. ended[cl] \in {"no", "fin"} /\ ended'[cl] = "rst" /\ sent' = sent
        BY <1>3, <2>5, Types DEF ClientResets, Reset
      <3>2. Protocol(cl)!Reset
        BY <2>1, <2>2, <3>1 DEF Protocol!Reset
      <3> QED BY <3>2 DEF Protocol!Next, Protocol!Environment
    <2> QED BY <1>3, <2>3, <2>4, <2>5
  <1>4. CASE IdleTimeElapses(me)
    <2>1. PICK id \in SlotOf(me) : ~conns[id].idle /\ conns' = [conns EXCEPT ![id].idle = TRUE]
      BY <1>4 DEF IdleTimeElapses, IdleElapses
    <2>2. /\ IdleTimeouts /\ srv[me] = "open" /\ UNCHANGED <<sent, read, got, srv, interest>>
          /\ ended' = ended \/ (ended[me] \in {"no", "gone"} /\ ended' = [ended EXCEPT ![me] = "gone"])
      BY <1>4 DEF IdleTimeElapses, IdleElapses, kernelVars
    <2>3. id \in Slots /\ conns[id].live /\ conns[id].sock = me
      BY DEF SlotOf
    <2>4. CASE cl # me
      <3>1. \A i \in Slots : conns[i].live /\ Peer(i) = cl => conns'[i] = conns[i]
        BY <2>1, <2>3, <2>4, Types DEF Peer
      <3>2. ended'[cl] = ended[cl]
        BY <2>2, <2>4, Types
      <3> QED BY <2>2, <3>1, <3>2, Stutters
    <2>5. CASE cl = me
      <3> DEFINE c == conns[id]
      <3>1. ConnOf(cl) = c
        BY <2>3, <2>5, ObjectBefore DEF Peer
      <3>2. /\ conns'[id] = [c EXCEPT !.idle = TRUE] /\ c \in ConnRecord
        BY <2>1, <2>3, Types
      <3>3. conns'[id].live /\ conns'[id].sock = cl
        BY <2>3, <2>5, <3>2 DEF ConnRecord
      <3>4. ConnOf(cl)' = [c EXCEPT !.idle = TRUE]
        BY <2>3, <3>2, <3>3, ObjectAfter
      <3>5. Pending(cl)' = Pending(cl)
        BY <2>2 DEF Pending
      <3>6. (IF ended'[cl] = "gone" THEN "no" ELSE ended'[cl]) = IF ended[cl] = "gone" THEN "no" ELSE ended[cl]
        BY <2>2, <2>5, Types
      <3> HIDE DEF c
      <3>7. ~c.idle
        BY <2>1 DEF c
      <3>8. Protocol(cl)!IdleElapses
        BY <2>2, <2>5, <3>1, <3>4, <3>5, <3>6, <3>7 DEF Protocol!IdleElapses
      <3> QED BY <3>8 DEF Protocol!Next, Protocol!Environment
    <2> QED BY <2>4, <2>5
  <1> QED BY <1>1, <1>2, <1>3, <1>4

\* What the thread does without a handler, and the closing of connections.
LEMMA QuietlyFollows ==
    ASSUME EInv, EInv', NEW cl \in Clients,
           Wait \/ EndOfBatch \/ HandleReady \/ HandleListen \/ AcceptEmpty \/ RecvBlocks \/ SendBlocks
    PROVE  UNCHANGED Protocol(cl)!vars
  <1>1. UNCHANGED <<conns, interest, sent, read, ended, got, srv>>
    BY DEF Wait, EndOfBatch, HandleReady, HandleListen, AcceptEmpty, RecvBlocks, SendBlocks,
           loopVars, kernelVars
  <1> QED BY <1>1, Stutters

\* A close is one the protocol has a reason for: a reset, the end of the
\* stream, or the idle timeout between two requests.
LEMMA ClosingFollows ==
    ASSUME EInv, EInv', NEW cl \in Clients, HandleHangUp \/ HandleTimer \/ RecvEnd \/ SendError
    PROVE  [Protocol(cl)!Next]_(Protocol(cl)!vars)
  <1>1. PICK ids \in SUBSET Slots :
           /\ CloseAll(ids) /\ \A id \in ids : conns[id].live
           /\ \A id \in ids : \/ ended[Peer(id)] = "rst"
                             \/ /\ interest[Peer(id)] = "in" /\ ended[Peer(id)] = "fin"
                                /\ read[Peer(id)] = sent[Peer(id)]
                             \/ Sweepable(conns[id])
    <2>1. CASE HandleHangUp
      <3>1. PICK e \in batch : e.what = "hup" /\ CloseAll({e.id})
        BY <2>1 DEF HandleHangUp
      <3>2. e.id \in Slots /\ conns[e.id].live /\ ended[Peer(e.id)] = "rst"
        BY <3>1 DEF EInv, BatchIsTrue, True
      <3>3. {e.id} \in SUBSET Slots
        BY <3>2
      <3> QED BY <3>1, <3>2, <3>3
    <2>2. CASE HandleTimer
      <3> DEFINE swept == {id \in Slots : Sweepable(conns[id])}
      <3>1. CloseAll(swept) /\ swept \in SUBSET Slots
        BY <2>2 DEF HandleTimer
      <3>2. \A id \in swept : conns[id].live /\ Sweepable(conns[id])
        BY DEF Sweepable
      <3> HIDE DEF swept
      <3> QED BY <3>1, <3>2
    <2>3. CASE RecvEnd \/ SendError
      <3>1. /\ CloseAll({cur}) /\ pc \in {"recv", "send"}
            /\ ended[Peer(cur)] = "rst" \/ (/\ pc = "recv" /\ ended[Peer(cur)] = "fin"
                                            /\ read[Peer(cur)] = sent[Peer(cur)])
        BY <2>3 DEF RecvEnd, SendError, Perform, StartClose, Peer
      <3>2. /\ {cur} \in SUBSET Slots /\ conns[cur].live
            /\ pc = "recv" => interest[Peer(cur)] = "in"
        BY <3>1, Drained
      <3> QED BY <3>1, <3>2
    <2> QED BY <2>1, <2>2, <2>3
  <1>2. UNCHANGED <<sent, read, ended, got>>
    BY DEF HandleHangUp, HandleTimer, RecvEnd, SendError
  <1>3. CASE \E id \in ids : Peer(id) = cl
    <2>1. PICK id \in ids : Peer(id) = cl
      BY <1>3
    <2>2. Protocol(cl)!Close(ConnOf(cl))
      BY <1>1, <2>1, Closes
    <2>3. /\ ConnOf(cl) = conns[id] /\ srv[cl] = "open" /\ Pending(cl) \in {"recv", "send"}
          /\ interest[cl] = "in" => Pending(cl) = "recv"
      <3>1. Waits(id) /\ srv[cl] = "open" /\ conns[id].live /\ id \in Slots
        BY <1>1, <2>1 DEF EInv, SocketsHaveSlots, LiveOnesWait
      <3> QED BY <2>1, <3>1, ObjectBefore, Pendings DEF Waits
    <2>4. CASE ended[cl] = "rst" \/ (interest[cl] = "in" /\ ended[cl] = "fin" /\ read[cl] = sent[cl])
      <3>1. CASE Pending(cl) = "recv"
        <4>1. Protocol(cl)!RecvFails
          BY <1>2, <2>2, <2>4, <3>1 DEF Protocol!RecvFails
        <4> QED BY <4>1 DEF Protocol!Next, Protocol!Server
      <3>2. CASE Pending(cl) = "send"
        <4>1. Protocol(cl)!SendFails
          BY <1>2, <2>2, <2>3, <2>4, <3>2 DEF Protocol!SendFails
        <4> QED BY <4>1 DEF Protocol!Next, Protocol!Server
      <3> QED BY <2>3, <3>1, <3>2
    <2>5. CASE Sweepable(conns[id])
      <3>1. Protocol(cl)!Sweep
        BY <1>2, <2>2, <2>3, <2>5, SameHandlers DEF Protocol!Sweep
      <3> QED BY <3>1 DEF Protocol!Next, Protocol!Server
    <2> QED BY <1>1, <2>1, <2>4, <2>5
  <1>4. CASE \A id \in ids : Peer(id) # cl
    <2>1. /\ srv'[cl] = srv[cl] /\ interest'[cl] = interest[cl]
          /\ \A id \in Slots : conns[id].live /\ Peer(id) = cl => conns'[id] = conns[id]
      BY <1>1, <1>4, Closes
    <2> QED BY <1>2, <2>1, Stutters
  <1> QED BY <1>3, <1>4

\* An accepted socket opens its own connection, or is refused.
LEMMA AcceptFollows ==
    ASSUME EInv, EInv', NEW cl \in Clients, AcceptOne \/ RefuseOne
    PROVE  [Protocol(cl)!Next]_(Protocol(cl)!vars)
  <1>1. CASE AcceptOne
    <2>0. PICK id : id = Last(freeList)
      OBVIOUS
    <2>1. PICK me \in Connecting :
             /\ conns' = [conns EXCEPT ![id] = Emplace(me)] /\ srv' = [srv EXCEPT ![me] = "open"]
             /\ interest' = [interest EXCEPT ![me] = "in"]
      BY <1>1, <2>0 DEF AcceptOne, Register, AllocConnId
    <2>2. UNCHANGED <<sent, read, ended, got>> /\ freeList # << >>
      BY <1>1 DEF AcceptOne, Full
    <2>3. id \in Slots /\ ~conns[id].live
      <3>1. freeList \in Seq(Slots) /\ IsInjective(freeList)
            /\ ToSet(freeList) = {i \in Slots : ~conns[i].live}
        BY Types DEF EInv, SlotsConserved
      <3>2. id \in ToSet(freeList)
        BY <2>0, <2>2, <3>1, AllocTakes
      <3> QED BY <3>1, <3>2
    <2>4. me \in Clients /\ srv[me] = "backlog"
      BY DEF Connecting
    <2>5. CASE cl = me
      <3>1. conns'[id] = Emplace(cl) /\ srv'[cl] = "open" /\ interest'[cl] = "in"
        BY <2>1, <2>3, <2>4, <2>5, Types
      <3>2. Emplace(cl).live /\ Emplace(cl).sock = cl
        BY SlotRecords, Zenon
      <3>3. ConnOf(cl)' = Emplace(cl) /\ Pending(cl)' = "recv"
        BY <2>3, <3>1, <3>2, ObjectAfter, Pendings
      <3>4. Protocol(cl)!Accept
        BY <2>2, <2>4, <2>5, <3>1, <3>3, SameHandlers DEF Protocol!Accept
      <3> QED BY <3>4 DEF Protocol!Next, Protocol!Server
    <2>6. CASE cl # me
      <3>1. srv'[cl] = srv[cl] /\ interest'[cl] = interest[cl]
        BY <2>1, <2>6, Types
      <3>2. \A i \in Slots : conns[i].live => conns'[i] = conns[i]
        BY <2>1, <2>3, Types
      <3> QED BY <2>2, <3>1, <3>2, Stutters
    <2> QED BY <2>5, <2>6
  <1>2. CASE RefuseOne
    <2>1. PICK me \in Connecting : srv' = [srv EXCEPT ![me] = "closed"]
      BY <1>2 DEF RefuseOne
    <2>2. UNCHANGED <<conns, interest, sent, read, ended, got>> /\ srv[me] = "backlog" /\ me \in Clients
      BY <1>2 DEF RefuseOne, kernelVars, Connecting
    <2>3. CASE cl = me
      <3>1. ConnOf(cl)' = ConnOf(cl) /\ Pending(cl)' = Pending(cl)
        BY <2>2 DEF ConnOf, SlotOf, Pending
      <3>2. srv'[cl] = "closed" /\ srv[cl] = "backlog"
        BY <2>1, <2>2, <2>3, Types
      <3>3. Protocol(cl)!Refuse
        BY <2>2, <3>1, <3>2 DEF Protocol!Refuse
      <3> QED BY <3>3 DEF Protocol!Next, Protocol!Server
    <2>4. CASE cl # me
      <3>1. srv'[cl] = srv[cl]
        BY <2>1, <2>4, Types
      <3> QED BY <2>2, <3>1, Stutters
    <2> QED BY <2>3, <2>4
  <1> QED BY <1>1, <1>2

\* What recv returns is the next part of the client's own stream.
LEMMA RecvDataFollows ==
    ASSUME EInv, EInv', NEW cl \in Clients, RecvData
    PROVE  [Protocol(cl)!Next]_(Protocol(cl)!vars)
  <1> DEFINE c == conns[cur]
  <1>1. PICK me, n, h :
           /\ me = Peer(cur) /\ n = MinOf(sent[me] - read[me], RecvCap - Len(c.buf)) /\ n > 0
           /\ h = OnRecv(c, [i \in 1 .. n |-> <<me, read[me] + i>>]) /\ Perform(h)
           /\ read' = [read EXCEPT ![me] = @ + n]
    BY DEF RecvData, Peer
  <1>2. pc = "recv" /\ UNCHANGED <<sent, ended, got, room, batch, cur>>
    BY DEF RecvData
  <1>3. /\ me \in Clients /\ Sound(c) /\ c.live /\ cur \in Slots /\ interest[me] = "in"
        /\ Len(c.buf) \in 0 .. RecvCap /\ sent[me] \in Nat /\ read[me] \in Nat
    BY <1>1, <1>2, Drained, Types
  <1>4. n \in 1 .. RecvCap - Len(c.buf) /\ read[me] + n <= sent[me]
    <2>1. /\ Len(c.buf) \in Nat /\ RecvCap \in Nat
          /\ n \in {sent[me] - read[me], RecvCap - Len(c.buf)}
          /\ n <= sent[me] - read[me] /\ n <= RecvCap - Len(c.buf)
      BY <1>1, <1>3, CapAssumption DEF MinOf
    <2> HIDE DEF c
    <2> QED BY <1>1, <1>3, <2>1
  <1> DEFINE bytes == [i \in 1 .. n |-> <<me, read[me] + i>>]
  <1>5. bytes \in Seq(Byte) /\ bytes # << >> /\ Len(c.buf) + Len(bytes) <= RecvCap
    <2>1. n \in Nat \ {0} /\ Len(c.buf) + n <= RecvCap
      BY <1>3, <1>4, CapAssumption
    <2>2. bytes \in Seq(Byte) /\ Len(bytes) = n
      BY <1>3, <2>1 DEF Byte
    <2> HIDE DEF bytes, c
    <2> QED BY <2>1, <2>2
  <1>6. Serves(h, c)
    <2> HIDE DEF bytes, c
    <2>1. Serves(OnRecv(c, bytes), c)
      BY <1>3, <1>5, OnRecvServes, Zenon
    <2> QED BY <1>1, <2>1 DEF bytes
  <1>7. CASE cl = me
    <2>1. Protocol(cl)!Continue(h)
      BY <1>1, <1>2, <1>6, <1>7, Continues
    <2>2. ConnOf(cl) = c /\ Pending(cl) = "recv"
      BY <1>1, <1>3, <1>7, ObjectBefore, Pendings
    <2>3. h = OnRecv(c, Protocol(cl)!Bytes(read[cl], read[cl] + n))
      <3>1. (read[cl] + n) - read[cl] = n
        BY <1>3, <1>4, <1>7
      <3>2. Protocol(cl)!Bytes(read[cl], read[cl] + n) = [i \in 1 .. n |-> <<cl, read[cl] + i>>]
        BY <3>1 DEF Protocol!Bytes
      <3> QED BY <1>1, <1>7, <3>2
    <2>4. h = Protocol(cl)!OnRecv(c, Protocol(cl)!Bytes(read[cl], read[cl] + n))
      BY <2>3, SameHandlers
    <2>5. read'[cl] = read[cl] + n
      BY <1>1, <1>3, <1>7, Types
    <2> HIDE DEF c
    <2>6. Protocol(cl)!RecvCompletes
      BY <1>2, <1>4, <1>7, <2>1, <2>2, <2>4, <2>5
         DEF Protocol!RecvCompletes, Protocol!Continue, Protocol!Close
    <2> QED BY <2>6 DEF Protocol!Next, Protocol!Server
  <1>8. CASE cl # me
    <2>1. /\ srv'[cl] = srv[cl] /\ interest'[cl] = interest[cl]
          /\ \A id \in Slots : conns[id].live /\ Peer(id) = cl => conns'[id] = conns[id]
      BY <1>1, <1>2, <1>6, <1>8, Continues
    <2>2. read'[cl] = read[cl]
      BY <1>1, <1>8, Types
    <2> QED BY <1>2, <2>1, <2>2, Stutters
  <1> QED BY <1>7, <1>8

\* What send takes goes to the client of the connection.
LEMMA SendDataFollows ==
    ASSUME EInv, EInv', NEW cl \in Clients, SendData
    PROVE  [Protocol(cl)!Next]_(Protocol(cl)!vars)
  <1> DEFINE c == conns[cur]
  <1>1. PICK me, n, h :
           /\ me = Peer(cur) /\ n = MinOf(room[me], c.sendLen - c.sendOff) /\ n > 0
           /\ h = OnSend(c, n) /\ Perform(h) /\ got' = [got EXCEPT ![me] = Heard(me, c, n)]
    BY DEF SendData, Peer
  <1>2. pc = "send" /\ UNCHANGED <<sent, read, ended, batch, cur>>
    BY DEF SendData
  <1>3. /\ me \in Clients /\ Sound(c) /\ c.live /\ cur \in Slots /\ interest[me] = "out"
        /\ c.sendOff \in Nat /\ c.sendLen \in {0, RespLen} /\ c.state = "writing"
        /\ room[me] \in 0 .. SendBuffer
    BY <1>1, <1>2, Drained, Types DEF Waits
  <1>4. n \in Nat \ {0} /\ n \in 1 .. c.sendLen - c.sendOff /\ n <= c.sendLen - c.sendOff
    <2>1. /\ c.sendLen \in Nat /\ SendBuffer \in Nat
          /\ n \in {room[me], c.sendLen - c.sendOff} /\ n <= c.sendLen - c.sendOff
      BY <1>1, <1>3, CapAssumption, SendBufferAssumption DEF MinOf
    <2>2. n \in Int /\ n > 0
      BY <1>1, <1>3, <2>1
    <2> HIDE DEF c
    <2> QED BY <1>3, <2>1, <2>2
  <1>5. Serves(h, c)
    <2>1. Serves(OnSend(c, n), c)
      BY <1>3, <1>4, OnSendServes, Zenon
    <2> QED BY <1>1, <2>1
  <1>6. CASE cl = me
    <2>1. Protocol(cl)!Continue(h)
      BY <1>1, <1>2, <1>5, <1>6, Continues
    <2>2. ConnOf(cl) = c /\ Pending(cl) = "send"
      BY <1>1, <1>3, <1>6, ObjectBefore, Pendings
    <2> HIDE DEF c
    <2>3. h = Protocol(cl)!OnSend(c, n) /\ got'[cl] = Protocol(cl)!Heard(cl, c, n)
      BY <1>1, <1>3, <1>6, Types, SameHandlers
    <2>4. Protocol(cl)!SendCompletes
      BY <1>2, <1>4, <2>1, <2>2, <2>3 DEF Protocol!SendCompletes, Protocol!Continue,
                                                    Protocol!Close
    <2> QED BY <2>4 DEF Protocol!Next, Protocol!Server
  <1>7. CASE cl # me
    <2>1. /\ srv'[cl] = srv[cl] /\ interest'[cl] = interest[cl]
          /\ \A id \in Slots : conns[id].live /\ Peer(id) = cl => conns'[id] = conns[id]
      BY <1>1, <1>2, <1>5, <1>7, Continues
    <2>2. got'[cl] = got[cl]
      BY <1>1, <1>7, Types
    <2> QED BY <1>2, <2>1, <2>2, Stutters
  <1> QED BY <1>6, <1>7

\* Every step, for every client.
LEMMA StepFollows ==
    ASSUME EInv, EInv', [Next]_vars, NEW cl \in Clients
    PROVE  [Protocol(cl)!Next]_(Protocol(cl)!vars)
  <1>1. CASE Environment
    <2>1. PICK me \in Clients :
             \/ ClientConnects(me) \/ ClientWrites(me) \/ ClientFinishes(me)
             \/ ClientResets(me) \/ ClientReads(me) \/ IdleTimeElapses(me)
      BY <1>1 DEF Environment
    <2> QED BY <2>1, ClientFollows
  <1>2. CASE Thread
    <2>1. CASE \/ Wait \/ EndOfBatch \/ HandleReady \/ HandleListen \/ AcceptEmpty
               \/ RecvBlocks \/ SendBlocks
      BY <2>1, QuietlyFollows
    <2> QED BY <1>2, <2>1, ClosingFollows, AcceptFollows, RecvDataFollows, SendDataFollows DEF Thread
  <1>3. CASE UNCHANGED vars
    <2>1. UNCHANGED <<conns, interest, sent, read, ended, got, srv>>
      BY <1>3 DEF vars, loopVars, kernelVars
    <2>2. UNCHANGED Protocol(cl)!vars
      BY <2>1, Stutters
    <2> QED BY <2>2
  <1> QED BY <1>1, <1>2, <1>3 DEF Next

\* When a peer does nothing after its idle timeout (QuietPeers), the epoll backend
\* implements the protocol of every connection: whatever it does for one client is
\* no step of another's.
THEOREM EpollServesEach == ASSUME QuietPeers PROVE Spec => ServesEachClient
  <1>1. Init => \A cl \in Clients : Protocol(cl)!Init
    <2> SUFFICES ASSUME Init, NEW cl \in Clients PROVE Protocol(cl)!Init
      OBVIOUS
    <2>1. EInv /\ srv[cl] = "none" /\ interest[cl] = "none"
      BY InitEInv DEF Init, LoopInit
    <2>2. ConnOf(cl) = EmptySlot /\ Pending(cl) = "none"
      BY <2>1, ObjectBefore DEF Pending
    <2> QED BY <2>2, SameHandlers DEF Init, LoopInit, Protocol!Init
  <1>2. EInv /\ EInv' /\ [Next]_vars => \A cl \in Clients : [Protocol(cl)!Next]_(Protocol(cl)!vars)
    BY StepFollows
  <1> QED BY <1>1, <1>2, EpollInvariant, PTL DEF Spec, ServesEachClient
================================================================================
