------------------------------ MODULE ServerLoop ------------------------------
(***************************************************************************)
(* What both backends share around the handlers of EventLoop: the slots    *)
(* connections_[] with the free list of their numbers, and the clients at  *)
(* the other ends of the sockets.  A socket is named by its client; file   *)
(* descriptor numbers are the subject of Descriptors.                      *)
(***************************************************************************)
EXTENDS EventLoop, FiniteSets, SequencesExt

CONSTANTS MaxConnections,  \* max_connections (10240 in the code)
          IdleTimeouts,    \* whether the idle timeout may elapse at all
          IdlePeersGone,   \* a peer idle for that long has gone silently: it
                           \* sent nothing unread and never does anything again
          Resets           \* whether a client may reset its connection

ASSUME LoopAssumption ==
    MaxConnections \in Nat /\ {IdleTimeouts, IdlePeersGone, Resets} \subseteq BOOLEAN

Slots == 1 .. MaxConnections

VARIABLES conns,     \* connections_[id]
          freeList,  \* free_list_, used from its end
          sent,      \* sent[cl]: bytes cl has written
          read,      \* read[cl]: bytes of these the handlers were given
          ended,     \* ended[cl]: "no", "fin", "rst" or "gone"
          got,       \* got[cl]: the last response begun, see ConnectionProtocol
          srv        \* srv[cl]: "none", "backlog", "open" or "closed"

slotVars   == <<conns, freeList>>
clientVars == <<sent, ended>>
loopVars   == <<conns, freeList, sent, read, ended, got, srv>>

LoopInit ==
    /\ conns = [id \in Slots |-> EmptySlot]
    /\ freeList = [i \in Slots |-> MaxConnections + 1 - i]
    /\ sent = [cl \in Clients |-> 0] /\ read = [cl \in Clients |-> 0]
    /\ ended = [cl \in Clients |-> "no"]
    /\ got = [cl \in Clients |-> [req |-> 0, unit |-> RespLen]]
    /\ srv = [cl \in Clients |-> "none"]

-----------------------------------------------------------------------------
(* alloc_conn_id and free_conn_id on the free list                         *)

Full == freeList = << >>
AllocConnId == Last(freeList)
TakeConnId == freeList' = Front(freeList)

\* A set of slots in the order a loop over connections_[] meets them
Ascending(ids) ==
    {order \in [1 .. Cardinality(ids) -> ids] :
        /\ \A i, j \in DOMAIN order : i < j => order[i] < order[j]
        /\ ToSet(order) = ids}

\* free_conn_id for a set of slots, lowest number first
FreeConnIds(ids) == \E order \in Ascending(ids) : freeList' = freeList \o order

-----------------------------------------------------------------------------
(* The clients.  Each action leaves the server's variables to the backend. *)

Connect(cl) ==
    /\ srv[cl] = "none" /\ srv' = [srv EXCEPT ![cl] = "backlog"]
    /\ UNCHANGED <<conns, freeList, sent, read, ended, got>>

Write(cl) ==
    /\ srv[cl] \in {"backlog", "open"} /\ ended[cl] = "no" /\ sent[cl] < Total(cl)
    /\ sent' = [sent EXCEPT ![cl] = @ + 1]
    /\ UNCHANGED <<conns, freeList, read, ended, got, srv>>

\* The client half-closes or closes: the server's recv will return 0
Finish(cl) ==
    /\ srv[cl] # "none" /\ ended[cl] = "no"
    /\ ended' = [ended EXCEPT ![cl] = "fin"]
    /\ UNCHANGED <<conns, freeList, sent, read, got, srv>>

Reset(cl) ==
    /\ Resets /\ srv[cl] \in {"backlog", "open"} /\ ended[cl] \in {"no", "fin"}
    /\ ended' = [ended EXCEPT ![cl] = "rst"]
    /\ UNCHANGED <<conns, freeList, sent, read, got, srv>>

\* The slot of the connection that serves cl
SlotOf(cl) == {id \in Slots : conns[id].live /\ conns[id].sock = cl}

\* last_activity of cl's connection is now longer ago than the idle timeout
IdleElapses(cl) ==
    /\ IdleTimeouts /\ srv[cl] = "open"
    /\ \E id \in SlotOf(cl) :
          /\ ~conns[id].idle
          /\ conns' = [conns EXCEPT ![id].idle = TRUE]
    /\ IF IdlePeersGone
       THEN /\ ended[cl] \in {"no", "gone"} /\ read[cl] = sent[cl]
            /\ ended' = [ended EXCEPT ![cl] = "gone"]
       ELSE UNCHANGED ended
    /\ UNCHANGED <<freeList, sent, read, got, srv>>

-----------------------------------------------------------------------------
(* Views of the state and the properties both backends are held to.        *)

\* The connection object of cl, as ConnectionProtocol has it
ConnOf(cl) == IF SlotOf(cl) = {} THEN EmptySlot ELSE conns[CHOOSE id \in SlotOf(cl) : TRUE]

LoopTypeOK ==
    /\ conns \in [Slots -> ConnRecord]
    /\ \A id \in Slots : Len(conns[id].buf) <= RecvCap /\ conns[id].sendOff <= conns[id].sendLen
    /\ freeList \in Seq(Slots)
    /\ sent \in [Clients -> Nat] /\ read \in [Clients -> Nat]
    /\ ended \in [Clients -> {"no", "fin", "rst", "gone"}]
    /\ got \in [Clients -> [req : Nat, unit : 1 .. RespLen]]
    /\ srv \in [Clients -> {"none", "backlog", "open", "closed"}]

\* Every slot is either in use or on the free list once: no connection is freed
\* twice, on whichever path it ends, and none leaks.  (Of peers that do nothing
\* after the idle timeout; of others it is false, see the README.)
SlotsConserved ==
    /\ IsInjective(freeList)
    /\ ToSet(freeList) = {id \in Slots : ~conns[id].live}
===============================================================================
