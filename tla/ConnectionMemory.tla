--------------------------- MODULE ConnectionMemory ---------------------------
(***************************************************************************)
(* What a connection owns: its descriptor (Descriptors) and its arena.  A  *)
(* worker's event loop begins with a pool of arenas (src/arena_pool.h); an *)
(* accept takes one, or makes one when the pool is empty; handlers,        *)
(* build_response and send_error_response allocate from it; the next       *)
(* request on the connection resets it (reset_for_next_request); its       *)
(* destructor frees it.  No code gives an arena back to the pool, which    *)
(* is destroyed with its loop.                                             *)
(* malloc returns any aligned place; that it fails is not modelled.        *)
(***************************************************************************)
EXTENDS Descriptors, Arena

CONSTANTS PoolSize,    \* initial_count (256 in the code)
          Places,      \* addresses malloc may return
          Sizes,       \* sizes that are allocated, none of them 0
          Alignments

ASSUME MemoryAssumption ==
    /\ PoolSize \in Nat /\ Places \subseteq Nat
    /\ Sizes \subseteq Nat \ {0} /\ Alignments \subseteq Nat \ {0}

VARIABLES heap,    \* blocks that malloc returned and nobody freed
          pool,    \* pool[w]: the arenas of the pool_ of worker w
          arena,   \* arena[c]: the set of the arena of connection c
          allocs   \* history: allocs[c]: what c has allocated since its last reset

memory == <<heap, pool, arena, allocs>>
allVars == <<vars, memory>>

MainBlocks == {[at |-> p, size |-> BlockSize] : p \in Places}

\* The constructor of arena_pool
MemoryInit ==
    /\ Init
    /\ heap \in SUBSET MainBlocks
    /\ \A b, d \in heap : b # d => Apart(b, d)
    /\ \E owner \in [heap -> Workers] :
          /\ \A w \in Workers : Cardinality({b \in heap : owner[b] = w}) = PoolSize
          /\ pool = [w \in Workers |-> {NewArena(b) : b \in {d \in heap : owner[d] = w}}]
    /\ arena = [c \in Connections |-> {}]
    /\ allocs = [c \in Connections |-> {}]

\* malloc: a place for n bytes that no block lies over
Malloc(n) == {b \in [at : Places, size : {n}] : \A d \in heap : Apart(b, d)}

\* arena_pool::acquire, when a connection is emplaced
Acquire(c) ==
    /\ \/ \E a \in pool[worker[c]] :
             /\ pool' = [pool EXCEPT ![worker[c]] = @ \ {a}]
             /\ arena' = [arena EXCEPT ![c] = {a}]
             /\ UNCHANGED heap
       \/ /\ pool[worker[c]] = {}
          /\ \E b \in Malloc(BlockSize) :
                heap' = heap \cup {b} /\ arena' = [arena EXCEPT ![c] = {NewArena(b)}]
          /\ UNCHANGED pool
    /\ UNCHANGED allocs

\* arena::alloc
Alloc(c, n, align) ==
    /\ stage[c] = "open" /\ Idle(worker[c])
    /\ \E a \in arena[c] :
          \/ /\ Fits(a, n, align)
             /\ arena' = [arena EXCEPT ![c] = {AllocMain(a, n, align)}]
             /\ allocs' = [allocs EXCEPT ![c] = @ \cup {InMain(a, n, align)}]
             /\ UNCHANGED heap
          \/ /\ ~Fits(a, n, align)
             /\ \E b \in Malloc(OverflowSize(n, align)) :
                   /\ heap' = heap \cup {b}
                   /\ arena' = [arena EXCEPT ![c] = {AllocOverflow(a, b)}]
                   /\ allocs' = [allocs EXCEPT ![c] = @ \cup {InOverflow(b, n, align)}]
    /\ UNCHANGED <<pool, vars>>

\* reset_for_next_request
NextRequest(c) ==
    /\ stage[c] = "open" /\ Idle(worker[c])
    /\ \E a \in arena[c] : /\ arena' = [arena EXCEPT ![c] = {Reset(a)}]
                           /\ heap' = heap \ a.overflow
    /\ allocs' = [allocs EXCEPT ![c] = {}]
    /\ UNCHANGED <<pool, vars>>

\* Mutant: the chain of overflow blocks is forgotten
FreeMain(c) ==
    /\ heap' = heap \ {a.base : a \in arena[c]}
    /\ arena' = [arena EXCEPT ![c] = {}] /\ allocs' = [allocs EXCEPT ![c] = {}]
    /\ UNCHANGED pool

\* ~arena, run by ~connection
Free(c) ==
    /\ heap' = heap \ UNION {Blocks(a) : a \in arena[c]}
    /\ arena' = [arena EXCEPT ![c] = {}] /\ allocs' = [allocs EXCEPT ![c] = {}]
    /\ UNCHANGED pool

\* ~arena_pool, run by ~event_loop when no connection is left in a slot
FreePool(w) ==
    /\ w \in ended /\ \A c \in Connections : worker[c] = w => stage[c] \notin InSlot
    /\ heap' = heap \ UNION {Blocks(a) : a \in pool[w]}
    /\ pool' = [pool EXCEPT ![w] = {}]
    /\ UNCHANGED <<arena, allocs, vars>>

\* What the life of a connection does besides
Lives(c) ==
    \/ EpollAccept(c) \/ KernelAccept(c) \/ RefuseAccept(c) \/ CloseRefused(c)
    \/ CloseNow(c) \/ QueueClose(c) \/ FirstClose(c) \/ KernelClose(c) \/ HandleClose(c)

MemoryNext ==
    \/ \E c \in Connections :
          \/ HandleAccept(c) /\ Acquire(c)
          \/ SecondClose(c) /\ Free(c)
          \/ Lives(c) /\ UNCHANGED memory
          \/ \E n \in Sizes, align \in Alignments : Alloc(c, n, align)
          \/ NextRequest(c)
    \/ \E w \in Workers : (EndLoop(w) /\ UNCHANGED memory) \/ FreePool(w)

MemorySpec == MemoryInit /\ [][MemoryNext]_allVars

-----------------------------------------------------------------------------
(* Properties                                                              *)

Owners == (UNION {pool[w] : w \in Workers}) \cup (UNION {arena[c] : c \in Connections})

\* What the variables of this module hold: an arena never bumps past its
\* block, a connection has one exactly while its object lives.
ArenasOK ==
    /\ heap \subseteq BlockType
    /\ pool \in [Workers -> SUBSET ArenaType]
    /\ arena \in [Connections -> SUBSET ArenaType]
    /\ \A c \in Connections :
          /\ \A a, b \in arena[c] : a = b
          /\ arena[c] # {} <=> stage[c] \in InSlot
          /\ arena[c] = {} => allocs[c] = {}

\* Type invariant, with that of the descriptors (arena::alloc, ~connection)
MemoryTypeOK == TypeOK /\ ArenasOK

Holds(a, x) == \/ Inside(x, a.base, 0) /\ x.at + x.size <= a.base.at + a.offset
               \/ \E b \in a.overflow : Inside(x, b, HeaderSize)

AllocationsApart ==
    \A c \in Connections : \A x \in allocs[c] :
       /\ \E a \in arena[c] : Holds(a, x)
       /\ \A d \in Connections : \A y \in allocs[d] : <<c, x>> # <<d, y>> => Apart(x, y)

AllocationsAligned == \A c \in Connections : \A x \in allocs[c] : x.at % x.align = 0

(***************************************************************************)
(* Whatever sizes and alignments are asked for, in whatever order, nothing *)
(* that a connection has allocated since its last request shares a byte    *)
(* with anything else that is allocated, with an overflow block's header   *)
(* or with memory that is not the arena's; and it has the alignment it was *)
(* asked for, although malloc's blocks may be aligned less (arena::alloc   *)
(* and alloc_overflow align the address, not the offset).                  *)
(***************************************************************************)
AllocationsSound == AllocationsApart /\ AllocationsAligned

(***************************************************************************)
(* Every block that malloc gave has exactly one owner, an arena of a pool  *)
(* or of a connection, and every owner's block is still allocated: nothing *)
(* leaks, nothing is freed twice or used afterwards (acquire, reset,       *)
(* ~arena).                                                                *)
(***************************************************************************)
Separate(a, b) == Blocks(a) \cap Blocks(b) = {}

OneOwner ==
    /\ heap = UNION {Blocks(a) : a \in Owners}
    /\ \A c, d \in Connections : \A a \in arena[c], b \in arena[d] : c # d => Separate(a, b)
    /\ \A w \in Workers : \A b \in pool[w] :
          /\ \A c \in Connections : \A a \in arena[c] : Separate(a, b)
          /\ \A v \in Workers : \A a \in pool[v] : v # w \/ a # b => Separate(a, b)
==============================================================================
