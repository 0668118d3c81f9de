------------------------ MODULE ConnectionMemoryProofs ------------------------
(***************************************************************************)
(* Theorems about Descriptors, and about ConnectionMemory, which goes on   *)
(* from it: what closing every descriptor number twice can and cannot do,  *)
(* and what becomes of the arenas, for every number of connections,        *)
(* workers, descriptors and pooled arenas, every block size, and all sizes *)
(* and alignments that are asked for.                                      *)
(***************************************************************************)
EXTENDS ConnectionMemory, TLAPS

-----------------------------------------------------------------------------
(* Descriptors                                                             *)

\* The steps that leave the table alone, and those that close a number
Passes(c) == RefuseAccept(c) \/ HandleAccept(c) \/ CloseNow(c) \/ QueueClose(c) \/ HandleClose(c)
Closes(c) == CloseRefused(c) \/ FirstClose(c) \/ KernelClose(c) \/ SecondClose(c)
Accepts(c) == EpollAccept(c) \/ KernelAccept(c)

\* What each step of a connection's life is made of.
LEMMA StepParts ==
    ASSUME NEW c \in Connections
    PROVE  /\ Accepts(c) => /\ stage[c] = "absent" /\ Install(c) /\ Becomes(c, "accepted")
                            /\ UNCHANGED <<ended, fixed>>
           /\ Passes(c) => /\ UNCHANGED <<table, fd, ended, fixed>>
                           /\ \/ stage[c] = "accepted" /\ (Becomes(c, "open") \/ Becomes(c, "refused"))
                              \/ stage[c] = "open" /\ (Becomes(c, "ending") \/ Becomes(c, "closing"))
                              \/ stage[c] = "closed" /\ Becomes(c, "destroying")
           /\ Closes(c) => /\ UNCHANGED <<fd, ended, fixed>> /\ CloseNumber(fd[c])
                           /\ \/ stage[c] = "refused" /\ Becomes(c, "gone")
                              \/ stage[c] = "ending" /\ Becomes(c, "destroying")
                              \/ stage[c] = "closing" /\ Becomes(c, "closed")
                              \/ stage[c] \in InSlot /\ Becomes(c, "gone")
  <1>1. Accepts(c) => /\ stage[c] = "absent" /\ Install(c) /\ Becomes(c, "accepted")
                      /\ UNCHANGED <<ended, fixed>>
    BY DEF Accepts, EpollAccept, KernelAccept
  <1>2. Passes(c) => /\ UNCHANGED <<table, fd, ended, fixed>>
                     /\ \/ stage[c] = "accepted" /\ (Becomes(c, "open") \/ Becomes(c, "refused"))
                        \/ stage[c] = "open" /\ (Becomes(c, "ending") \/ Becomes(c, "closing"))
                        \/ stage[c] = "closed" /\ Becomes(c, "destroying")
    BY DEF Passes, RefuseAccept, HandleAccept, AtAccept, CloseNow, QueueClose, HandleClose
  <1>3. Closes(c) => /\ UNCHANGED <<fd, ended, fixed>> /\ CloseNumber(fd[c])
                     /\ \/ stage[c] = "refused" /\ Becomes(c, "gone")
                        \/ stage[c] = "ending" /\ Becomes(c, "destroying")
                        \/ stage[c] = "closing" /\ Becomes(c, "closed")
                        \/ stage[c] \in InSlot /\ Becomes(c, "gone")
    BY DEF Closes, CloseRefused, FirstClose, KernelClose, SecondClose, InSlot
  <1> QED BY <1>1, <1>2, <1>3

\* Every step is one of these, or the end of a loop.
LEMMA StepKinds ==
    ASSUME [Next]_vars
    PROVE  \/ \E c \in Connections : Accepts(c) \/ Passes(c) \/ Closes(c)
           \/ \E w \in Workers : EndLoop(w)
           \/ UNCHANGED vars
  BY DEF Next, Accepts, Passes, Closes

\* The type invariant holds at first and is kept.
LEMMA TypeInit == Init => TypeOK
  BY DEF Init, TypeOK, Stages

LEMMA TypeStep == TypeOK /\ [Next]_vars => TypeOK'
  <1> SUFFICES ASSUME TypeOK, [Next]_vars PROVE TypeOK'
    OBVIOUS
  <1>1. ASSUME NEW c \in Connections, Install(c)
        PROVE  /\ table' \in [Fds -> Connections \cup {Unused}]
               /\ fd' \in [Connections -> Fds \cup {-1}]
               /\ fd'[c] \in Fds /\ \A d \in Connections : d # c => fd'[d] = fd[d]
    BY <1>1 DEF TypeOK, Install
  <1>2. ASSUME NEW c \in Connections, NEW s \in Stages, Becomes(c, s)
        PROVE  /\ stage' \in [Connections -> Stages] /\ stage'[c] = s
               /\ \A d \in Connections : d # c => stage'[d] = stage[d]
    BY <1>2 DEF TypeOK, Becomes
  <1>3. ASSUME NEW c \in Connections, Accepts(c) PROVE TypeOK'
    <2>1. /\ stage[c] = "absent" /\ Install(c) /\ Becomes(c, "accepted") /\ "accepted" \in Stages
          /\ UNCHANGED <<ended, fixed>>
      BY <1>3, StepParts DEF Stages
    <2> QED BY <1>1, <1>2, <2>1 DEF TypeOK, fixed
  <1>4. ASSUME NEW c \in Connections, Passes(c) PROVE TypeOK'
    <2>1. PICK s \in Stages : Becomes(c, s) /\ stage[c] # "absent"
      BY <1>4, StepParts DEF Stages, InSlot
    <2>2. UNCHANGED <<table, fd, ended, fixed>>
      BY <1>4, StepParts
    <2> QED BY <1>2, <2>1, <2>2 DEF TypeOK, fixed
  <1>5. ASSUME NEW c \in Connections, Closes(c) PROVE TypeOK'
    <2>1. PICK s \in Stages : Becomes(c, s) /\ stage[c] # "absent"
      BY <1>5, StepParts DEF Stages, InSlot
    <2>2. UNCHANGED <<fd, ended, fixed>> /\ CloseNumber(fd[c])
      BY <1>5, StepParts
    <2>3. table' \in [Fds -> Connections \cup {Unused}]
      BY <2>2 DEF TypeOK, CloseNumber
    <2> QED BY <1>2, <2>1, <2>2, <2>3 DEF TypeOK, fixed
  <1>6. ASSUME NEW w \in Workers, EndLoop(w) PROVE TypeOK'
    BY <1>6 DEF TypeOK, EndLoop, fixed
  <1>7. CASE UNCHANGED vars
    BY <1>7 DEF TypeOK, vars, fixed
  <1> QED BY <1>3, <1>4, <1>5, <1>6, <1>7, StepKinds

\* Through every accept and every close the table holds connections or nothing,
\* and a connection that has been accepted knows its number.
THEOREM TypeCorrect == Spec => []TypeOK
  BY TypeInit, TypeStep, PTL DEF Spec

-----------------------------------------------------------------------------
(* Nothing leaks.  A number may be taken from a connection by another      *)
(* one's second close, but it is never given one that fd_ does not name;   *)
(* so the close of its path, which goes by fd_, finds the only number that *)
(* can stand for it.                                                       *)

Owned ==
    \A c \in Connections, n \in Fds :
        table[n] = c => fd[c] = n /\ stage[c] \in Holding

\* It is kept, on each of the paths on which a connection ends.
LEMMA OwnedStep == TypeOK /\ Owned /\ [Next]_vars => Owned'
  <1> SUFFICES ASSUME TypeOK, Owned, [Next]_vars,
                      NEW d \in Connections, NEW m \in Fds, table'[m] = d
               PROVE  fd'[d] = m /\ stage'[d] \in Holding
    BY DEF Owned
  <1>1. ASSUME NEW c \in Connections, NEW s, Becomes(c, s)
        PROVE  stage'[c] = s /\ \A e \in Connections : e # c => stage'[e] = stage[e]
    BY <1>1 DEF Becomes, TypeOK
  <1>2. ASSUME NEW c \in Connections, Accepts(c)
        PROVE  fd'[d] = m /\ stage'[d] \in Holding
    <2>1. PICK n \in Fds : /\ table' = [table EXCEPT ![n] = c]
                           /\ fd' = [fd EXCEPT ![c] = n]
      BY <1>2, StepParts DEF Install
    <2>2. stage[c] = "absent" /\ Becomes(c, "accepted")
      BY <1>2, StepParts
    <2>3. CASE m = n
      <3>1. d = c /\ fd'[d] = m
        BY <2>1, <2>3 DEF TypeOK
      <3> QED BY <1>1, <2>2, <3>1 DEF Holding
    <2>4. CASE m # n
      <3>1. table[m] = d
        BY <2>1, <2>4 DEF TypeOK
      <3>2. fd[d] = m /\ stage[d] \in Holding /\ d # c
        BY <2>2, <3>1 DEF Owned, Holding
      <3> QED BY <1>1, <2>1, <2>2, <3>2 DEF TypeOK
    <2> QED BY <2>3, <2>4
  <1>3. ASSUME NEW c \in Connections, Passes(c)
        PROVE  fd'[d] = m /\ stage'[d] \in Holding
    <2>1. fd'[d] = m /\ stage[d] \in Holding
      BY <1>3, StepParts DEF Owned
    <2>2. CASE d = c
      BY <1>1, <1>3, <2>1, <2>2, StepParts DEF Holding
    <2>3. CASE d # c
      BY <1>1, <1>3, <2>1, <2>3, StepParts
    <2> QED BY <2>2, <2>3
  <1>4. ASSUME NEW c \in Connections, Closes(c)
        PROVE  fd'[d] = m /\ stage'[d] \in Holding
    <2>1. UNCHANGED fd /\ CloseNumber(fd[c])
      BY <1>4, StepParts
    <2>2. table[m] = d
      BY <2>1, DescriptorAssumption DEF CloseNumber, TypeOK
    <2>3. fd[d] = m /\ stage[d] \in Holding
      BY <2>2 DEF Owned
    <2>4. d # c
      BY <2>1, <2>3, DescriptorAssumption DEF CloseNumber, TypeOK
    <2>5. stage'[d] = stage[d]
      BY <1>1, <1>4, <2>4, StepParts
    <2> QED BY <2>1, <2>3, <2>5
  <1>5. ASSUME NEW w \in Workers, EndLoop(w)
        PROVE  fd'[d] = m /\ stage'[d] \in Holding
    BY <1>5 DEF EndLoop, Owned
  <1>6. CASE UNCHANGED vars
    BY <1>6 DEF vars, Owned
  <1> QED BY <1>2, <1>3, <1>4, <1>5, <1>6, StepKinds

\* With either backend, any number of threads and slots and any supply of numbers:
\* once a connection has been through the close of its path, be it a refusal,
\* start_close, close_sync, a queued close or the end of the loop, no number stands
\* for it, whatever other connections and threads close and accept in between.
THEOREM NeverLeaks == Spec => []NoDescriptorLeaks
  <1>1. Init => Owned
    BY DescriptorAssumption DEF Init, Owned
  <1>2. Owned => NoDescriptorLeaks
    BY DEF Owned, NoDescriptorLeaks
  <1> QED BY <1>1, <1>2, OwnedStep, TypeCorrect, PTL DEF Spec

-----------------------------------------------------------------------------
(* One epoll thread closes both times before it accepts again, so that the *)
(* second close finds the number still unused.                             *)

OneThread == \A v, w \in Workers : v = w

Held ==
    backend = "epoll" =>
        \A c \in Connections :
            /\ stage[c] \in Holding => fd[c] \in Fds /\ table[fd[c]] = c
            /\ stage[c] = "destroying" => fd[c] \in Fds /\ table[fd[c]] = Unused
            /\ stage[c] \notin {"closing", "closed"}

\* With one thread it is kept, since nothing is accepted between the two closes.
LEMMA HeldStep ==
    ASSUME OneThread, TypeOK, Held, [Next]_vars
    PROVE  Held'
  <1> SUFFICES ASSUME backend' = "epoll" PROVE Held'
    BY DEF Held
  <1>0. backend = "epoll" /\ backend # "io_uring"
    <2>1. backend' = backend
      BY StepKinds, StepParts DEF EndLoop, vars, fixed
    <2> QED BY <2>1
  <1>1. ASSUME NEW c \in Connections, NEW s, Becomes(c, s)
        PROVE  stage'[c] = s /\ \A e \in Connections : e # c => stage'[e] = stage[e]
    BY <1>1 DEF Becomes, TypeOK
  <1>2. ASSUME NEW c \in Connections, Accepts(c) PROVE Held'
    <2>1. /\ Install(c) /\ Becomes(c, "accepted") /\ Idle(worker[c]) /\ stage[c] = "absent"
      BY <1>0, <1>2 DEF Accepts, EpollAccept, KernelAccept
    <2>2. PICK n \in Fds : /\ table[n] = Unused
                           /\ table' = [table EXCEPT ![n] = c]
                           /\ fd' = [fd EXCEPT ![c] = n]
      BY <2>1 DEF Install
    <2>3. \A d \in Connections : stage[d] # "destroying"
      BY <2>1 DEF OneThread, Idle, Busy, TypeOK
    <2> SUFFICES ASSUME NEW d \in Connections
                 PROVE  /\ stage'[d] \in Holding => fd'[d] \in Fds /\ table'[fd'[d]] = d
                        /\ stage'[d] = "destroying" => fd'[d] \in Fds /\ table'[fd'[d]] = Unused
                        /\ stage'[d] \notin {"closing", "closed"}
      BY DEF Held
    <2>4. CASE d = c
      <3>1. stage'[d] = "accepted" /\ fd'[d] = n /\ table'[n] = d
        BY <1>1, <2>1, <2>2, <2>4 DEF TypeOK
      <3> QED BY <3>1
    <2>5. CASE d # c
      <3>1. stage'[d] = stage[d] /\ fd'[d] = fd[d]
        BY <1>1, <2>1, <2>2, <2>5 DEF TypeOK
      <3>2. stage[d] \in Holding => fd[d] \in Fds /\ fd[d] # n /\ table[fd[d]] = d
        BY <1>0, <2>2, DescriptorAssumption DEF Held
      <3>3. stage[d] \in Holding => table'[fd[d]] = d
        BY <2>2, <3>2 DEF TypeOK
      <3> QED BY <1>0, <2>3, <3>1, <3>2, <3>3 DEF Held
    <2> QED BY <2>4, <2>5
  <1>3. ASSUME NEW c \in Connections, Passes(c) PROVE Held'
    <2>1. UNCHANGED <<table, fd>>
      BY <1>3, StepParts
    <2>2. PICK s : /\ Becomes(c, s) /\ s \in Holding /\ stage[c] \in Holding
                   /\ s # "closing"
      <3>1. ~QueueClose(c)
        BY <1>0 DEF QueueClose
      <3>2. stage[c] # "closed"
        BY <1>0 DEF Held
      <3> QED BY <1>3, <3>1, <3>2
              DEF Passes, RefuseAccept, HandleAccept, AtAccept, CloseNow, HandleClose, Holding
    <2>3. s \notin {"closing", "closed", "destroying"}
      BY <2>2 DEF Holding
    <2> QED BY <1>0, <1>1, <2>1, <2>2, <2>3 DEF Held
  <1>4. ASSUME NEW c \in Connections, Closes(c) PROVE Held'
    <2>1. /\ UNCHANGED fd /\ table' = [table EXCEPT ![fd[c]] = Unused]
          /\ stage[c] \in Holding \cup {"destroying"}
      <3>1. stage[c] # "closed"
        BY <1>0 DEF Held
      <3> QED BY <1>4, <3>1, StepParts DEF CloseNumber, Holding, InSlot
    <2>2. PICK s \in {"gone", "destroying"} : Becomes(c, s)
      <3>1. stage[c] # "closing"
        BY <1>0 DEF Held
      <3> QED BY <1>4, <3>1, StepParts
    <2>3. fd[c] \in Fds /\ table[fd[c]] \in {c, Unused}
      BY <1>0, <2>1 DEF Held
    <2> SUFFICES ASSUME NEW d \in Connections
                 PROVE  /\ stage'[d] \in Holding => fd'[d] \in Fds /\ table'[fd'[d]] = d
                        /\ stage'[d] = "destroying" => fd'[d] \in Fds /\ table'[fd'[d]] = Unused
                        /\ stage'[d] \notin {"closing", "closed"}
      BY DEF Held
    <2>4. CASE d = c
      <3>1. stage'[d] = s /\ fd'[d] = fd[c] /\ table'[fd[c]] = Unused
        BY <1>1, <2>1, <2>2, <2>3, <2>4 DEF TypeOK
      <3> QED BY <2>3, <3>1 DEF Holding
    <2>5. CASE d # c
      <3>1. stage'[d] = stage[d] /\ fd'[d] = fd[d]
        BY <1>1, <2>1, <2>2, <2>5
      <3>2. stage[d] \in Holding => fd[d] # fd[c]
        BY <1>0, <2>3, <2>5, DescriptorAssumption DEF Held
      <3>3. \A n \in Fds : table'[n] = IF n = fd[c] THEN Unused ELSE table[n]
        BY <2>1 DEF TypeOK
      <3> QED BY <1>0, <3>1, <3>2, <3>3 DEF Held
    <2> QED BY <2>4, <2>5
  <1>5. ASSUME NEW w \in Workers, EndLoop(w) PROVE Held'
    BY <1>0, <1>5 DEF EndLoop, Held
  <1>6. CASE UNCHANGED vars
    BY <1>0, <1>6 DEF vars, fixed, Held
  <1> QED BY <1>2, <1>3, <1>4, <1>5, <1>6, StepKinds

\* An epoll server with a single worker never closes a descriptor that another
\* connection uses, in spite of closing each number twice.  (For two workers,
\* and for io_uring, TLC finds the opposite.)
THEOREM KeptByOneThread == OneThread => (Spec => []EpollKeepsDescriptor)
  <1> SUFFICES ASSUME OneThread PROVE Spec => []EpollKeepsDescriptor
    OBVIOUS
  <1>1. Init => Held
    BY DEF Init, Held, Holding
  <1>2. TypeOK /\ Held /\ [Next]_vars => Held'
    BY HeldStep
  <1>3. Held => EpollKeepsDescriptor
    BY DEF Held, EpollKeepsDescriptor, KeepsDescriptor
  <1> QED BY <1>1, <1>2, <1>3, TypeCorrect, PTL DEF Spec

-----------------------------------------------------------------------------
(* Arithmetic of the allocator                                             *)

\* alloc rounds up to the next multiple, by less than the alignment.
LEMMA Rounding ==
    ASSUME NEW addr \in Nat, NEW align \in Nat \ {0}
    PROVE  /\ AlignUp(addr, align) \in Nat
           /\ addr <= AlignUp(addr, align) /\ AlignUp(addr, align) < addr + align
           /\ AlignUp(addr, align) % align = 0
  <1> DEFINE x == addr + align - 1
  <1>1. x \in Nat
    OBVIOUS
  <1> HIDE DEF x
  <1>2. (x - (x % align)) % align = 0
    <2>1. x - (x % align) = align * (x \div align) /\ x \div align \in Nat
      BY <1>1
    <2>2. \A q \in Nat : (align * q) % align = 0
      OBVIOUS
    <2> QED BY <2>1, <2>2
  <1>3. AlignUp(addr, align) = x - (x % align)
    BY DEF AlignUp, x
  <1>4. /\ AlignUp(addr, align) \in Nat
        /\ addr <= AlignUp(addr, align) /\ AlignUp(addr, align) < addr + align
    BY DEF AlignUp
  <1> QED BY <1>2, <1>3, <1>4

AllocType == [at : Nat, size : Nat \ {0}, align : Nat \ {0}]

\* What alloc takes from the main block begins where the last allocation
\* ended, or behind, and ends inside the block.
LEMMA MainAllocation ==
    ASSUME NEW a \in ArenaType, NEW n \in Nat \ {0}, NEW align \in Nat \ {0},
           Fits(a, n, align), a.base.size = BlockSize
    PROVE  /\ InMain(a, n, align) \in AllocType
           /\ InMain(a, n, align).at % InMain(a, n, align).align = 0
           /\ AllocMain(a, n, align) \in ArenaType
           /\ AllocMain(a, n, align).base = a.base
           /\ AllocMain(a, n, align).overflow = a.overflow
           /\ AllocMain(a, n, align).offset >= a.offset
           /\ InMain(a, n, align).at >= a.base.at + a.offset
           /\ Holds(AllocMain(a, n, align), InMain(a, n, align))
           /\ Inside(InMain(a, n, align), a.base, 0)
  <1> DEFINE x == InMain(a, n, align)
             at == AlignUp(a.base.at + a.offset, align)
             off == at - a.base.at + n
  <1>1. /\ a.base \in BlockType /\ a.base.at \in Nat /\ a.offset \in 0 .. BlockSize
        /\ a.overflow \in SUBSET BlockType /\ BlockSize \in Nat /\ a.base.size \in Nat
    BY ArenaAssumption DEF ArenaType, BlockType
  <1>2. /\ at \in Nat /\ a.base.at + a.offset <= at /\ at % align = 0
    <2>1. a.base.at + a.offset \in Nat
      BY <1>1
    <2> QED BY <2>1, Rounding, Zenon
  <1>3. x.at = at /\ x.size = n /\ x.align = align /\ x \in AllocType
    BY <1>2 DEF InMain, AllocType
  <1>4. off <= BlockSize /\ off >= a.offset /\ off \in 0 .. BlockSize
    <2> HIDE DEF at
    <2>1. off <= BlockSize
      BY <1>3 DEF Fits
    <2> QED BY <1>1, <1>2, <2>1
  <1>5. /\ AllocMain(a, n, align) = [a EXCEPT !.offset = off]
    BY <1>3 DEF AllocMain
  <1> HIDE DEF off
  <1>6. /\ AllocMain(a, n, align) \in ArenaType
        /\ AllocMain(a, n, align).base = a.base
        /\ AllocMain(a, n, align).overflow = a.overflow
        /\ AllocMain(a, n, align).offset = off
    BY <1>1, <1>4, <1>5 DEF ArenaType
  <1>7. Holds(AllocMain(a, n, align), x) /\ Inside(x, a.base, 0)
    <2> HIDE DEF at, x
    <2>1. off = at - a.base.at + n
      BY DEF off
    <2> QED BY <1>1, <1>2, <1>3, <1>4, <1>6, <2>1 DEF Holds, Inside
  <1> HIDE DEF at
  <1> QED BY <1>2, <1>3, <1>4, <1>6, <1>7

\* What alloc_overflow returns lies in the new block, behind its header.
LEMMA OverflowAllocation ==
    ASSUME NEW a \in ArenaType, NEW n \in Nat \ {0}, NEW align \in Nat \ {0},
           NEW b \in BlockType, b.size = OverflowSize(n, align)
    PROVE  /\ InOverflow(b, n, align) \in AllocType
           /\ InOverflow(b, n, align).at % InOverflow(b, n, align).align = 0
           /\ AllocOverflow(a, b) \in ArenaType
           /\ AllocOverflow(a, b).base = a.base
           /\ AllocOverflow(a, b).offset = a.offset
           /\ AllocOverflow(a, b).overflow = a.overflow \cup {b}
           /\ Inside(InOverflow(b, n, align), b, HeaderSize)
  <1> DEFINE x == InOverflow(b, n, align)
             at == AlignUp(b.at + HeaderSize, align)
  <1>1. b.at \in Nat /\ HeaderSize \in Nat /\ BlockSize \in Nat
    BY ArenaAssumption DEF BlockType
  <1>2. /\ at \in Nat /\ b.at + HeaderSize <= at /\ at < b.at + HeaderSize + align
        /\ at % align = 0
    <2>1. b.at + HeaderSize \in Nat
      BY <1>1
    <2> QED BY <2>1, Rounding, Zenon
  <1>3. x.at = at /\ x.size = n /\ x.align = align /\ x \in AllocType
    BY <1>2 DEF InOverflow, AllocType
  <1> HIDE DEF at, x
  <1>4. Inside(x, b, HeaderSize)
    BY <1>1, <1>2, <1>3 DEF Inside, OverflowSize
  <1>5. /\ AllocOverflow(a, b) \in ArenaType
        /\ AllocOverflow(a, b).base = a.base
        /\ AllocOverflow(a, b).offset = a.offset
        /\ AllocOverflow(a, b).overflow = a.overflow \cup {b}
    BY DEF AllocOverflow, ArenaType
  <1> QED BY <1>2, <1>3, <1>4, <1>5 DEF x

-----------------------------------------------------------------------------
(* The inductive invariant: blocks are apart and have one owner each, and  *)
(* what is allocated lies inside its owner's blocks.                       *)

HeapApart == \A b, d \in heap : b # d => Apart(b, d)

Proper(a) == a.base.size = BlockSize /\ a.base \notin a.overflow

Sized == /\ \A w \in Workers : \A a \in pool[w] : Proper(a)
         /\ \A c \in Connections : \A a \in arena[c] : Proper(a)

Taken(b) == \/ \E w \in Workers : \E a \in pool[w] : b \in Blocks(a)
            \/ \E c \in Connections : \E a \in arena[c] : b \in Blocks(a)

Owning == \A b : b \in heap <=> Taken(b)

MInv == /\ ArenasOK /\ allocs \in [Connections -> SUBSET AllocType]
        /\ HeapApart /\ Sized /\ OneOwner
        /\ AllocationsApart /\ AllocationsAligned

\* The first part of OneOwner, block by block.
LEMMA OwningIsHeap == Owning <=> heap = UNION {Blocks(a) : a \in Owners}
  <1>1. \A b : Taken(b) <=> b \in UNION {Blocks(a) : a \in Owners}
    BY DEF Taken, Owners
  <1> QED BY <1>1 DEF Owning

\* What is allocated lies in a block that its arena owns.
LEMMA InsideBlock ==
    ASSUME NEW a \in ArenaType, NEW x \in AllocType, Holds(a, x), a.base.size = BlockSize
    PROVE  \E b \in Blocks(a) : Inside(x, b, 0) /\ b \in BlockType
  <1>1. CASE Inside(x, a.base, 0)
    BY <1>1 DEF Blocks, ArenaType
  <1>2. ASSUME NEW b \in a.overflow, Inside(x, b, HeaderSize)
        PROVE  Inside(x, b, 0) /\ b \in BlockType
    <2>1. b \in BlockType /\ b.at \in Nat /\ HeaderSize \in Nat /\ x.at \in Nat
      BY ArenaAssumption DEF ArenaType, BlockType, AllocType
    <2> QED BY <1>2, <2>1 DEF Inside
  <1> QED BY <1>1, <1>2 DEF Holds, Blocks

\* Parts of blocks that are apart are apart.
LEMMA InsideApart ==
    ASSUME NEW x \in AllocType, NEW y \in AllocType, NEW b \in BlockType, NEW d \in BlockType,
           Inside(x, b, 0), Inside(y, d, 0), Apart(b, d)
    PROVE  Apart(x, y)
  BY DEF Inside, Apart, AllocType, BlockType

\* A new allocation that is apart from all that there is keeps the invariant
\* about allocations.
LEMMA AddAllocation ==
    ASSUME MInv, NEW c \in Connections, NEW a, arena[c] = {a}, NEW n, NEW x \in AllocType,
           arena' = [arena EXCEPT ![c] = {n}],
           allocs' = [allocs EXCEPT ![c] = @ \cup {x}],
           Holds(n, x), x.at % x.align = 0,
           \A y \in AllocType : Holds(a, y) => Holds(n, y),
           \A d \in Connections : \A y \in allocs[d] : Apart(x, y)
    PROVE  AllocationsApart' /\ AllocationsAligned'
  <1>1. /\ arena \in [Connections -> SUBSET ArenaType]
        /\ allocs \in [Connections -> SUBSET AllocType]
    BY DEF MInv, ArenasOK
  <1>2. \A d \in Connections : \A y \in allocs[d] : \E e \in arena[d] : Holds(e, y)
    BY DEF MInv, AllocationsApart
  <1>3. \A d \in Connections : \A y \in allocs'[d] : \E e \in arena'[d] : Holds(e, y)
    BY <1>1, <1>2
  <1>4. \A d \in Connections : \A y \in allocs[d] : Apart(y, x)
    BY DEF Apart
  <1>5. ASSUME NEW d \in Connections, NEW y \in allocs'[d],
               NEW e \in Connections, NEW z \in allocs'[e], <<d, y>> # <<e, z>>
        PROVE  Apart(y, z)
    <2>1. \/ y \in allocs[d]
          \/ d = c /\ y = x
      BY <1>1
    <2>2. \/ z \in allocs[e]
          \/ e = c /\ z = x
      BY <1>1
    <2>3. y \in allocs[d] /\ z \in allocs[e] => Apart(y, z)
      BY <1>5 DEF MInv, AllocationsApart
    <2> QED BY <1>4, <1>5, <2>1, <2>2, <2>3
  <1>6. AllocationsApart'
    BY <1>3, <1>5 DEF AllocationsApart
  <1>7. AllocationsAligned'
    BY <1>1 DEF MInv, AllocationsAligned
  <1> QED BY <1>6, <1>7
\* What an owner holds is in the heap.
LEMMA InHeap ==
    ASSUME MInv
    PROVE  /\ Owning
           /\ \A c \in Connections : \A a \in arena[c] : Blocks(a) \subseteq heap
           /\ \A w \in Workers : \A a \in pool[w] : Blocks(a) \subseteq heap
  <1>1. Owning
    BY OwningIsHeap DEF MInv, OneOwner
  <1> QED BY <1>1 DEF Owning, Taken

\* An arena that gains new blocks and loses some of its own stays the only
\* owner of all it has.
LEMMA Reown ==
    ASSUME MInv, NEW c \in Connections, NEW a, arena[c] = {a}, NEW n,
           NEW Gained, NEW Lost, Gained \cap heap = {}, Lost \subseteq Blocks(a),
           Blocks(n) = (Blocks(a) \ Lost) \cup Gained,
           arena' = [arena EXCEPT ![c] = {n}], pool' = pool,
           heap' = (heap \ Lost) \cup Gained
    PROVE  OneOwner'
  <1>0. arena \in [Connections -> SUBSET ArenaType]
    BY DEF MInv, ArenasOK
  <1>1. \A d \in Connections : arena'[d] = IF d = c THEN {n} ELSE arena[d]
    BY <1>0
  <1>2. /\ \A d \in Connections : \A b \in arena[d] : d # c => Separate(a, b)
        /\ \A w \in Workers : \A b \in pool[w] : Separate(a, b)
    BY DEF MInv, OneOwner
  <1>3. /\ \A d \in Connections : \A b \in arena[d] : d # c => Separate(n, b)
        /\ \A w \in Workers : \A b \in pool[w] : Separate(n, b)
    BY <1>2, InHeap DEF Separate
  <1>4. Owning'
    <2>1. \A b : Taken(b)' <=> \/ \E w \in Workers : \E e \in pool[w] : b \in Blocks(e)
                               \/ \E d \in Connections : \E e \in arena[d] : d # c /\ b \in Blocks(e)
                               \/ b \in Blocks(n)
      BY <1>1 DEF Taken
    <2>2. \A b : Taken(b) <=> \/ \E w \in Workers : \E e \in pool[w] : b \in Blocks(e)
                              \/ \E d \in Connections : \E e \in arena[d] : d # c /\ b \in Blocks(e)
                              \/ b \in Blocks(a)
      BY DEF Taken
    <2>3. \A b : b \in Blocks(a) => ~ \/ \E w \in Workers : \E e \in pool[w] : b \in Blocks(e)
                                      \/ \E d \in Connections : \E e \in arena[d] : d # c /\ b \in Blocks(e)
      BY <1>2 DEF Separate
    <2>4. \A b : b \in heap <=> Taken(b)
      BY InHeap DEF Owning
    <2> QED BY <2>1, <2>2, <2>3, <2>4 DEF Owning
  <1>5. heap' = UNION {Blocks(e) : e \in Owners'}
    <2>1. \A b : Taken(b)' <=> b \in UNION {Blocks(e) : e \in Owners'}
      BY DEF Taken, Owners
    <2> QED BY <1>4, <2>1 DEF Owning
  <1>6. \A d, e \in Connections : \A b \in arena'[d], f \in arena'[e] : d # e => Separate(b, f)
    BY <1>1, <1>3 DEF MInv, OneOwner, Separate
  <1>7. \A w \in Workers : \A b \in pool'[w] :
           /\ \A d \in Connections : \A e \in arena'[d] : Separate(e, b)
           /\ \A v \in Workers : \A e \in pool'[v] : v # w \/ e # b => Separate(e, b)
    BY <1>1, <1>3 DEF MInv, OneOwner
  <1> QED BY <1>5, <1>6, <1>7 DEF OneOwner

\* The rest of the invariant, when the arena of c becomes another.
LEMMA Replace ==
    ASSUME MInv, NEW c \in Connections, NEW a, arena[c] = {a}, NEW n \in ArenaType, Proper(n),
           arena' = [arena EXCEPT ![c] = {n}], pool' = pool, stage' = stage,
           allocs' \in [Connections -> SUBSET AllocType],
           heap' \subseteq BlockType, HeapApart', OneOwner', AllocationsApart',
           AllocationsAligned',
           \A d \in Connections : d # c => allocs'[d] = allocs[d]
    PROVE  MInv'
  <1>0. arena \in [Connections -> SUBSET ArenaType]
    BY DEF MInv, ArenasOK
  <1>1. \A d \in Connections : arena'[d] = IF d = c THEN {n} ELSE arena[d]
    BY <1>0
  <1>2. Sized'
    BY <1>1 DEF MInv, Sized
  <1>3. ArenasOK'
    <2>1. arena' \in [Connections -> SUBSET ArenaType] /\ pool' \in [Workers -> SUBSET ArenaType]
      BY <1>0 DEF MInv, ArenasOK
    <2>2. ASSUME NEW d \in Connections
          PROVE  /\ \A e, f \in arena'[d] : e = f
                 /\ arena'[d] # {} <=> stage'[d] \in InSlot
                 /\ arena'[d] = {} => allocs'[d] = {}
      BY <1>1 DEF MInv, ArenasOK
    <2> QED BY <2>1, <2>2 DEF ArenasOK
  <1> QED BY <1>2, <1>3 DEF MInv

\* The place malloc finds is apart from the heap.
LEMMA Fresh ==
    ASSUME MInv, NEW n \in Nat \ {0}, NEW b \in Malloc(n)
    PROVE  /\ b \in BlockType /\ b.size = n /\ b \notin heap
           /\ \A d \in heap : Apart(b, d)
           /\ \A d, e \in heap \cup {b} : d # e => Apart(d, e)
  <1>1. b \in BlockType /\ b.size = n /\ \A d \in heap : Apart(b, d)
    BY MemoryAssumption DEF Malloc, BlockType
  <1>2. b \notin heap
    BY <1>1 DEF Apart, BlockType
  <1>3. \A d \in heap : Apart(d, b)
    BY <1>1 DEF Apart
  <1> QED BY <1>1, <1>2, <1>3 DEF MInv, HeapApart
-----------------------------------------------------------------------------
(* The actions                                                             *)

\* What another allocation lies in is a block of the heap, and one of the
\* arena's own blocks only if it is an allocation of the same connection.
LEMMA Elsewhere ==
    ASSUME MInv, NEW c \in Connections, NEW a, arena[c] = {a},
           NEW d \in Connections, NEW y \in allocs[d]
    PROVE  \/ d = c /\ Holds(a, y) /\ y \in AllocType
           \/ \E b \in heap : /\ b \notin Blocks(a) /\ b \in BlockType
                              /\ y \in AllocType /\ Inside(y, b, 0)
  <1>0. /\ arena \in [Connections -> SUBSET ArenaType]
        /\ allocs \in [Connections -> SUBSET AllocType]
    BY DEF MInv, ArenasOK
  <1>1. y \in AllocType
    BY <1>0
  <1>2. PICK e \in arena[d] : Holds(e, y)
    BY DEF MInv, AllocationsApart
  <1>3. CASE d = c
    BY <1>1, <1>2, <1>3
  <1>4. CASE d # c
    <2>1. e \in ArenaType /\ e.base.size = BlockSize /\ Separate(a, e)
      BY <1>0, <1>4 DEF MInv, Sized, Proper, OneOwner
    <2>2. PICK b \in Blocks(e) : Inside(y, b, 0) /\ b \in BlockType
      BY <1>1, <1>2, <2>1, InsideBlock
    <2>3. b \in heap /\ b \notin Blocks(a)
      BY <2>1, InHeap DEF Separate
    <2> QED BY <1>1, <2>2, <2>3
  <1> QED BY <1>3, <1>4

\* alloc out of the main block.
LEMMA MainKeeps ==
    ASSUME MInv, NEW c \in Connections, NEW n \in Sizes, NEW align \in Alignments,
           NEW a \in arena[c], Fits(a, n, align),
           arena' = [arena EXCEPT ![c] = {AllocMain(a, n, align)}],
           allocs' = [allocs EXCEPT ![c] = @ \cup {InMain(a, n, align)}],
           UNCHANGED <<heap, pool, stage>>
    PROVE  MInv'
  <1> DEFINE x == InMain(a, n, align)
             m == AllocMain(a, n, align)
  <1>0. /\ arena[c] = {a} /\ a \in ArenaType /\ Proper(a)
        /\ n \in Nat \ {0} /\ align \in Nat \ {0}
    BY MemoryAssumption DEF MInv, ArenasOK, Sized
  <1>1. /\ x \in AllocType /\ x.at % x.align = 0 /\ m \in ArenaType
        /\ m.base = a.base /\ m.overflow = a.overflow /\ m.offset >= a.offset
        /\ x.at >= a.base.at + a.offset /\ Holds(m, x) /\ Inside(x, a.base, 0)
    BY <1>0, MainAllocation DEF Proper
  <1> HIDE DEF x, m
  <1>2. /\ a.base \in BlockType /\ a.overflow \in SUBSET BlockType
        /\ a.offset \in Nat /\ m.offset \in Nat
    BY <1>0, <1>1, ArenaAssumption DEF ArenaType
  <1>3. \A y \in AllocType : Holds(a, y) => Holds(m, y)
    <2> SUFFICES ASSUME NEW y \in AllocType, Holds(a, y) PROVE Holds(m, y)
      OBVIOUS
    <2>1. CASE \E b \in a.overflow : Inside(y, b, HeaderSize)
      BY <1>1, <2>1 DEF Holds
    <2>2. CASE Inside(y, a.base, 0) /\ y.at + y.size <= a.base.at + a.offset
      <3>1. a.base.at + a.offset <= m.base.at + m.offset
        BY <1>1, <1>2 DEF BlockType
      <3>2. y.at + y.size <= m.base.at + m.offset
        BY <1>1, <1>2, <2>2, <3>1 DEF AllocType, BlockType
      <3> QED BY <1>1, <2>2, <3>2 DEF Holds
    <2> QED BY <2>1, <2>2 DEF Holds
  <1>4. ASSUME NEW d \in Connections, NEW y \in allocs[d] PROVE Apart(x, y)
    <2>1. CASE \E b \in heap : /\ b \notin Blocks(a) /\ b \in BlockType
                               /\ y \in AllocType /\ Inside(y, b, 0)
      <3>1. PICK b \in heap : b \notin Blocks(a) /\ b \in BlockType
                              /\ y \in AllocType /\ Inside(y, b, 0)
        BY <2>1
      <3>2. a.base \in heap /\ a.base # b
        BY <3>1, InHeap DEF Blocks
      <3>3. Apart(a.base, b)
        BY <3>1, <3>2 DEF MInv, HeapApart
      <3> QED BY <1>1, <1>2, <3>1, <3>3, InsideApart
    <2>2. CASE Holds(a, y) /\ y \in AllocType
      <3>1. CASE y.at + y.size <= a.base.at + a.offset
        BY <1>1, <1>2, <2>2, <3>1 DEF Apart, AllocType, BlockType
      <3>2. ASSUME NEW b \in a.overflow, Inside(y, b, HeaderSize) PROVE Apart(x, y)
        <4>1. b \in BlockType /\ b # a.base /\ b \in heap /\ a.base \in heap
          BY <1>0, <1>2, InHeap DEF Proper, Blocks
        <4>2. Apart(a.base, b)
          BY <4>1 DEF MInv, HeapApart
        <4>3. Inside(y, b, 0)
          BY <2>2, <3>2, <4>1, ArenaAssumption DEF Inside, AllocType, BlockType
        <4> QED BY <1>1, <1>2, <2>2, <4>1, <4>2, <4>3, InsideApart
      <3> QED BY <2>2, <3>1, <3>2 DEF Holds
    <2> QED BY <1>0, <2>1, <2>2, Elsewhere
  <1>5. AllocationsApart' /\ AllocationsAligned'
    BY <1>0, <1>1, <1>3, <1>4, AddAllocation DEF x, m
  <1>6. OneOwner'
    <2>1. Blocks(m) = (Blocks(a) \ {}) \cup {}
      BY <1>1 DEF Blocks
    <2>2. arena' = [arena EXCEPT ![c] = {m}] /\ heap' = (heap \ {}) \cup {}
      BY DEF m
    <2>3. {} \cap heap = {} /\ {} \subseteq Blocks(a) /\ pool' = pool
      OBVIOUS
    <2> QED BY <1>0, <2>1, <2>2, <2>3, Reown, Zenon
  <1>7. allocs' \in [Connections -> SUBSET AllocType] /\ Proper(m)
    BY <1>0, <1>1 DEF MInv, Proper, x
  <1>8. heap' \subseteq BlockType /\ HeapApart'
    BY DEF MInv, ArenasOK, HeapApart
  <1>9. \A d \in Connections : d # c => allocs'[d] = allocs[d]
    BY DEF MInv
  <1>10. arena' = [arena EXCEPT ![c] = {m}]
    BY DEF m
  <1> QED BY <1>0, <1>1, <1>5, <1>6, <1>7, <1>8, <1>9, <1>10, Replace

\* alloc out of a new overflow block.
LEMMA OverflowKeeps ==
    ASSUME MInv, NEW c \in Connections, NEW n \in Sizes, NEW align \in Alignments,
           NEW a \in arena[c], NEW b \in Malloc(OverflowSize(n, align)),
           arena' = [arena EXCEPT ![c] = {AllocOverflow(a, b)}],
           allocs' = [allocs EXCEPT ![c] = @ \cup {InOverflow(b, n, align)}],
           heap' = heap \cup {b}, UNCHANGED <<pool, stage>>
    PROVE  MInv'
  <1> DEFINE x == InOverflow(b, n, align)
             m == AllocOverflow(a, b)
  <1>0. /\ arena[c] = {a} /\ a \in ArenaType /\ Proper(a)
        /\ n \in Nat \ {0} /\ align \in Nat \ {0}
    BY MemoryAssumption DEF MInv, ArenasOK, Sized
  <1>1. /\ b \in BlockType /\ b.size = OverflowSize(n, align) /\ b \notin heap
        /\ \A d \in heap : Apart(b, d)
        /\ \A d, e \in heap \cup {b} : d # e => Apart(d, e)
    <2>1. OverflowSize(n, align) \in Nat \ {0}
      BY <1>0, ArenaAssumption DEF OverflowSize
    <2> QED BY <2>1, Fresh
  <1>2. /\ x \in AllocType /\ x.at % x.align = 0 /\ m \in ArenaType
        /\ m.base = a.base /\ m.offset = a.offset /\ m.overflow = a.overflow \cup {b}
        /\ Inside(x, b, HeaderSize)
    BY <1>0, <1>1, OverflowAllocation
  <1> HIDE DEF x, m
  <1>3. Holds(m, x) /\ \A y \in AllocType : Holds(a, y) => Holds(m, y)
    BY <1>2 DEF Holds
  <1>4. Inside(x, b, 0)
    BY <1>1, <1>2, ArenaAssumption DEF Inside, AllocType, BlockType
  <1>5. ASSUME NEW d \in Connections, NEW y \in allocs[d] PROVE Apart(x, y)
    <2>1. PICK f \in heap : f \in BlockType /\ y \in AllocType /\ Inside(y, f, 0)
      <3>1. CASE Holds(a, y) /\ y \in AllocType
        <4>1. PICK f \in Blocks(a) : Inside(y, f, 0) /\ f \in BlockType
          BY <1>0, <3>1, InsideBlock DEF Proper
        <4> QED BY <1>0, <3>1, <4>1, InHeap
      <3> QED BY <1>0, <3>1, Elsewhere
    <2> QED BY <1>1, <1>2, <1>4, <2>1, InsideApart
  <1>6. AllocationsApart' /\ AllocationsAligned'
    BY <1>0, <1>2, <1>3, <1>5, AddAllocation DEF x, m
  <1>7. arena' = [arena EXCEPT ![c] = {m}]
    BY DEF m
  <1>8. OneOwner'
    <2>1. Blocks(m) = (Blocks(a) \ {}) \cup {b} /\ {b} \cap heap = {}
      BY <1>1, <1>2 DEF Blocks
    <2>2. heap' = (heap \ {}) \cup {b} /\ {} \subseteq Blocks(a) /\ pool' = pool
      OBVIOUS
    <2> QED BY <1>0, <1>7, <2>1, <2>2, Reown, Zenon
  <1>9. allocs' \in [Connections -> SUBSET AllocType]
    BY <1>2 DEF MInv, x
  <1>10. Proper(m)
    <2>1. a.base \in heap
      BY <1>0, InHeap DEF Blocks
    <2> QED BY <1>0, <1>1, <1>2, <2>1 DEF Proper
  <1>11. heap' \subseteq BlockType /\ HeapApart'
    BY <1>1 DEF MInv, ArenasOK, HeapApart
  <1>12. \A d \in Connections : d # c => allocs'[d] = allocs[d]
    BY DEF MInv
  <1> QED BY <1>0, <1>2, <1>6, <1>7, <1>8, <1>9, <1>10, <1>11, <1>12, Replace

\* reset_for_next_request.
LEMMA NextRequestKeeps ==
    ASSUME MInv, NEW c \in Connections, NEW a \in arena[c],
           arena' = [arena EXCEPT ![c] = {Reset(a)}], heap' = heap \ a.overflow,
           allocs' = [allocs EXCEPT ![c] = {}], UNCHANGED <<pool, stage>>
    PROVE  MInv'
  <1> DEFINE m == Reset(a)
  <1>0. /\ arena[c] = {a} /\ a \in ArenaType /\ Proper(a)
        /\ arena \in [Connections -> SUBSET ArenaType]
        /\ allocs \in [Connections -> SUBSET AllocType]
    BY DEF MInv, ArenasOK, Sized
  <1>1. /\ m \in ArenaType /\ m.base = a.base /\ m.overflow = {}
    <2>1. 0 \in 0 .. BlockSize /\ {} \in SUBSET BlockType
      BY ArenaAssumption
    <2>2. m = [a EXCEPT !.offset = 0, !.overflow = {}]
      BY DEF Reset
    <2> HIDE DEF m
    <2> QED BY <1>0, <2>1, <2>2 DEF ArenaType
  <1>2. arena' = [arena EXCEPT ![c] = {m}]
    OBVIOUS
  <1> HIDE DEF m
  <1>3. Proper(m)
    BY <1>0, <1>1 DEF Proper
  <1>4. OneOwner'
    <2>1. Blocks(m) = (Blocks(a) \ a.overflow) \cup {}
      BY <1>0, <1>1 DEF Blocks, Proper
    <2>2. /\ heap' = (heap \ a.overflow) \cup {} /\ a.overflow \subseteq Blocks(a)
          /\ pool' = pool /\ {} \cap heap = {}
      BY DEF Blocks
    <2> QED BY <1>0, <1>2, <2>1, <2>2, Reown, Zenon
  <1>5. \A d \in Connections : /\ allocs'[d] = IF d = c THEN {} ELSE allocs[d]
                              /\ d # c => arena'[d] = arena[d]
    BY <1>0
  <1>6. allocs' \in [Connections -> SUBSET AllocType]
    BY <1>0
  <1>7. AllocationsApart' /\ AllocationsAligned'
    BY <1>5 DEF MInv, AllocationsApart, AllocationsAligned
  <1>8. heap' \subseteq BlockType /\ HeapApart'
    BY DEF MInv, ArenasOK, HeapApart
  <1> QED BY <1>0, <1>1, <1>2, <1>3, <1>4, <1>5, <1>6, <1>7, <1>8, Replace

\* OneOwner, from its parts.
LEMMA OwnerParts ==
    ASSUME Owning',
           \A c, d \in Connections : \A a \in arena'[c], b \in arena'[d] : c # d => Separate(a, b),
           \A w \in Workers : \A b \in pool'[w] :
              /\ \A c \in Connections : \A a \in arena'[c] : Separate(a, b)
              /\ \A v \in Workers : \A a \in pool'[v] : v # w \/ a # b => Separate(a, b)
    PROVE  OneOwner'
  <1>1. \A b : Taken(b)' <=> b \in UNION {Blocks(e) : e \in Owners'}
    BY DEF Taken, Owners
  <1>2. heap' = UNION {Blocks(e) : e \in Owners'}
    BY <1>1 DEF Owning
  <1> QED BY <1>2 DEF OneOwner

\* acquire takes an arena from the pool.
LEMMA PoolKeeps ==
    ASSUME MInv, TypeOK, NEW c \in Connections, stage[c] \notin InSlot, NEW w \in Workers,
           NEW a \in pool[w], pool' = [pool EXCEPT ![w] = @ \ {a}],
           arena' = [arena EXCEPT ![c] = {a}], stage' = [stage EXCEPT ![c] = "open"],
           UNCHANGED <<heap, allocs>>
    PROVE  MInv'
  <1>0. /\ arena \in [Connections -> SUBSET ArenaType] /\ pool \in [Workers -> SUBSET ArenaType]
        /\ stage \in [Connections -> Stages]
        /\ arena[c] = {} /\ allocs[c] = {} /\ a \in ArenaType /\ Proper(a)
    BY DEF MInv, ArenasOK, TypeOK, InSlot, Sized
  <1>1. /\ \A d \in Connections : arena'[d] = IF d = c THEN {a} ELSE arena[d]
        /\ \A v \in Workers : pool'[v] = IF v = w THEN pool[w] \ {a} ELSE pool[v]
        /\ \A d \in Connections : stage'[d] = IF d = c THEN "open" ELSE stage[d]
    BY <1>0
  <1>2. ArenasOK'
    <2>1. arena' \in [Connections -> SUBSET ArenaType] /\ pool' \in [Workers -> SUBSET ArenaType]
      BY <1>0, <1>1
    <2>2. ASSUME NEW d \in Connections
          PROVE  /\ \A e, f \in arena'[d] : e = f
                 /\ arena'[d] # {} <=> stage'[d] \in InSlot
                 /\ arena'[d] = {} => allocs'[d] = {}
      BY <1>1 DEF MInv, ArenasOK, InSlot
    <2> QED BY <2>1, <2>2 DEF MInv, ArenasOK, InSlot
  <1>3. Sized'
    BY <1>0, <1>1 DEF MInv, Sized
  <1>4. Owning'
    <2>1. \A b : Taken(b)' <=> Taken(b)
      BY <1>0, <1>1 DEF Taken
    <2> QED BY <2>1, InHeap DEF Owning
  <1>5. \A d, e \in Connections : \A b \in arena'[d], f \in arena'[e] : d # e => Separate(b, f)
    BY <1>1 DEF MInv, OneOwner, Separate
  <1>6. \A v \in Workers : \A b \in pool'[v] :
           /\ \A d \in Connections : \A e \in arena'[d] : Separate(e, b)
           /\ \A u \in Workers : \A e \in pool'[u] : u # v \/ e # b => Separate(e, b)
    BY <1>1 DEF MInv, OneOwner
  <1>7. OneOwner'
    BY <1>4, <1>5, <1>6, OwnerParts
  <1>8. AllocationsApart' /\ AllocationsAligned'
    BY <1>0, <1>1 DEF MInv, AllocationsApart, AllocationsAligned
  <1> QED BY <1>2, <1>3, <1>7, <1>8 DEF MInv, HeapApart

\* acquire makes an arena.
LEMMA MallocKeeps ==
    ASSUME MInv, TypeOK, NEW c \in Connections, stage[c] \notin InSlot,
           NEW b \in Malloc(BlockSize), heap' = heap \cup {b},
           arena' = [arena EXCEPT ![c] = {NewArena(b)}], stage' = [stage EXCEPT ![c] = "open"],
           UNCHANGED <<pool, allocs>>
    PROVE  MInv'
  <1> DEFINE a == NewArena(b)
  <1>0. /\ arena \in [Connections -> SUBSET ArenaType] /\ pool \in [Workers -> SUBSET ArenaType]
        /\ stage \in [Connections -> Stages]
        /\ arena[c] = {} /\ allocs[c] = {}
    BY DEF MInv, ArenasOK, TypeOK, InSlot
  <1>f. /\ b \in BlockType /\ b.size = BlockSize /\ b \notin heap
        /\ \A d, e \in heap \cup {b} : d # e => Apart(d, e)
    BY Fresh, ArenaAssumption
  <1>a. a \in ArenaType /\ Proper(a) /\ Blocks(a) = {b}
    BY <1>f, ArenaAssumption DEF NewArena, ArenaType, Proper, Blocks
  <1> HIDE DEF a
  <1>1. /\ \A d \in Connections : arena'[d] = IF d = c THEN {a} ELSE arena[d]
        /\ \A d \in Connections : stage'[d] = IF d = c THEN "open" ELSE stage[d]
    BY <1>0 DEF a
  <1>2. ArenasOK'
    <2>1. arena' \in [Connections -> SUBSET ArenaType] /\ heap' \subseteq BlockType
      BY <1>0, <1>a, <1>f DEF MInv, ArenasOK, a
    <2>2. ASSUME NEW d \in Connections
          PROVE  /\ \A e, f \in arena'[d] : e = f
                 /\ arena'[d] # {} <=> stage'[d] \in InSlot
                 /\ arena'[d] = {} => allocs'[d] = {}
      BY <1>1 DEF MInv, ArenasOK, InSlot
    <2> QED BY <1>0, <2>1, <2>2 DEF ArenasOK, InSlot
  <1>3. Sized'
    BY <1>a, <1>1 DEF MInv, Sized
  <1>4. Owning'
    <2>1. \A d : Taken(d)' <=> Taken(d) \/ d = b
      BY <1>0, <1>a, <1>1 DEF Taken
    <2> QED BY <2>1, InHeap DEF Owning
  <1>5. /\ \A d \in Connections : \A e \in arena[d] : Separate(e, a) /\ Separate(a, e)
        /\ \A w \in Workers : \A e \in pool[w] : Separate(e, a) /\ Separate(a, e)
    BY <1>a, <1>f, InHeap DEF Separate
  <1>6. \A d, e \in Connections : \A g \in arena'[d], f \in arena'[e] : d # e => Separate(g, f)
    BY <1>1, <1>5 DEF MInv, OneOwner
  <1>7. \A v \in Workers : \A g \in pool'[v] :
           /\ \A d \in Connections : \A e \in arena'[d] : Separate(e, g)
           /\ \A u \in Workers : \A e \in pool'[u] : u # v \/ e # g => Separate(e, g)
    BY <1>1, <1>5 DEF MInv, OneOwner
  <1>8. OneOwner'
    BY <1>4, <1>6, <1>7, OwnerParts
  <1>9. AllocationsApart' /\ AllocationsAligned'
    BY <1>0, <1>1 DEF MInv, AllocationsApart, AllocationsAligned
  <1>10. HeapApart'
    BY <1>f DEF HeapApart
  <1> QED BY <1>2, <1>3, <1>8, <1>9, <1>10 DEF MInv

\* ~arena.
LEMMA FreeKeeps ==
    ASSUME MInv, TypeOK, NEW c \in Connections, stage[c] \in InSlot, Free(c),
           stage' = [stage EXCEPT ![c] = "gone"]
    PROVE  MInv'
  <1>0. /\ arena \in [Connections -> SUBSET ArenaType] /\ pool \in [Workers -> SUBSET ArenaType]
        /\ allocs \in [Connections -> SUBSET AllocType]
        /\ stage \in [Connections -> Stages]
    BY DEF MInv, ArenasOK, TypeOK
  <1>a. PICK a : arena[c] = {a}
    <2>1. arena[c] # {} /\ \A a, b \in arena[c] : a = b
      BY DEF MInv, ArenasOK, InSlot
    <2>2. PICK a \in arena[c] : TRUE
      BY <2>1
    <2>3. arena[c] = {a}
      BY <2>1, <2>2
    <2> QED BY <2>3
  <1>1. /\ \A d \in Connections : arena'[d] = IF d = c THEN {} ELSE arena[d]
        /\ \A d \in Connections : allocs'[d] = IF d = c THEN {} ELSE allocs[d]
        /\ \A d \in Connections : stage'[d] = IF d = c THEN "gone" ELSE stage[d]
        /\ pool' = pool /\ heap' = heap \ Blocks(a)
    BY <1>0, <1>a DEF Free
  <1>2. ArenasOK'
    <2>1. /\ arena' \in [Connections -> SUBSET ArenaType] /\ heap' \subseteq BlockType
      BY <1>0, <1>1 DEF MInv, ArenasOK, Free
    <2>2. ASSUME NEW d \in Connections
          PROVE  /\ \A e, f \in arena'[d] : e = f
                 /\ arena'[d] # {} <=> stage'[d] \in InSlot
                 /\ arena'[d] = {} => allocs'[d] = {}
      BY <1>1 DEF MInv, ArenasOK, InSlot
    <2> QED BY <1>0, <1>1, <2>1, <2>2 DEF ArenasOK, InSlot
  <1>3. Sized' /\ HeapApart'
    BY <1>1 DEF MInv, Sized, HeapApart
  <1>4. Owning'
    <2>1. \A b : b \in Blocks(a) => ~ \/ \E w \in Workers : \E e \in pool[w] : b \in Blocks(e)
                                      \/ \E d \in Connections : \E e \in arena[d] : d # c /\ b \in Blocks(e)
      BY <1>a DEF MInv, OneOwner, Separate
    <2>2. \A b : Taken(b) <=> \/ \E w \in Workers : \E e \in pool[w] : b \in Blocks(e)
                              \/ \E d \in Connections : \E e \in arena[d] : d # c /\ b \in Blocks(e)
                              \/ b \in Blocks(a)
      BY <1>a DEF Taken
    <2>3. \A b : Taken(b)' <=> \/ \E w \in Workers : \E e \in pool[w] : b \in Blocks(e)
                               \/ \E d \in Connections : \E e \in arena[d] : d # c /\ b \in Blocks(e)
      BY <1>1 DEF Taken
    <2> QED BY <1>1, <2>1, <2>2, <2>3, InHeap DEF Owning
  <1>5. \A d, e \in Connections : \A b \in arena'[d], f \in arena'[e] : d # e => Separate(b, f)
    BY <1>1 DEF MInv, OneOwner
  <1>6. \A v \in Workers : \A b \in pool'[v] :
           /\ \A d \in Connections : \A e \in arena'[d] : Separate(e, b)
           /\ \A u \in Workers : \A e \in pool'[u] : u # v \/ e # b => Separate(e, b)
    BY <1>1 DEF MInv, OneOwner
  <1>7. OneOwner'
    BY <1>4, <1>5, <1>6, OwnerParts
  <1>8. allocs' \in [Connections -> SUBSET AllocType] /\ AllocationsApart' /\ AllocationsAligned'
    <2>1. \A d, e \in Connections : \A x \in allocs[d], y \in allocs[e] :
             <<d, x>> # <<e, y>> => Apart(x, y)
      BY DEF MInv, AllocationsApart
    <2>2. \A d, e \in Connections : \A x \in allocs'[d], y \in allocs'[e] :
             <<d, x>> # <<e, y>> => Apart(x, y)
      BY <1>1, <2>1
    <2>3. \A d \in Connections : \A x \in allocs'[d] : \E e \in arena'[d] : Holds(e, x)
      BY <1>1 DEF MInv, AllocationsApart
    <2>4. allocs' \in [Connections -> SUBSET AllocType] /\ AllocationsAligned'
      BY <1>0, <1>1 DEF MInv, AllocationsAligned, Free
    <2> QED BY <2>2, <2>3, <2>4 DEF AllocationsApart
  <1> QED BY <1>2, <1>3, <1>7, <1>8 DEF MInv

\* The steps of the life of a connection that leave the memory alone.
LEMMA StageKeeps ==
    ASSUME MInv, TypeOK, NEW c \in Connections, NEW s, UNCHANGED memory,
           stage' = [stage EXCEPT ![c] = s], s \in InSlot <=> stage[c] \in InSlot
    PROVE  MInv'
  <1>1. \A d \in Connections : stage'[d] \in InSlot <=> stage[d] \in InSlot
    BY DEF TypeOK
  <1>2. ArenasOK'
    BY <1>1 DEF MInv, ArenasOK, memory, InSlot
  <1> QED BY <1>2 DEF MInv, memory, Sized, HeapApart, OneOwner, Owners, AllocationsApart, AllocationsAligned

\* They neither give the connection a slot nor take it away.
LEMMA LivesParts ==
    ASSUME NEW c \in Connections, Lives(c)
    PROVE  \E s : Becomes(c, s) /\ (s \in InSlot <=> stage[c] \in InSlot)
  <1>1. CASE EpollAccept(c) \/ KernelAccept(c)
    BY <1>1 DEF EpollAccept, KernelAccept, InSlot
  <1>2. CASE RefuseAccept(c)
    BY <1>2 DEF RefuseAccept, AtAccept, InSlot
  <1>3. CASE CloseRefused(c)
    BY <1>3 DEF CloseRefused, InSlot
  <1>4. CASE CloseNow(c) \/ QueueClose(c)
    BY <1>4 DEF CloseNow, QueueClose, InSlot
  <1>5. CASE FirstClose(c) \/ KernelClose(c) \/ HandleClose(c)
    BY <1>5 DEF FirstClose, KernelClose, HandleClose, InSlot
  <1> QED BY <1>1, <1>2, <1>3, <1>4, <1>5 DEF Lives

\* ~arena_pool.
LEMMA FreePoolKeeps ==
    ASSUME MInv, NEW w \in Workers, FreePool(w)
    PROVE  MInv'
  <1>0. /\ pool \in [Workers -> SUBSET ArenaType]
        /\ heap' = heap \ UNION {Blocks(a) : a \in pool[w]}
        /\ UNCHANGED <<arena, allocs, stage>>
    BY DEF MInv, ArenasOK, FreePool, vars
  <1>1. /\ \A v \in Workers : pool'[v] = IF v = w THEN {} ELSE pool[v]
        /\ pool' \in [Workers -> SUBSET ArenaType]
    BY <1>0 DEF FreePool
  <1>2. ArenasOK' /\ Sized' /\ HeapApart'
    BY <1>0, <1>1 DEF MInv, ArenasOK, Sized, HeapApart
  <1>3. Owning'
    <2>1. \A b : Taken(b) <=> \/ \E a \in pool[w] : b \in Blocks(a)
                              \/ Taken(b)'
      BY <1>0, <1>1 DEF Taken
    <2>2. \A b : Taken(b)' => \A a \in pool[w] : b \notin Blocks(a)
      <3>1. ASSUME NEW b, NEW a \in pool[w], b \in Blocks(a), NEW v \in Workers,
                   NEW e \in pool'[v], b \in Blocks(e)
            PROVE  FALSE
        BY <1>1, <3>1 DEF MInv, OneOwner, Separate
      <3>2. ASSUME NEW b, NEW a \in pool[w], b \in Blocks(a), NEW d \in Connections,
                   NEW e \in arena'[d], b \in Blocks(e)
            PROVE  FALSE
        BY <1>0, <3>2 DEF MInv, OneOwner, Separate
      <3> QED BY <3>1, <3>2 DEF Taken
    <2> QED BY <1>0, <2>1, <2>2, InHeap DEF Owning
  <1>4. \A d, e \in Connections : \A b \in arena'[d], f \in arena'[e] : d # e => Separate(b, f)
    BY <1>0 DEF MInv, OneOwner
  <1>5. \A v \in Workers : \A b \in pool'[v] :
           /\ \A d \in Connections : \A e \in arena'[d] : Separate(e, b)
           /\ \A u \in Workers : \A e \in pool'[u] : u # v \/ e # b => Separate(e, b)
    BY <1>0, <1>1 DEF MInv, OneOwner
  <1>6. OneOwner'
    BY <1>3, <1>4, <1>5, OwnerParts
  <1>7. AllocationsApart' /\ AllocationsAligned'
    BY <1>0 DEF MInv, AllocationsApart, AllocationsAligned
  <1> QED BY <1>0, <1>2, <1>6, <1>7 DEF MInv

-----------------------------------------------------------------------------
(* The specification                                                       *)

\* The arenas the pools begin with.
LEMMA MemoryBegins == MemoryInit => Init /\ MInv
  <1> SUFFICES ASSUME MemoryInit PROVE Init /\ MInv
    OBVIOUS
  <1>0. Init
    BY DEF MemoryInit
  <1>1. PICK owner \in [heap -> Workers] :
           pool = [w \in Workers |-> {NewArena(b) : b \in {d \in heap : owner[d] = w}}]
    BY DEF MemoryInit
  <1>2. /\ arena = [c \in Connections |-> {}] /\ allocs = [c \in Connections |-> {}]
        /\ heap \subseteq BlockType /\ HeapApart /\ \A b \in heap : b.size = BlockSize
    BY MemoryAssumption, ArenaAssumption DEF MemoryInit, HeapApart, MainBlocks, BlockType
  <1>3. \A b \in heap : /\ NewArena(b) \in ArenaType /\ Proper(NewArena(b))
                        /\ Blocks(NewArena(b)) = {b}
    BY <1>2, ArenaAssumption DEF NewArena, ArenaType, Proper, Blocks
  <1>4. ArenasOK
    <2>1. pool \in [Workers -> SUBSET ArenaType]
      BY <1>1, <1>3
    <2> QED BY <1>0, <1>2, <2>1 DEF ArenasOK, Init, InSlot
  <1>5. /\ \A w \in Workers : \A a \in pool[w] : \E b \in heap : a = NewArena(b) /\ owner[b] = w
        /\ \A b \in heap : owner[b] \in Workers /\ NewArena(b) \in pool[owner[b]]
    BY <1>1
  <1>6. Sized
    BY <1>2, <1>3, <1>5 DEF Sized
  <1>7. Owning
    BY <1>2, <1>3, <1>5 DEF Owning, Taken
  <1>8. ASSUME NEW w \in Workers, NEW b \in pool[w], NEW v \in Workers, NEW a \in pool[v],
               v # w \/ a # b
        PROVE  Separate(a, b)
    BY <1>3, <1>5, <1>8 DEF Separate
  <1>9. OneOwner
    <2>1. heap = UNION {Blocks(a) : a \in Owners}
      BY <1>7, OwningIsHeap
    <2>2. \A c \in Connections : arena[c] = {}
      BY <1>2
    <2> QED BY <1>8, <2>1, <2>2 DEF OneOwner
  <1>10. AllocationsApart /\ AllocationsAligned
    BY <1>2 DEF AllocationsApart, AllocationsAligned
  <1> QED BY <1>0, <1>2, <1>4, <1>6, <1>9, <1>10 DEF MInv

\* Every step of a connection's life and of its memory keeps it.
LEMMA MemoryStep == TypeOK /\ MInv /\ [MemoryNext]_allVars => MInv'
  <1> SUFFICES ASSUME TypeOK, MInv, [MemoryNext]_allVars PROVE MInv'
    OBVIOUS
  <1>1. ASSUME NEW c \in Connections, HandleAccept(c), Acquire(c) PROVE MInv'
    <2>1. /\ stage[c] \notin InSlot /\ stage' = [stage EXCEPT ![c] = "open"]
          /\ worker[c] \in Workers
      BY <1>1 DEF HandleAccept, AtAccept, Becomes, InSlot, TypeOK
    <2>2. ASSUME NEW a \in pool[worker[c]], UNCHANGED <<heap, allocs>>,
                 pool' = [pool EXCEPT ![worker[c]] = @ \ {a}],
                 arena' = [arena EXCEPT ![c] = {a}]
          PROVE  MInv'
      BY <2>1, <2>2, PoolKeeps
    <2>3. ASSUME NEW b \in Malloc(BlockSize), heap' = heap \cup {b},
                 arena' = [arena EXCEPT ![c] = {NewArena(b)}], UNCHANGED <<pool, allocs>>
          PROVE  MInv'
      BY <2>1, <2>3, MallocKeeps
    <2> QED BY <1>1, <2>2, <2>3 DEF Acquire
  <1>2. ASSUME NEW c \in Connections, SecondClose(c), Free(c) PROVE MInv'
    BY <1>2, FreeKeeps DEF SecondClose, Becomes, InSlot
  <1>3. ASSUME NEW c \in Connections, Lives(c), UNCHANGED memory PROVE MInv'
    <2>1. PICK s : Becomes(c, s) /\ (s \in InSlot <=> stage[c] \in InSlot)
      BY <1>3, LivesParts
    <2> QED BY <1>3, <2>1, StageKeeps DEF Becomes
  <1>4. ASSUME NEW c \in Connections, NEW n \in Sizes, NEW align \in Alignments,
               Alloc(c, n, align)
        PROVE  MInv'
    <2>1. UNCHANGED <<pool, stage>>
      BY <1>4 DEF Alloc, vars
    <2>2. ASSUME NEW a \in arena[c], Fits(a, n, align), heap' = heap,
                 arena' = [arena EXCEPT ![c] = {AllocMain(a, n, align)}],
                 allocs' = [allocs EXCEPT ![c] = @ \cup {InMain(a, n, align)}]
          PROVE  MInv'
      BY <2>1, <2>2, MainKeeps
    <2>3. ASSUME NEW a \in arena[c], NEW b \in Malloc(OverflowSize(n, align)),
                 heap' = heap \cup {b},
                 arena' = [arena EXCEPT ![c] = {AllocOverflow(a, b)}],
                 allocs' = [allocs EXCEPT ![c] = @ \cup {InOverflow(b, n, align)}]
          PROVE  MInv'
      BY <2>1, <2>3, OverflowKeeps
    <2> QED BY <1>4, <2>2, <2>3 DEF Alloc
  <1>5. ASSUME NEW c \in Connections, NextRequest(c) PROVE MInv'
    <2>1. UNCHANGED <<pool, stage>>
      BY <1>5 DEF NextRequest, vars
    <2>2. PICK a \in arena[c] : /\ arena' = [arena EXCEPT ![c] = {Reset(a)}]
                                /\ heap' = heap \ a.overflow
      BY <1>5 DEF NextRequest
    <2>3. allocs' = [allocs EXCEPT ![c] = {}]
      BY <1>5 DEF NextRequest
    <2> QED BY <2>1, <2>2, <2>3, NextRequestKeeps
  <1>6. ASSUME NEW w \in Workers, FreePool(w) PROVE MInv'
    BY <1>6, FreePoolKeeps
  <1>7. CASE UNCHANGED <<stage, memory>>
    BY <1>7 DEF memory, MInv, ArenasOK, Sized, HeapApart, OneOwner, Owners,
                AllocationsApart, AllocationsAligned
  <1>8. ASSUME NEW w \in Workers, EndLoop(w), UNCHANGED memory PROVE MInv'
    BY <1>7, <1>8 DEF EndLoop
  <1>9. CASE UNCHANGED allVars
    BY <1>7, <1>9 DEF allVars, vars
  <1> QED BY <1>1, <1>2, <1>3, <1>4, <1>5, <1>6, <1>8, <1>9 DEF MemoryNext

\* A connection with its memory lives as one without: start_close and
\* ~connection close its number twice whatever its arena does.
THEOREM MemoryImplementsDescriptors == MemorySpec => Spec
  <1>1. [MemoryNext]_allVars => [Next]_vars
    BY DEF MemoryNext, allVars, vars, Next, Lives, Alloc, NextRequest, FreePool
  <1> QED BY <1>1, MemoryBegins, PTL DEF MemorySpec, Spec

\* The inductive invariant holds throughout.
THEOREM MemoryInvariant == MemorySpec => []MInv
  BY MemoryBegins, MemoryStep, MemoryImplementsDescriptors, TypeCorrect, PTL DEF MemorySpec

\* An arena never bumps past its block, and a connection has one exactly
\* while its object lives (arena::alloc, arena_pool::acquire, ~connection).
THEOREM MemoryTyped == MemorySpec => []MemoryTypeOK
  <1>1. TypeOK /\ MInv => MemoryTypeOK
    BY DEF MInv, MemoryTypeOK
  <1> QED BY <1>1, MemoryInvariant, MemoryImplementsDescriptors, TypeCorrect, PTL

\* No two allocations of arena::alloc and alloc_overflow share a byte, none is
\* outside the memory that its arena owns, and each has the alignment that was
\* asked for, whatever places malloc returns.
THEOREM AlwaysSound == MemorySpec => []AllocationsSound
  <1>1. MInv => AllocationsSound
    BY DEF MInv, AllocationsSound
  <1> QED BY <1>1, MemoryInvariant, PTL

\* acquire, alloc_overflow, reset and ~arena neither leak a block nor free one
\* that another owner has.
THEOREM AlwaysOneOwner == MemorySpec => []OneOwner
  <1>1. MInv => OneOwner
    BY DEF MInv
  <1> QED BY <1>1, MemoryInvariant, PTL
==============================================================================
