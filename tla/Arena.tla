--------------------------------- MODULE Arena ---------------------------------
(***************************************************************************)
(* The bump allocator of src/arena.h.  A block is what malloc returned: an *)
(* address and a size.  An arena has one main block, in which it allocates *)
(* upwards, and overflow blocks for what does not fit there, each with a   *)
(* header that chains it to the next and with one allocation.              *)
(***************************************************************************)
EXTENDS Integers

CONSTANTS BlockSize,   \* block_size_ (8192 in the code)
          HeaderSize   \* sizeof(block)

ASSUME ArenaAssumption == BlockSize \in Nat \ {0} /\ HeaderSize \in Nat \ {0}

BlockType == [at : Nat, size : Nat]
ArenaType == [base : BlockType, offset : 0 .. BlockSize, overflow : SUBSET BlockType]

Apart(b, c) == b.at + b.size <= c.at \/ c.at + c.size <= b.at

\* a lies inside b, behind its first n bytes
Inside(a, b, n) == b.at + n <= a.at /\ a.at + a.size <= b.at + b.size

NewArena(b) == [base |-> b, offset |-> 0, overflow |-> {}]

Blocks(a) == {a.base} \cup a.overflow

\* The first multiple of align at or behind addr
AlignUp(addr, align) == LET x == addr + align - 1 IN x - (x % align)

\* Mutant: the offset is aligned, not the address
InMainByOffset(a, n, align) ==
    [at |-> a.base.at + AlignUp(a.offset, align), size |-> n, align |-> align]

\* alloc: where n bytes come to lie in the main block, if they fit
InMain(a, n, align) ==
    [at |-> AlignUp(a.base.at + a.offset, align), size |-> n, align |-> align]

\* Mutant: only the beginning has to fit
FitsBeginning(a, n, align) == InMain(a, n, align).at - a.base.at <= BlockSize

Fits(a, n, align) ==
    InMain(a, n, align).at - a.base.at + n <= BlockSize

AllocMain(a, n, align) ==
    [a EXCEPT !.offset = InMain(a, n, align).at - a.base.at + n]

\* alloc_overflow
OverflowSize(n, align) == HeaderSize + align + (IF n > BlockSize THEN n ELSE BlockSize)

InOverflow(b, n, align) ==
    [at |-> AlignUp(b.at + HeaderSize, align), size |-> n, align |-> align]

AllocOverflow(a, b) == [a EXCEPT !.overflow = @ \cup {b}]

Reset(a) == [a EXCEPT !.offset = 0, !.overflow = {}]
===============================================================================
