---------------------------------- MODULE Malloc --------------------------------
(******************************************************************************)
(* csapp/code/vm/malloc/mm.c and memlib.c: the implicit free list allocator   *)
(* with boundary tags and immediate coalescing.  The heap is an array of      *)
(* words; sizes and addresses count words (WSIZE = 1, DSIZE = 2), and a       *)
(* request is a number of words.  mmNextFit is the compile-time NEXT_FIT.     *)
(* A word is <<n, k>>: the tag PACK(n, k) when k is 0 or 1, and user data     *)
(* written by owner n when k is 2.                                            *)
(******************************************************************************)
EXTENDS Integers, FiniteSetsExt

CONSTANTS
  MAX_HEAP,     \* maximum heap size in words
  CHUNKSIZE,    \* words by which the heap is extended at least
  MmOwner,      \* the parts of the program that own one block each
  MmRequest     \* the sizes they ask for

ASSUME MmAssumption ==
  /\ MAX_HEAP \in Nat /\ CHUNKSIZE \in Nat /\ CHUNKSIZE >= 4 /\ MAX_HEAP >= 5 + CHUNKSIZE
  /\ MmOwner \subseteq Nat /\ MmRequest \subseteq Nat \ {0}

VARIABLES
  mmNextFit,    \* NEXT_FIT is defined
  mmHeap,       \* [mem: the words below mem_brk, brk: mem_brk, rover: the next fit rover]
  mmBlock       \* what each owner holds: [ptr, size], with ptr 0 for nothing

mmVars == <<mmNextFit, mmHeap, mmBlock>>

HeapListp == 2
GetSize(h, p) == h.mem[p][1]
GetAlloc(h, p) == h.mem[p][2] = 1
Hdrp(bp) == bp - 1
Ftrp(h, bp) == bp + GetSize(h, Hdrp(bp)) - 2
NextBlkp(h, bp) == bp + GetSize(h, Hdrp(bp))
PrevBlkp(h, bp) == bp - GetSize(h, bp - 2)

\* PUT of the tag in the header and the footer of block bp.
Tagged(h, bp, size, alloc) ==
  [h EXCEPT !.mem = [@ EXCEPT ![bp - 1] = <<size, alloc>>, ![bp + size - 2] = <<size, alloc>>]]

RoverMerged(h, start, size) ==
  IF h.rover > start /\ h.rover < start + size THEN [h EXCEPT !.rover = start] ELSE h

\* The four cases of coalesce; the result is the heap and the block that holds bp.
Coalesce(h, bp) ==
  LET prevAlloc == GetAlloc(h, Ftrp(h, PrevBlkp(h, bp)))
      nextAlloc == GetAlloc(h, Hdrp(NextBlkp(h, bp)))
      start == IF prevAlloc THEN bp ELSE PrevBlkp(h, bp)
      size == GetSize(h, Hdrp(bp))
                + (IF prevAlloc THEN 0 ELSE GetSize(h, Hdrp(PrevBlkp(h, bp))))
                + (IF nextAlloc THEN 0 ELSE GetSize(h, Hdrp(NextBlkp(h, bp))))
  IN  IF prevAlloc /\ nextAlloc
      THEN [heap |-> h, bp |-> bp]
      ELSE [heap |-> RoverMerged(Tagged(h, start, size, 0), start, size), bp |-> start]

SbrkFails(h, size) == h.brk + size > MAX_HEAP

\* extend_heap and mem_sbrk: bp is 0 (NULL) when the heap cannot grow.
ExtendHeap(h, words) ==
  LET size == IF words % 2 = 1 THEN words + 1 ELSE words
      grown == [h EXCEPT !.brk = @ + size,
                         !.mem = [p \in 0 .. h.brk + size - 1 |-> IF p < h.brk THEN h.mem[p] ELSE <<0, 2>>]]
      freed == Tagged(grown, h.brk, size, 0)
      ended == [freed EXCEPT !.mem[h.brk + size - 1] = <<0, 1>>]
  IN  IF SbrkFails(h, size) THEN [heap |-> h, bp |-> 0] ELSE Coalesce(ended, h.brk)

\* The heap mm_init makes: padding, prologue and epilogue, and a first free block.
Prologue == [p \in 0 .. 3 |-> IF p = 0 THEN <<0, 0>> ELSE IF p = 3 THEN <<0, 1>> ELSE <<2, 1>>]
Initialized == ExtendHeap([mem |-> Prologue, brk |-> 4, rover |-> HeapListp], CHUNKSIZE).heap

MmInit ==
  /\ mmNextFit \in BOOLEAN
  /\ mmHeap = Initialized
  /\ mmBlock = [o \in MmOwner |-> [ptr |-> 0, size |-> 0]]

\* Adjust block size to include overhead and alignment.
Asize(size) == IF size <= 2 THEN 4 ELSE 2 * ((size + 2 + 1) \div 2)

Fits(h, bp, asize) == ~GetAlloc(h, Hdrp(bp)) /\ asize <= GetSize(h, Hdrp(bp))

\* Where a search loop that starts at block from stops: at a block that fits, at the epilogue or at limit.
Stops(h, from, limit, asize) ==
  LET At[bp \in 2 .. h.brk] ==
        IF bp >= limit \/ GetSize(h, Hdrp(bp)) = 0 \/ Fits(h, bp, asize) THEN bp ELSE At[NextBlkp(h, bp)]
  IN  At[from]

SearchAgain(h, asize) == Stops(h, HeapListp, h.rover, asize)

\* find_fit: the block, 0 for none, and the heap with the rover moved.
FindFit(h, asize) ==
  LET first == Stops(h, IF mmNextFit THEN h.rover ELSE HeapListp, h.brk + 1, asize)
      again == SearchAgain(h, asize)
  IN  CASE GetSize(h, Hdrp(first)) # 0 ->
             [bp |-> first, heap |-> IF mmNextFit THEN [h EXCEPT !.rover = first] ELSE h]
        [] GetSize(h, Hdrp(first)) = 0 /\ mmNextFit ->
             [bp |-> IF again < h.rover THEN again ELSE 0, heap |-> [h EXCEPT !.rover = again]]
        [] OTHER -> [bp |-> 0, heap |-> h]

\* place: the block is split if the rest is large enough for a block.
Place(h, bp, asize) ==
  LET csize == GetSize(h, Hdrp(bp))
  IN  IF csize - asize >= 4
      THEN Tagged(Tagged(h, bp, asize, 1), bp + asize, csize - asize, 0)
      ELSE Tagged(h, bp, csize, 1)

\* mm_malloc of a size that is not 0.
MmMalloc(h, size) ==
  LET fit == FindFit(h, Asize(size))
      more == ExtendHeap(fit.heap, Max({Asize(size), CHUNKSIZE}))
      got == IF fit.bp # 0 THEN fit ELSE more
  IN  IF got.bp = 0 THEN got ELSE [got EXCEPT !.heap = Place(@, got.bp, Asize(size))]

MmFree(h, bp) == Coalesce(Tagged(h, bp, GetSize(h, Hdrp(bp)), 0), bp).heap

\* The owner of a block writes all of it.
UserFills(h, o, bp, from, size) ==
  [h EXCEPT !.mem = [p \in DOMAIN @ |-> IF p \in bp + from .. bp + size - 1 THEN <<o, 2>> ELSE @[p]]]

MemcpyNot(h, dst, src, n) == h        \* mutant: the data stays behind
Memcpy(h, dst, src, n) ==
  [h EXCEPT !.mem = [p \in DOMAIN @ |-> IF p \in dst .. dst + n - 1 THEN @[p - dst + src] ELSE @[p]]]

\* The blocks of the heap, as NEXT_BLKP walks them from the prologue, without the epilogue.
Blocks(h) ==
  LET Walk[bp \in 2 .. h.brk] ==
        IF GetSize(h, Hdrp(bp)) = 0 THEN {} ELSE {bp} \cup Walk[NextBlkp(h, bp)]
  IN  Walk[HeapListp]

\* What a word holds that is neither a tag of a block nor data of an owner is of no interest: it is
\* never read, and is forgotten to keep the states few.
Kept(h, block) ==
  LET tags == {0, h.brk - 1} \cup {Hdrp(bp) : bp \in Blocks(h)} \cup {Ftrp(h, bp) : bp \in Blocks(h)}
      data == UNION {block[o].ptr .. block[o].ptr + block[o].size - 1 : o \in MmOwner}
  IN  [h EXCEPT !.mem = [p \in DOMAIN @ |-> IF p \in tags \cup data THEN @[p] ELSE <<0, 2>>]]

Holds(o) == mmBlock[o].ptr # 0

\* mm_malloc, and mm_realloc of NULL.
CallMalloc(o, size) ==
  /\ ~Holds(o)
  /\ LET got == MmMalloc(mmHeap, size)
     IN  IF got.bp = 0
         THEN mmHeap' = got.heap /\ UNCHANGED mmBlock
         ELSE /\ mmBlock' = [mmBlock EXCEPT ![o] = [ptr |-> got.bp, size |-> size]]
              /\ mmHeap' = Kept(UserFills(got.heap, o, got.bp, 0, size), mmBlock')
  /\ UNCHANGED mmNextFit

\* mm_free, and mm_realloc to size 0.
CallFree(o) ==
  /\ Holds(o)
  /\ mmBlock' = [mmBlock EXCEPT ![o] = [ptr |-> 0, size |-> 0]]
  /\ mmHeap' = Kept(MmFree(mmHeap, mmBlock[o].ptr), mmBlock')
  /\ UNCHANGED mmNextFit

\* mm_realloc; the owner writes what it did not have before.
CallRealloc(o, size) ==
  /\ Holds(o)
  /\ LET old == mmBlock[o]
         got == MmMalloc(mmHeap, size)
         oldsize == GetSize(got.heap, Hdrp(old.ptr))
         copied == Memcpy(got.heap, got.bp, old.ptr, Min({size, oldsize}))
     IN  IF got.bp = 0
         THEN mmHeap' = got.heap /\ UNCHANGED mmBlock
         ELSE /\ mmBlock' = [mmBlock EXCEPT ![o] = [ptr |-> got.bp, size |-> size]]
              /\ mmHeap' = Kept(UserFills(MmFree(copied, old.ptr), o, got.bp, old.size, size), mmBlock')
  /\ UNCHANGED mmNextFit

MmNext ==
  \E o \in MmOwner :
     \/ \E size \in MmRequest : CallMalloc(o, size) \/ CallRealloc(o, size)
     \/ CallFree(o)

MmSpec == MmInit /\ [][MmNext]_mmVars

--------------------------------------------------------------------------------
(* Properties                                                                 *)

\* Each variable has its type.
MmTypeOK ==
  /\ mmNextFit \in BOOLEAN
  /\ mmHeap.brk \in 0 .. MAX_HEAP /\ mmHeap.rover \in 2 .. MAX_HEAP
  /\ DOMAIN mmHeap.mem = 0 .. mmHeap.brk - 1
  /\ \A p \in DOMAIN mmHeap.mem : mmHeap.mem[p][1] \in Nat /\ mmHeap.mem[p][2] \in 0 .. 2
  /\ mmBlock \in [MmOwner -> [ptr : 0 .. MAX_HEAP, size : {0} \cup MmRequest]]

\* What checkheap and checkblock look for: from the prologue to the epilogue, which is the last word,
\* the blocks follow each other without a gap, aligned, and each has one tag at both ends.
MmTiled ==
  /\ mmHeap.mem[1] = <<2, 1>> /\ mmHeap.mem[mmHeap.brk - 1] = <<0, 1>>
  /\ \E last \in Blocks(mmHeap) : NextBlkp(mmHeap, last) = mmHeap.brk
  /\ \A bp \in Blocks(mmHeap) :
       bp % 2 = 0 /\ mmHeap.mem[Hdrp(bp)] = mmHeap.mem[Ftrp(mmHeap, bp)]

\* No two free blocks are neighbours, whatever was freed, split or added in whatever order.
MmCoalesced ==
  \A bp \in Blocks(mmHeap) \ {HeapListp} :
     ~GetAlloc(mmHeap, Hdrp(bp)) => GetAlloc(mmHeap, Hdrp(NextBlkp(mmHeap, bp)))

\* The blocks in use are the owners', each large enough and with the data its owner wrote, through
\* every split, merge and move of it or of its neighbours; none leaks.
MmPayloadsKept ==
  /\ \A o \in MmOwner : Holds(o) =>
       \A p \in mmBlock[o].ptr .. mmBlock[o].ptr + mmBlock[o].size - 1 : mmHeap.mem[p] = <<o, 2>>
  /\ {bp \in Blocks(mmHeap) \ {HeapListp} : GetAlloc(mmHeap, Hdrp(bp))} = {mmBlock[o].ptr : o \in {w \in MmOwner : Holds(w)}}

\* The rover stays on a block, also when the block it was on is merged with another.
MmRoverOnBlock == mmHeap.rover \in Blocks(mmHeap) \cup {mmHeap.brk}

\* What mm_checkheap looks for and the callers rely on, after any sequence of calls.
MmSafe == MmTypeOK /\ MmTiled /\ MmCoalesced /\ MmRoverOnBlock /\ MmPayloadsKept
====
