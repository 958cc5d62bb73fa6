------------------------------- MODULE Malloc -------------------------------
(***************************************************************************)
(* The memory allocator, core/malloc.c: a list of free blocks in ascending *)
(* order, first fit with alignment, splitting, merging, and discarding of  *)
(* cached data when no block fits.                                         *)
(*                                                                         *)
(* Addresses count units smaller than MIN_MEMBLOCK_SIZE.  An allocation is *)
(* in progress ("request") while alloc_memblock runs the discarders, which *)
(* free memory themselves.                                                 *)
(***************************************************************************)
EXTENDS Naturals, Sequences, FiniteSets

CONSTANTS
  MinBlock,   \* MIN_MEMBLOCK_SIZE, a power of two
  HeapSize,   \* the size of the heap
  HeapStarts, \* the possible addresses of the heap
  Sizes,      \* the sizes that are asked for
  Aligns,     \* the alignments that are asked for, powers of two
  OffsetSets  \* sets of offsets from the alignment: a system uses one of them

ASSUME MallocAssumption ==
  /\ MinBlock \in Nat \ {0} /\ HeapSize \in Nat /\ HeapSize >= MinBlock
  /\ HeapStarts \subseteq Nat /\ Sizes \subseteq Nat \ {0}
  /\ Aligns \subseteq Nat \ {0} /\ \A o \in OffsetSets : o \subseteq Nat

VARIABLES
  start,       \* the address of the heap
  offsets,     \* the offsets that this system uses
  free_blocks, \* the free list: a sequence of [at, size]
  freemem,     \* the counter of free memory
  live,        \* the allocated blocks: a set of [at, size]
  cached,      \* those that a discarder may free
  request      \* the call of alloc_memblock in progress, or Nothing

vars == <<start, offsets, free_blocks, freemem, live, cached, request>>

Nothing == [size |-> 0]
Block(at, size) == [at |-> at, size |-> size]

\* Sizes are rounded up when a block is allocated and when it is freed.
Rounded(size) == ((size + MinBlock - 1) \div MinBlock) * MinBlock

Optional(b) == IF b.size < MinBlock THEN << >> ELSE <<b>>
-----------------------------------------------------------------------------
\* free_memblock: the free list with block b inserted and merged.
Inserted_without_following(list, b) ==
  LET j == Cardinality({k \in DOMAIN list : list[k].at < b.at + b.size}) + 1
      before == j > 1 /\ list[j - 1].at + list[j - 1].size = b.at
      freeing == IF before THEN Block(list[j - 1].at, list[j - 1].size + b.size) ELSE b
  IN  SubSeq(list, 1, IF before THEN j - 2 ELSE j - 1)
      \o <<freeing>> \o SubSeq(list, j, Len(list))
Inserted(list, b) ==
  LET j == Cardinality({k \in DOMAIN list : list[k].at < b.at + b.size}) + 1
      before == j > 1 /\ list[j - 1].at + list[j - 1].size = b.at
      after == j <= Len(list) /\ b.at + b.size = list[j].at
      freeing == [at |-> IF before THEN list[j - 1].at ELSE b.at,
                  size |-> b.size + (IF before THEN list[j - 1].size ELSE 0)
                                  + (IF after THEN list[j].size ELSE 0)]
  IN  SubSeq(list, 1, IF before THEN j - 2 ELSE j - 1)
      \o <<freeing>>
      \o SubSeq(list, IF after THEN j + 1 ELSE j, Len(list))

\* What precedes the aligned part of block b: align_mask has the bits of the
\* alignment and those of MIN_MEMBLOCK_SIZE.
PreSize(b, req) ==
  LET modulus == IF req.align > MinBlock THEN req.align ELSE MinBlock
  IN  (req.offset + modulus - (b.at % modulus)) % modulus

Fits(b, req) == b.size >= PreSize(b, req) + Rounded(req.size)

\* alloc_memblock splits the k-th free block, the first one that fits.
Split(k, req) ==
  LET b == free_blocks[k]
      pre == PreSize(b, req)
      taken == Rounded(req.size)
  IN  SubSeq(free_blocks, 1, k - 1)
      \o Optional(Block(b.at, pre))
      \o Optional(Block(b.at + pre + taken, b.size - pre - taken))
      \o SubSeq(free_blocks, k + 1, Len(free_blocks))

\* init_heap and mpopulate
Init ==
  /\ start \in HeapStarts /\ offsets \in OffsetSets
  /\ free_blocks = <<Block(start, (HeapSize \div MinBlock) * MinBlock)>>
  /\ freemem = (HeapSize \div MinBlock) * MinBlock
  /\ live = {} /\ cached = {}
  /\ request = Nothing

\* A call of alloc_memblock, or of realloc for an old block.
alloc_memblock ==
  /\ request = Nothing
  /\ \/ \E size \in Sizes, align \in Aligns, offset \in offsets :
          request' = [size |-> size, align |-> align, offset |-> offset, old |-> {}]
     \/ \E size \in Sizes, b \in live \ cached :
          request' = [size |-> size, align |-> 1, offset |-> 0, old |-> {b}]
  /\ UNCHANGED <<start, offsets, free_blocks, freemem, live, cached>>

FirstFit == {k \in DOMAIN free_blocks :
               /\ Fits(free_blocks[k], request)
               /\ \A j \in 1 .. (k - 1) : ~Fits(free_blocks[j], request)}

\* A block fits; realloc then frees the old one.
Allocated ==
  /\ request # Nothing
  /\ \E k \in FirstFit :
       LET new == Block(free_blocks[k].at + PreSize(free_blocks[k], request),
                        Rounded(request.size))
           rest == Split(k, request)
       IN  IF request.old = {}
             THEN /\ free_blocks' = rest
                  /\ freemem' = freemem - new.size
                  /\ live' = live \cup {new}
             ELSE \E old \in request.old :
                    /\ free_blocks' = Inserted(rest, old)
                    /\ freemem' = freemem - new.size + old.size
                    /\ live' = (live \ {old}) \cup {new}
  /\ request' = Nothing
  /\ UNCHANGED <<start, offsets, cached>>

\* No block fits: a discarder gives up something, and the search is repeated.
\* Memory that has another reference is not freed yet.
discard_cache_of_nothing ==
  /\ request # Nothing /\ FirstFit = {} /\ cached # {}
  /\ UNCHANGED vars
discard_cache ==
  /\ request # Nothing /\ FirstFit = {}
  /\ \E b \in cached :
       /\ cached' = cached \ {b}
       /\ \/ /\ free_blocks' = Inserted(free_blocks, b)
             /\ freemem' = freemem + b.size
             /\ live' = live \ {b}
          \/ UNCHANGED <<free_blocks, freemem, live>>
  /\ UNCHANGED <<start, offsets, request>>

\* Nothing is left to discard: NULL is returned, and realloc keeps the old block.
AllocFails ==
  /\ request # Nothing /\ FirstFit = {} /\ cached = {}
  /\ request' = Nothing
  /\ UNCHANGED <<start, offsets, free_blocks, freemem, live, cached>>

free_memblock ==
  /\ request = Nothing
  /\ \E b \in live :
       /\ free_blocks' = Inserted(free_blocks, b)
       /\ freemem' = freemem + b.size
       /\ live' = live \ {b} /\ cached' = cached \ {b}
  /\ UNCHANGED <<start, offsets, request>>

\* The owner of a block puts it in a cache.
Cache ==
  /\ request = Nothing
  /\ \E b \in live \ cached : cached' = cached \cup {b}
  /\ UNCHANGED <<start, offsets, free_blocks, freemem, live, request>>

Next ==
  alloc_memblock \/ Allocated \/ discard_cache \/ AllocFails \/ free_memblock \/ Cache

Spec == Init /\ [][Next]_vars

\* alloc_memblock keeps on running until it returns.
FairSpec == Spec /\ WF_vars(Allocated \/ discard_cache \/ AllocFails)
-----------------------------------------------------------------------------
Free == {free_blocks[k] : k \in DOMAIN free_blocks}
Extent(b) == b.at .. (b.at + b.size - 1)
Heap == start .. (start + (HeapSize \div MinBlock) * MinBlock - 1)
Used == UNION {Extent(b) : b \in Free \cup live}

\* The assertions of check_blocks: free blocks are large enough to be blocks, in
\* ascending order, and adjacent ones have been merged.
HeapIntact ==
  \A k \in DOMAIN free_blocks :
    /\ free_blocks[k].size >= MinBlock
    /\ k > 1 => free_blocks[k].at > free_blocks[k - 1].at + free_blocks[k - 1].size

\* No two blocks, free or allocated, overlap, and none leaves the heap.
NoOverlap ==
  /\ Used \subseteq Heap
  /\ \A b, c \in Free \cup live : b # c => Extent(b) \cap Extent(c) = {}
  /\ Free \cap live = {}

\* Memory leaks "only at the very start" and "at the very end of the heap", and
\* less than a block at each, if every offset is a multiple of the block size.
LeaksAtEnds ==
  (\A o \in offsets : o % MinBlock = 0) =>
    \A u \in Heap \ Used : u < start + MinBlock \/ u + MinBlock >= start + HeapSize

\* Blocks are split, merged and lost as alloc_memblock and free_memblock say,
\* for whatever sizes, alignments and offsets are asked for.
HeapConsistent == HeapIntact /\ NoOverlap /\ LeaksAtEnds

\* Every allocation returns, with a block or without: each round of the loop of
\* alloc_memblock leaves less to discard, also when a discarder has reported
\* something that is still referenced and frees no memory.
AllocReturns == request # Nothing ~> request = Nothing
=============================================================================
