-------------------------------- MODULE Heap --------------------------------
(***************************************************************************)
(* The firmware heap (lib/sbi/sbi_heap.c).  Every operation runs under     *)
(* hpctrl->lock and is one step.  A block, free or used, is described by a *)
(* node; nodes come from a fixed pool in the housekeeping area, so an      *)
(* allocation that has to split a free block needs one or two spare nodes. *)
(***************************************************************************)
EXTENDS Naturals, Sequences, FiniteSets, SequencesExt, FiniteSetsExt

CONSTANTS
  Heaps,        \* "global" and those made with sbi_heap_alloc_new()
  Base, Size,   \* the area behind the housekeeping area, in bytes
  Nodes,        \* number of nodes in the housekeeping area
  ALLOC_ALIGN,  \* HEAP_ALLOC_ALIGN
  SizeMod,      \* 2^w, w the width of size_t and of an address
  Sizes, Aligns \* what callers ask for

ASSUME HeapAssumption ==
  /\ "global" \in Heaps
  /\ Nodes \in Nat \ {0}
  /\ Size \in Nat \ {0}
  /\ Base % ALLOC_ALIGN = 0 /\ Size % ALLOC_ALIGN = 0
  /\ Base + Size < SizeMod
  /\ Sizes \cup Aligns \subseteq 0..(SizeMod - 1)

VARIABLES
  free,         \* free_space_list of each heap
  used,         \* used_space_list, with what the caller asked for (history)
  free_nodes    \* length of free_node_list

heap_vars == <<free, used, free_nodes>>

\* sbi_heap_init_new()
HeapInit ==
  /\ free = [hp \in Heaps |-> <<[addr |-> Base, size |-> Size]>>]
  /\ used = [hp \in Heaps |-> {}]
  /\ free_nodes = [hp \in Heaps |-> Nodes - 1]

EndOf(n) == n.addr + n.size

\* Bug: addresses and sizes are rounded down.
RoundDown(x, align) == (x \div align) * align

\* Sizes and addresses are w bits wide, so a sum wraps.
Wrap(x) == x % SizeMod

\* ROUNDUP(), and size += align - 1; size &= ~(align - 1).  What lies within align - 1
\* of 2^w rounds up to zero.
RoundUp(x, align) == (Wrap(x + align - 1) \div align) * align
PadOf(n, align) == Wrap(RoundUp(n.addr, align) - n.addr)

IsPowerOfTwo(n) == \E e \in 0..n : n = 2^e
-----------------------------------------------------------------------------
\* The first free block that holds size bytes at the alignment.
Fits(hp, align, size) ==
  {i \in DOMAIN free[hp] : Wrap(size + PadOf(free[hp][i], align)) <= free[hp][i].size}

\* The block goes to the caller.  Blocks of no bytes can share an address: they are
\* numbered.
Give(hp, addr, size, align, asked) ==
  LET nth == IF size # 0 THEN 0 ELSE Cardinality({u \in used[hp] : u.size = 0 /\ u.addr = addr})
  IN  used' = [used EXCEPT ![hp] =
                 @ \cup {[addr |-> addr, size |-> size, align |-> align, asked |-> asked,
                          nth |-> nth]}]

\* Bug: a block that starts unaligned is split with one node, losing what remains.
AllocPaddedLossy(hp, i, align, size, asked) ==
  LET np  == free[hp][i]
      pad == PadOf(np, align)
  IN  /\ pad # 0
      /\ free_nodes[hp] > 0
      /\ free' = [free EXCEPT ![hp][i].size = pad]
      /\ free_nodes' = [free_nodes EXCEPT ![hp] = @ - 1]
      /\ Give(hp, np.addr + pad, size, align, asked)

\* The aligned address lies inside np: np keeps what is before it, one node is needed
\* for the block and another for what is behind it, unless nothing is.
AllocPadded(hp, i, align, size, asked) ==
  LET np   == free[hp][i]
      pad  == PadOf(np, align)
      rest == np.size - Wrap(size + pad)
      rem  == [addr |-> np.addr + size + pad, size |-> rest]
      cut  == [free[hp] EXCEPT ![i].size = pad]
      need == IF rest > 0 THEN 2 ELSE 1
  IN  /\ pad # 0
      /\ free_nodes[hp] >= need
      /\ free' = [free EXCEPT ![hp] = IF rest > 0 THEN Append(cut, rem) ELSE cut]
      /\ free_nodes' = [free_nodes EXCEPT ![hp] = @ - need]
      /\ Give(hp, np.addr + pad, size, align, asked)

\* np starts aligned: its front is cut off, or all of it is taken.
AllocFront(hp, i, align, size, asked) ==
  LET np == free[hp][i]
  IN  /\ PadOf(np, align) = 0
      /\ \/ /\ size < np.size
            /\ free_nodes[hp] > 0
            /\ free' = [free EXCEPT ![hp][i] =
                          [addr |-> np.addr + size, size |-> np.size - size]]
            /\ free_nodes' = [free_nodes EXCEPT ![hp] = @ - 1]
         \/ /\ size = np.size
            /\ free' = [free EXCEPT ![hp] = RemoveAt(@, i)]
            /\ UNCHANGED free_nodes
      /\ Give(hp, np.addr, size, align, asked)

\* alloc_with_align() rounds the size to the alignment.
Rounded(size, align) == RoundUp(size, align)

\* alloc_with_align().  A call that returns NULL (size zero, no block, not enough nodes)
\* changes nothing.
AllocWithAlign(hp, align, asked) ==
  LET size == Rounded(asked, align)
      fits == Fits(hp, align, size)
  IN  /\ asked # 0
      /\ fits # {}
      /\ \/ AllocPadded(hp, Min(fits), align, size, asked)
         \/ AllocFront(hp, Min(fits), align, size, asked)

\* sbi_malloc_from(), sbi_zalloc_from()
MallocFrom(hp, size) == AllocWithAlign(hp, ALLOC_ALIGN, size)

\* sbi_aligned_alloc_from()
AlignedAllocFrom(hp, alignment, size) ==
  LET align == IF alignment < ALLOC_ALIGN THEN ALLOC_ALIGN ELSE alignment
  IN  /\ IsPowerOfTwo(align)
      /\ size % align = 0
      /\ AllocWithAlign(hp, align, size)
-----------------------------------------------------------------------------
\* The blocks of the free list at which sbi_free_from() stops: a neighbour on either
\* side, or one that lies before the freed block.
Touches(n, np) ==
  \/ EndOf(np) = n.addr
  \/ np.addr = EndOf(n)
  \/ EndOf(n) < np.addr

\* The free list after np is joined to, or inserted behind, entry i.
FreeInto(list, np, i) ==
  LET n == list[i]
  IN  CASE EndOf(np) = n.addr ->
             [list EXCEPT ![i] = [addr |-> np.addr, size |-> n.size + np.size]]
        [] EndOf(np) # n.addr /\ np.addr = EndOf(n) ->
             [list EXCEPT ![i].size = n.size + np.size]
        [] OTHER -> InsertAt(list, i + 1, np)

\* Bug: the node of a block joined from behind is not given back.
AdjacentBefore(n, np) == EndOf(np) = n.addr

\* A joined block needs no node of its own any more.
Adjacent(n, np) == EndOf(np) = n.addr \/ np.addr = EndOf(n)

\* sbi_free_from(): any pointer into a used block frees the block; others are ignored.
\* Only the first free block met on the way is considered for joining.
FreeFrom(hp, ptr) ==
  \E u \in used[hp] :
    LET np    == [addr |-> u.addr, size |-> u.size]
        stops == {i \in DOMAIN free[hp] : Touches(free[hp][i], np)}
    IN  /\ u.addr <= ptr /\ ptr < EndOf(u)
        /\ used' = [used EXCEPT ![hp] = @ \ {u}]
        /\ IF stops = {}
           THEN /\ free' = [free EXCEPT ![hp] = Append(@, np)]
                /\ UNCHANGED free_nodes
           ELSE /\ free' = [free EXCEPT ![hp] = FreeInto(@, np, Min(stops))]
                /\ free_nodes' = [free_nodes EXCEPT ![hp] =
                     IF Adjacent(free[hp][Min(stops)], np) THEN @ + 1 ELSE @]
-----------------------------------------------------------------------------
HeapNext ==
  \E hp \in Heaps :
    \/ \E size \in Sizes : MallocFrom(hp, size)
    \/ \E size \in Sizes, align \in Aligns : AlignedAllocFrom(hp, align, size)
    \/ \E ptr \in Base..(Base + Size - 1) : FreeFrom(hp, ptr)

-----------------------------------------------------------------------------
FreeBlocks(hp) == ToSet(free[hp])

\* sbi_malloc() was asked for so much that rounding it up wrapped to zero
\* (size += align - 1): the caller holds the address of a block of no bytes, which
\* keeps its node for good, since sbi_free() finds no pointer inside it.
WrappedToNothing(u) == u.size = 0 /\ u.asked + ALLOC_ALIGN > SizeMod

\* The free and the used blocks tile the heap: no byte is in two blocks, none is lost,
\* and no block is empty (but for a request that wrapped) or outside the area, whatever
\* splits and joins came before.
Tiled ==
  \A hp \in Heaps :
    /\ \A b \in Base..(Base + Size - 1) :
         Cardinality({i \in DOMAIN free[hp] :
                        free[hp][i].addr <= b /\ b < EndOf(free[hp][i])})
         + Cardinality({u \in used[hp] : u.addr <= b /\ b < EndOf(u)}) = 1
    /\ \A n \in FreeBlocks(hp) \cup used[hp] :
         n.addr >= Base /\ EndOf(n) <= Base + Size
    /\ \A n \in FreeBlocks(hp) : n.size > 0
    /\ \A u \in used[hp] : u.size > 0 \/ WrappedToNothing(u)

\* The housekeeping nodes are never lost or used twice: each describes one block or is
\* spare.
NodesKept ==
  \A hp \in Heaps : free_nodes[hp] + Len(free[hp]) + Cardinality(used[hp]) = Nodes

\* Whoever holds a block got the bytes and the alignment they asked for, unless the
\* request wrapped.
ServedAsAsked ==
  \A hp \in Heaps : \A u \in used[hp] :
    u.addr % u.align = 0 /\ (u.size >= u.asked \/ WrappedToNothing(u))

\* What the allocator promises, after any sequence of allocations and frees: blocks
\* that share no byte and together are the heap, no housekeeping node lost, and to
\* each caller of sbi_malloc() or sbi_aligned_alloc() a block as asked for.  The one
\* exception is a size within HEAP_ALLOC_ALIGN - 1 of the largest size_t.
HeapSound == Tiled /\ NodesKept /\ ServedAsAsked
=============================================================================
