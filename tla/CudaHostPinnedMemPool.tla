----------------------- MODULE CudaHostPinnedMemPool -----------------------
(***************************************************************************)
(* The pool of pinned host memory (Common/Cuda/CudaHostPinnedMemPool), the *)
(* first-fit allocator behind every Allocator of the server.               *)
(*                                                                         *)
(* alloc and free hold the pool's mutex and are one step each.  realloc is *)
(* not: it allocates, copies and frees, and other threads get in between.  *)
(*                                                                         *)
(* Addresses and sizes are in granules of 16 bytes, counted from the start *)
(* of the pool: alloc rounds sizes and alignments up to 16, and the two    *)
(* headers take 16 bytes each.  The free list is the sequence of its       *)
(* nodes; the header of a live block is kept under its data address.       *)
(***************************************************************************)
EXTENDS Integers, Sequences, SequencesExt, FiniteSetsExt

CONSTANTS
    Thread,
    m_totalSize,      \* in granules
    Requests,         \* [size, alignment] in bytes, as callers pass them
    MaxLive           \* no more blocks are allocated at a time

ASSUME PoolConstants ==
    /\ m_totalSize \in Nat \ {0}
    /\ Requests \subseteq [size : Nat, alignment : Nat]
    /\ MaxLive \in Nat

VARIABLES
    freeList,         \* m_freeList: [addr, blockSize]
    headers,          \* data address -> [from, blockSize, padding]
    m_used,
    old_buf           \* thread -> the block its realloc still has to free

vars == <<freeList, headers, m_used, old_buf>>

Granule    == 16
HeaderSize == 1
NoBuf      == -1
Live       == DOMAIN headers

\* The size and the alignment that alloc works with.
BlockSize(size)  == (Max({size, Granule}) \div Granule) + 1
Alignment(align) == Max({align, Granule}) \div Granule

CalculatePadding(base, align) == ((base \div align) + 1) * align - base

CalculatePaddingWithHeader(base, align) ==
    LET padding == CalculatePadding(base, align)
        missing == HeaderSize - padding
    IN IF missing <= 0 THEN padding
       ELSE padding + align * ((missing + align - 1) \div align)

\* AllocationHeader::padding is a char: a signed byte, whatever is stored.
AsChar(granules) ==
    LET byte == (granules * Granule) % 256
    IN (IF byte >= 128 THEN byte - 256 ELSE byte) \div Granule

\* Defective variant: the room for the header is forgotten.
Fits_NoPadding(node, size, align) == node.blockSize >= size

Fits(node, size, align) ==
    node.blockSize >= size + CalculatePaddingWithHeader(node.addr, align)

\* find: the first node that is large enough, or 0.
find(size, align) ==
    LET fitting == {n \in DOMAIN freeList : Fits(freeList[n], size, align)}
    IN IF fitting = {} THEN 0 ELSE Min(fitting)
-----------------------------------------------------------------------------
Init ==
    /\ freeList = <<[addr |-> 0, blockSize |-> m_totalSize]>>
    /\ headers = [d \in {} |-> 0]
    /\ m_used = 0
    /\ old_buf = [t \in Thread |-> NoBuf]

\* What a block adds to m_used, and its AllocationHeader::blockSize.
Charge(size, padding) == size + padding

\* A node larger than the block is split.
Splits(rest) == rest > 0

\* Node n gives a block of size granules; what is left of it stays in the list.
Allocate(n, size, align) ==
    LET node     == freeList[n]
        padding  == CalculatePaddingWithHeader(node.addr, align)
        required == size + padding
        rest     == node.blockSize - required
        free     == [addr |-> node.addr + required, blockSize |-> rest]
    IN /\ freeList' = IF Splits(rest) THEN [freeList EXCEPT ![n] = free] ELSE RemoveAt(freeList, n)
       /\ headers' = (node.addr + padding :> [from      |-> node.addr,
                                              blockSize |-> required,
                                              padding   |-> AsChar(padding - HeaderSize)]) @@ headers
       /\ m_used' = m_used + Charge(size, padding)

\* alloc, when some node is large enough; else it throws and changes nothing.
alloc(r) ==
    LET size  == BlockSize(r.size)
        align == Alignment(r.alignment)
        n     == find(size, align)
    IN /\ Cardinality(Live) < MaxLive
       /\ n # 0
       /\ Allocate(n, size, align)
-----------------------------------------------------------------------------
Touches(a, b) == a.addr + a.blockSize = b.addr

\* Defective variant: the size of the node that is joined is not added.
Joined_KeepsSize(a, b) == a

Joined(a, b) == [a EXCEPT !.blockSize = @ + b.blockSize]

\* Defective variant: neighbours above are not merged.
MergeNext_Never(list, n) == list

\* coalescence, first half: node n with its successor.
MergeNext(list, n) ==
    IF n < Len(list) /\ Touches(list[n], list[n + 1])
      THEN RemoveAt([list EXCEPT ![n] = Joined(@, list[n + 1])], n + 1)
      ELSE list

\* coalescence, second half: the freed node with node n before it.  After
\* remove the list goes on with what followed the freed node.
MergePrevious(list, n, node) ==
    IF n > 0 /\ Touches(list[n], node)
      THEN [m \in 1..(IF n < Len(list) THEN Len(list) - 1 ELSE n) |->
               CASE m < n -> list[m]
                 [] m = n -> Joined(list[n], node)
                 [] m > n -> list[m + 1]]
      ELSE list

\* free's new list: the freed node goes in front of the first node above it.
\* Without such a node it is not inserted, and only coalescence can save it.
Released(d) ==
    LET node  == [addr |-> d - HeaderSize, blockSize |-> headers[d].blockSize + headers[d].padding]
        above == {n \in DOMAIN freeList : d < freeList[n].addr}
    IN IF above = {}
         THEN MergePrevious(freeList, Len(freeList), node)
         ELSE LET n    == Min(above)
                  list == MergeNext(InsertAt(freeList, n, node), n)
              IN MergePrevious(list, n - 1, list[n])

Release(d) ==
    /\ freeList' = Released(d)
    /\ m_used' = m_used - (headers[d].blockSize + headers[d].padding)
    /\ headers' = [e \in Live \ {d} |-> headers[e]]

\* A thread calls for blocks it owns; a block in a realloc is not freed twice.
free(d) ==
    /\ d \notin {old_buf[t] : t \in Thread}
    /\ Release(d)

\* realloc, before and after the lock is free in between: the new block exists
\* and the old one still does.
reallocAlloc(t, d, r) ==
    /\ old_buf[t] = NoBuf
    /\ d \notin {old_buf[u] : u \in Thread}
    /\ alloc(r)
    /\ old_buf' = [old_buf EXCEPT ![t] = d]

reallocFree(t) ==
    /\ old_buf[t] # NoBuf
    /\ Release(old_buf[t])
    /\ old_buf' = [old_buf EXCEPT ![t] = NoBuf]

Next ==
    \/ \E r \in Requests : alloc(r) /\ UNCHANGED old_buf
    \/ \E d \in Live : free(d) /\ UNCHANGED old_buf
    \/ \E t \in Thread, d \in Live, r \in Requests : reallocAlloc(t, d, r)
    \/ \E t \in Thread : reallocFree(t)

Spec == Init /\ [][Next]_vars
-----------------------------------------------------------------------------
(***************************************************************************)
(* Properties.                                                             *)
(***************************************************************************)
\* The free list, the headers and the counter have their types: m_used never
\* wraps around below zero or exceeds the pool.
TypeOK ==
    /\ freeList \in Seq([addr : 0..m_totalSize, blockSize : 1..m_totalSize])
    /\ \A d \in Live : headers[d] \in [from : Nat, blockSize : Nat \ {0}, padding : -8..7]
    /\ m_used \in 0..m_totalSize
    /\ old_buf \in [Thread -> Live \cup {NoBuf}]

FreeExtents == {freeList[n].addr .. (freeList[n].addr + freeList[n].blockSize - 1) : n \in DOMAIN freeList}
LiveExtents == {headers[d].from .. (headers[d].from + headers[d].blockSize - 1) : d \in Live}
Granules    == 0..(m_totalSize - 1)

\* A block that find hands out is free: no granule belongs to two live blocks,
\* to two nodes of the free list or to a node and a live block.
NoOverlap ==
    /\ Cardinality(FreeExtents) = Len(freeList)
    /\ \A x, y \in FreeExtents \cup LiveExtents : x # y => x \cap y = {}
    /\ UNION (FreeExtents \cup LiveExtents) \subseteq Granules

\* The list is sorted by address and contiguous nodes are always merged, so
\* that first fit sees every hole at its full size.
FreeListCoalesced ==
    TypeOK /\ \A n \in 1..(Len(freeList) - 1) :
        freeList[n].addr + freeList[n].blockSize < freeList[n + 1].addr

\* All granules are accounted for, whatever reallocs are under way: m_used is what the live
\* blocks take, and a granule that is neither in one nor in the free list, because free found
\* no free node above its block, lies above all free nodes: first fit loses no hole below.
OnlyTheTopIsLost ==
    /\ m_used = MapThenSumSet(LAMBDA d : headers[d].blockSize, Live)
    /\ \A g \in Granules \ UNION (FreeExtents \cup LiveExtents) :
          \A n \in DOMAIN freeList : freeList[n].addr < g
=============================================================================
