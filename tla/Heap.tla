-------------------------------- MODULE Heap --------------------------------
(***************************************************************************)
(* The heap behind kmalloc and kfree: lib32/malloc.cpp.                    *)
(*                                                                         *)
(* One region of HeapSize bytes is cut into blocks, each a header and a    *)
(* payload.  Free blocks hang on the list pmbFree, most recently freed     *)
(* first; malloc takes the first that is large enough and splits it; free  *)
(* puts the block at the head of the list, and compact joins it with its   *)
(* neighbours.  Every call runs with interrupts off.  A block is named by  *)
(* the offset of its header from acHeap.                                   *)
(***************************************************************************)
EXTENDS Integers, Sequences, SequencesExt

CONSTANTS HeapSize,      \* HEAP_SIZE
          HdrSize,       \* HDR_SIZE
          Requests,      \* bound: the sizes asked for
          VmMayFail,     \* VMAlloc may refuse the region
          Word           \* 2^32, the range of an unsigned

ASSUME HeapAssumption ==
  /\ HeapSize \in Nat /\ HdrSize \in Nat \ {0} /\ Word \in Nat
  /\ HeapSize % 4 = 0 /\ HdrSize % 4 = 0
  /\ HdrSize + 4 <= HeapSize /\ HeapSize < Word
  /\ Requests \subseteq Nat /\ VmMayFail \in BOOLEAN

MIN_FragSize == 4
MIN_Leftover == HdrSize + MIN_FragSize

VARIABLES acHeap,    \* the region has been allocated
          heap,      \* the two lists, the sizes in the headers, uMemFree
          want,      \* what the owner of each block asked for (0: free)
          pmb,       \* compact: where it is in the free list (0: not running)
          iFreed,    \* compact: joins made
          wild       \* a NULL list head has been dereferenced

vars == <<acHeap, heap, want, pmb, iFreed, wild>>

Offsets == {4 * k : k \in 0 .. (HeapSize \div 4) - 1}
Heaps == [pmbFree : Seq(Offsets), pmbUsed : SUBSET Offsets,
          uSize : [Offsets -> 0 .. HeapSize], uMemFree : 0 .. Word - 1]

NoSizes == [b \in Offsets |-> 0]
NoHeap == [pmbFree |-> <<>>, pmbUsed |-> {}, uSize |-> NoSizes, uMemFree |-> 0]

Init ==
  /\ acHeap = FALSE /\ heap = NoHeap /\ want = NoSizes
  /\ pmb = 0 /\ iFreed = 0 /\ wild = FALSE

HeapInit ==
  [pmbFree |-> <<0>>, pmbUsed |-> {},
   uSize |-> [NoSizes EXCEPT ![0] = HeapSize - HdrSize],
   uMemFree |-> HeapSize - HdrSize]

after(h, b) == b + h.uSize[b] + HdrSize

(* Mutant: it is rounded down. *)
AlignedDown(n) == IF n < 4 THEN 4 ELSE (n \div 4) * 4

Align(n) == ((n + 3) \div 4) * 4

(***************************************************************************)
(* make_new_free and npvAllocateBlock: take the i-th free block for a      *)
(* request; what is left over goes back in its place if it is worth it.    *)
(***************************************************************************)
Leftover(h, b, request) == request + MIN_Leftover <= h.uSize[b]

(* Mutant: the new block's header is not taken off its size. *)
SplitWithoutHeader(h, b, request) ==
  [h.uSize EXCEPT ![b] = request,
                  ![b + HdrSize + request] = h.uSize[b] - request]

make_new_free(h, b, request) ==
  [h.uSize EXCEPT ![b] = request,
                  ![b + HdrSize + request] = h.uSize[b] - (request + HdrSize)]

npvAllocateBlock(h, i, request) ==
  LET b     == h.pmbFree[i]
      split == Leftover(h, b, request)
      size  == IF split THEN make_new_free(h, b, request) ELSE h.uSize
  IN  [pmbFree  |-> IF split
                    THEN [h.pmbFree EXCEPT ![i] = b + HdrSize + request]
                    ELSE RemoveAt(h.pmbFree, i),
       pmbUsed  |-> h.pmbUsed \cup {b},
       uSize    |-> size,
       uMemFree |-> (h.uMemFree - (size[b] + HdrSize)) % Word]

FirstFit(h, request) ==
  {i \in DOMAIN h.pmbFree :
     /\ h.uSize[h.pmbFree[i]] >= request
     /\ \A j \in 1 .. i - 1 : h.uSize[h.pmbFree[j]] < request}

(***************************************************************************)
(* malloc.  The first call allocates the region (vm: VMAlloc succeeds).    *)
(* It looks at the head of the free list before asking whether there is    *)
(* one: with an empty list it reads through a NULL pointer.                *)
(***************************************************************************)
Idle == pmb = 0 /\ ~wild

Region(vm) == IF ~acHeap /\ vm THEN HeapInit ELSE heap

malloc(n, vm) ==
  /\ Idle
  /\ acHeap' = (acHeap \/ vm)
  /\ LET h   == Region(vm)
         fit == FirstFit(h, Align(n))
     IN  CASE n = 0 \/ n > HeapSize ->
                heap' = h /\ UNCHANGED <<want, wild>>
           [] n \in 1 .. HeapSize /\ h.pmbFree = <<>> ->
                heap' = h /\ wild' = TRUE /\ UNCHANGED want
           [] OTHER ->
                /\ IF fit = {}
                   THEN heap' = h /\ want' = want
                   ELSE \E i \in fit :
                          /\ heap' = npvAllocateBlock(h, i, Align(n))
                          /\ want' = [want EXCEPT ![h.pmbFree[i]] = n]
                /\ UNCHANGED wild
  /\ UNCHANGED <<pmb, iFreed>>

(***************************************************************************)
(* free, and compact step by step: pmb runs down the list behind its head, *)
(* until the end or the second join.                                       *)
(***************************************************************************)
(* Mutant: the header of a freed block is not counted. *)
ReleasePayload(h, b) ==
  [h EXCEPT !.pmbFree = <<b>> \o @, !.pmbUsed = @ \ {b},
            !.uMemFree = (@ + h.uSize[b]) % Word]

(* Mutant: the freed block stays in the list of used ones. *)
ReleaseKept(h, b) ==
  [h EXCEPT !.pmbFree = <<b>> \o @,
            !.uMemFree = (@ + h.uSize[b] + HdrSize) % Word]

Release(h, b) ==
  [h EXCEPT !.pmbFree = <<b>> \o @, !.pmbUsed = @ \ {b},
            !.uMemFree = (@ + h.uSize[b] + HdrSize) % Word]

Compact(h, i, joins) ==
  /\ heap' = h
  /\ iFreed' = joins
  /\ pmb' = IF i > Len(h.pmbFree) \/ joins = 2 THEN 0 ELSE i

free(b) ==
  /\ Idle /\ b \in heap.pmbUsed
  /\ Compact(Release(heap, b), 2, 0)
  /\ want' = [want EXCEPT ![b] = 0]
  /\ UNCHANGED <<acHeap, wild>>

(* Block b takes in the block behind it, whose header is no longer one. *)
Join(h, b, behind) ==
  [h.uSize EXCEPT ![b] = @ + HdrSize + h.uSize[behind], ![behind] = 0]

compact ==
  /\ pmb > 0
  /\ LET head == heap.pmbFree[1]
         cur  == heap.pmbFree[pmb]
     IN  CASE after(heap, cur) = head ->
                Compact([heap EXCEPT !.uSize = Join(heap, cur, head),
                                     !.pmbFree = Tail(@)], pmb, iFreed + 1)
           [] after(heap, cur) # head /\ after(heap, head) = cur ->
                Compact([heap EXCEPT !.uSize = Join(heap, head, cur),
                                     !.pmbFree = RemoveAt(@, pmb)],
                        pmb, iFreed + 1)
           [] OTHER -> Compact(heap, pmb + 1, iFreed)
  /\ UNCHANGED <<acHeap, want, wild>>

(* realloc of a block: a new one is taken before the old one is released. *)
realloc(b, n) ==
  /\ Idle /\ b \in heap.pmbUsed
  /\ n \in 1 .. HeapSize
  /\ IF heap.pmbFree = <<>>
     THEN wild' = TRUE /\ UNCHANGED <<heap, want, pmb, iFreed>>
     ELSE /\ \E i \in FirstFit(heap, Align(n)) :
               /\ Compact(Release(npvAllocateBlock(heap, i, Align(n)), b), 2, 0)
               /\ want' = [want EXCEPT ![b] = 0, ![heap.pmbFree[i]] = n]
          /\ UNCHANGED wild
  /\ UNCHANGED acHeap

Next ==
  \/ \E n \in Requests, vm \in {TRUE, ~VmMayFail} : malloc(n, vm)
  \/ \E b \in Offsets : free(b) \/ \E n \in Requests : realloc(b, n)
  \/ compact

Spec == Init /\ [][Next]_vars

(***************************************************************************)
(* Properties.                                                             *)
(***************************************************************************)

(* Every variable has the type its declaration gives it. *)
TypeOK ==
  /\ acHeap \in BOOLEAN /\ wild \in BOOLEAN
  /\ heap \in Heaps
  /\ want \in [Offsets -> 0 .. HeapSize]
  /\ pmb \in Nat /\ iFreed \in 0 .. 2

(***************************************************************************)
(* What HeapCheck looks for: the blocks of the two lists make up the whole *)
(* region, none overlaps another, none is lost and none is on both lists   *)
(* or twice on one, in the middle of compact too.                          *)
(***************************************************************************)
FreeBlocks == {heap.pmbFree[i] : i \in DOMAIN heap.pmbFree}
Blocks == FreeBlocks \cup heap.pmbUsed
Tiling ==
  /\ IsInjective(heap.pmbFree) /\ FreeBlocks \cap heap.pmbUsed = {}
  /\ acHeap => 0 \in Blocks
  /\ \A b \in Blocks :
       /\ after(heap, b) \in Blocks \cup {HeapSize}
       /\ \A c \in Blocks : b < c => after(heap, b) <= c

(* malloc.cpp: "Everything should remain 4 byte aligned", and no hole is    *)
(* smaller than MIN_FragSize, whatever sizes are asked for and joined.      *)
Aligned == \A b \in Blocks : heap.uSize[b] % 4 = 0
                             /\ heap.uSize[b] >= MIN_FragSize

(* A block given out is as large as its owner asked for as long as it is    *)
(* owned: the splits and joins around it leave it alone.                    *)
LargeEnough == \A b \in heap.pmbUsed : want[b] > 0 /\ heap.uSize[b] >= want[b]

(* The blocks are of the right kind, and serve those who own them. *)
WellFormed == TypeOK /\ Aligned /\ LargeEnough

(* What the blocks of the list l take up, with their headers. *)
FreeBytes(l, size) ==
  LET upTo[i \in 0 .. Len(l)] ==
        IF i = 0 THEN 0 ELSE upTo[i - 1] + size[l[i]] + HdrSize
  IN  upTo[Len(l)]

(* uMemFree accounts for every byte of the free blocks, their headers       *)
(* included, less the one header HeapInit took off.                         *)
MemFreeExact ==
  acHeap => heap.uMemFree = (FreeBytes(heap.pmbFree, heap.uSize) - HdrSize) % Word

(* No call moves or resizes a block that belongs to somebody else.          *)
OwnedBlocksKept ==
  [][\A b \in heap.pmbUsed \cap heap'.pmbUsed :
       heap'.uSize[b] = heap.uSize[b] /\ want'[b] = want[b]]_vars

(***************************************************************************)
(* Statements of the repository that the code does not meet.               *)
(***************************************************************************)

(* compact: "it can be guaranteed that the free list is always compacted    *)
(* (i.e. you won't find two adjacent free blocks anywhere in the heap)".    *)
AlwaysCompacted ==
  pmb = 0 => \A b \in FreeBlocks : after(heap, b) \notin FreeBlocks

(* malloc: a request that finds no room ends at "Out of Memory !!!".        *)
OutOfMemoryHandled == ~wild
=============================================================================
