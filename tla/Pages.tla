------------------------------- MODULE Pages -------------------------------
(***************************************************************************)
(* Page allocation: lib32/memory.cpp, and pci_alloc_consistent of          *)
(* lib32/pci.c on top of it.                                               *)
(*                                                                         *)
(* DMA buffers must not cross a 64 KB boundary.  __get_free_dma_pages asks *)
(* OS/2 for a block, once more if it lies badly, and gives up; then        *)
(* __get_free_pages asks for more than it needs and returns an address     *)
(* inside the block.  A list remembers which block an address belongs to.  *)
(*                                                                         *)
(* Addresses and sizes are counted in pages.  Blocks are contiguous in     *)
(* linear and in physical memory, so a block is numbered by its physical   *)
(* pages and the linear offset of an address in it is the physical one.    *)
(***************************************************************************)
EXTENDS Naturals, Sequences, SequencesExt, FiniteSets

CONSTANTS Window,        \* pages in 64 KB: 16
          Ram,           \* the pages OS/2 has to give
          LowLimit,      \* first page above 16 MB
          MaskLimit,     \* first page above what a card's dma_mask reaches
          Orders,        \* orders that are asked for
          VmSizes,       \* pages that are asked for with vmalloc
          MaxBlocks,     \* bound: blocks held at a time
          VmMayFail,     \* OS/2 may refuse a block although there is room
          LookupMayFail, \* virt_to_phys may fail
          RecordMayFail, \* the heap may have no room for a record
          None
ASSUME PagesAssumption ==
  /\ Window \in Nat \ {0} /\ Ram \subseteq Nat \ {0}
  /\ LowLimit \in Nat /\ MaskLimit \in Nat /\ LowLimit <= MaskLimit
  /\ LowLimit % Window = 0 /\ MaskLimit % Window = 0
  /\ Orders \subseteq Nat /\ \A order \in Orders : 2^order \in Nat \ {0}
  /\ VmSizes \subseteq Nat \ {0} /\ MaxBlocks \in Nat
  /\ {VmMayFail, LookupMayFail, RecordMayFail} \subseteq BOOLEAN
  /\ None \notin Nat

VARIABLES vm,       \* blocks OS/2 has given: [base, n]
          list,     \* pBaseAddrHead: [base, retaddr, size], latest first
          blocks,   \* what callers hold: [addr, n, dma, mask], mask being what
                    \* the memory is for: "low" below 16 MB, "mid" within a mask
                    \* above that, "again" the second attempt for such a mask
          job       \* the allocation under way
vars == <<vm, list, blocks, job>>

Gfps == {"plain", "DMAHIGHMEM", "DMA"}
Idle == [at |-> "idle", n |-> 0, gfp |-> "plain", mask |-> "none", addr |-> None]
Init == vm = {} /\ list = <<>> /\ blocks = {} /\ job = Idle

Pages(base, n) == base .. base + n - 1
Held == UNION {Pages(b.base, b.n) : b \in vm}

(* VMAlloc: where OS/2 may put n pages; VMDHA_16M asks for low memory. *)
VMAlloc(n, gfp) ==
  {base \in Ram : /\ Pages(base, n) \subseteq Ram \ Held
                  /\ gfp = "DMA" => base + n <= LowLimit}
VMFree(held, base) == {b \in held : b.base # base}
Refused(n, gfp) == VmMayFail \/ VMAlloc(n, gfp) = {}

(* Mutant: a block that ends at the boundary is as good as any. *)
CrossesLastPage(p, n) ==
  IF n < Window THEN p \div Window # (p + n - 2) \div Window
  ELSE p % Window # 0

(* startpage # endpage.  The last page of a block of 64 KB or more is not   *)
(* looked at, only that it begins on a boundary: physaddr + 63 KB.          *)
Crosses(p, n) ==
  IF n < Window THEN p \div Window # (p + n) \div Window
  ELSE p % Window # 0

AddBaseAddress(base, retaddr, n, ok) ==
  list' = IF ok THEN <<[base |-> base, retaddr |-> retaddr, size |-> n]>> \o list
          ELSE list

(***************************************************************************)
(* __get_free_pages, entered by a caller of its own or by                  *)
(* pci_alloc_consistent, which passes the reach of the card.               *)
(***************************************************************************)
FirstTry(gfp) == IF gfp = "plain" THEN "waste" ELSE "dma_first"

__get_free_pages(order, gfp) ==
  /\ job.at = "idle" /\ Cardinality(blocks) < MaxBlocks
  /\ job' = [at |-> FirstTry(gfp), n |-> 2^order, gfp |-> gfp,
             mask |-> IF gfp = "DMA" THEN "low" ELSE "none", addr |-> None]
  /\ UNCHANGED <<vm, list, blocks>>

(* Low memory is scarce: a card that reaches further is tried high first. *)
pci_alloc_consistent(order, mask) ==
  LET gfp == CASE mask = "full" -> "plain" [] mask = "mid" -> "DMAHIGHMEM"
               [] mask = "low" -> "DMA"
  IN  /\ job.at = "idle" /\ Cardinality(blocks) < MaxBlocks
      /\ job' = [at |-> FirstTry(gfp), n |-> 2^order, gfp |-> gfp, mask |-> mask,
                 addr |-> None]
      /\ UNCHANGED <<vm, list, blocks>>

(* vmalloc, and kmalloc of a page or more. *)
vmalloc(n) ==
  /\ job.at = "idle" /\ Cardinality(blocks) < MaxBlocks
  /\ job' = [Idle EXCEPT !.at = "waste", !.n = n, !.mask = "virtual"]
  /\ UNCHANGED <<vm, list, blocks>>

(* __get_free_pages has got addr (or None) for the caller. *)
Return(addr) ==
  IF job.mask = "mid"
  THEN job' = [job EXCEPT !.at = "check_mask", !.addr = addr] /\ UNCHANGED blocks
  ELSE /\ job' = Idle
       /\ blocks' = IF addr = None THEN blocks
                    ELSE blocks \cup {[addr |-> addr, n |-> job.n,
                                       dma |-> job.gfp # "plain", mask |-> job.mask]}

(* __get_free_dma_pages: the first block. *)
DmaFirst ==
  /\ job.at = "dma_first"
  /\ \/ /\ Refused(job.n, job.gfp)
        /\ job' = [job EXCEPT !.at = "waste"] /\ UNCHANGED <<vm, list, blocks>>
     \/ \E base \in VMAlloc(job.n, job.gfp), found \in {TRUE, ~LookupMayFail},
          ok \in {TRUE, ~RecordMayFail} :
          CASE ~found ->
                 job' = [job EXCEPT !.at = "waste"] /\ UNCHANGED <<vm, list, blocks>>
            [] found /\ Crosses(base, job.n) ->
                 /\ vm' = vm \cup {[base |-> base, n |-> job.n]}
                 /\ job' = [job EXCEPT !.at = "dma_retry", !.addr = base]
                 /\ UNCHANGED <<list, blocks>>
            [] OTHER ->
                 /\ vm' = vm \cup {[base |-> base, n |-> job.n]}
                 /\ AddBaseAddress(base, base, job.n, ok) /\ Return(base)

(* Mutant: the first block is forgotten when the second one is refused. *)
DmaRetryForgets ==
  /\ job.at = "dma_retry"
  /\ \/ /\ Refused(job.n, job.gfp)
        /\ job' = [job EXCEPT !.at = "waste", !.addr = None]
        /\ UNCHANGED <<vm, list, blocks>>
     \/ \E base \in VMAlloc(job.n, job.gfp) :
          /\ ~Crosses(base, job.n)
          /\ vm' = VMFree(vm, job.addr) \cup {[base |-> base, n |-> job.n]}
          /\ AddBaseAddress(base, base, job.n, TRUE) /\ Return(base)

(* ... and the second, asked for before the first is given back.  If its    *)
(* physical address cannot be found it is taken as it is.                   *)
DmaRetry ==
  /\ job.at = "dma_retry"
  /\ \/ /\ Refused(job.n, job.gfp)
        /\ vm' = VMFree(vm, job.addr)
        /\ job' = [job EXCEPT !.at = "waste", !.addr = None]
        /\ UNCHANGED <<list, blocks>>
     \/ \E base \in VMAlloc(job.n, job.gfp), found \in {TRUE, ~LookupMayFail},
          ok \in {TRUE, ~RecordMayFail} :
          IF found /\ Crosses(base, job.n)
          THEN /\ vm' = VMFree(vm, job.addr)
               /\ job' = [job EXCEPT !.at = "waste", !.addr = None]
               /\ UNCHANGED <<list, blocks>>
          ELSE /\ vm' = VMFree(vm, job.addr) \cup {[base |-> base, n |-> job.n]}
               /\ AddBaseAddress(base, base, job.n, ok) /\ Return(base)

AllocSize == CASE job.gfp = "plain" -> job.n
               [] job.gfp # "plain" /\ job.n < Window -> 2 * job.n
               [] OTHER -> job.n + Window

Aligned(base) ==
  IF job.gfp # "plain" /\ Crosses(base, job.n)
  THEN (base \div Window + 1) * Window ELSE base

(* The wasteful way, and the only one for blocks that are not for DMA.  An  *)
(* aligned DMA block that was not moved gets no record.                     *)
Waste ==
  /\ job.at = "waste"
  /\ \/ /\ Refused(AllocSize, job.gfp)
        /\ Return(None) /\ UNCHANGED <<vm, list>>
     \/ \E base \in VMAlloc(AllocSize, job.gfp), found \in {TRUE, ~LookupMayFail},
          ok \in {TRUE, ~RecordMayFail} :
          IF job.gfp # "plain" /\ ~found
          THEN Return(None) /\ UNCHANGED <<vm, list>>
          ELSE /\ vm' = vm \cup {[base |-> base, n |-> AllocSize]}
               /\ IF job.gfp = "plain" \/ Aligned(base) # base
                  THEN AddBaseAddress(base, Aligned(base), AllocSize, ok)
                  ELSE UNCHANGED list
               /\ Return(Aligned(base))

(***************************************************************************)
(* free_pages, with GetBaseAddress.                                        *)
(***************************************************************************)
Records(l, addr) == {i \in DOMAIN l : l[i].retaddr = addr
                                       /\ \A j \in 1 .. i - 1 : l[j].retaddr # addr}

(* Mutant: the base is found and its record left in the list. *)
FreeAtKeepsRecord(held, l, addr) ==
  IF Records(l, addr) = {} THEN [vm |-> VMFree(held, addr), list |-> l]
  ELSE [vm |-> VMFree(held, l[CHOOSE i \in Records(l, addr) : TRUE].base), list |-> l]

(* Freeing addr: what is held and listed afterwards. *)
FreeAt(held, l, addr) ==
  IF Records(l, addr) = {} THEN [vm |-> VMFree(held, addr), list |-> l]
  ELSE LET i == CHOOSE i \in Records(l, addr) : TRUE
       IN  [vm |-> VMFree(held, l[i].base), list |-> RemoveAt(l, i)]

free_pages(b) ==
  /\ job.at = "idle" /\ b \in blocks /\ b.mask # "virtual"
  /\ vm' = FreeAt(vm, list, b.addr).vm /\ list' = FreeAt(vm, list, b.addr).list
  /\ blocks' = blocks \ {b}
  /\ UNCHANGED job

(* vfree and kfree drop the record and free the address itself. *)
vfree(b) ==
  /\ job.at = "idle" /\ b \in blocks /\ b.mask = "virtual"
  /\ vm' = VMFree(vm, b.addr) /\ list' = FreeAt(vm, list, b.addr).list
  /\ blocks' = blocks \ {b}
  /\ UNCHANGED job

(***************************************************************************)
(* The rest of pci_alloc_consistent for a card with a mask above 16 MB:    *)
(* only the beginning of the block is compared with it.  If the first      *)
(* attempt got nothing, gfp is still without GFP_DMA for the second.       *)
(***************************************************************************)
CheckMask ==
  /\ job.at = "check_mask"
  /\ IF job.addr # None /\ job.addr < MaskLimit
     THEN /\ blocks' = blocks \cup {[addr |-> job.addr, n |-> job.n, dma |-> TRUE,
                                     mask |-> "mid"]}
          /\ job' = Idle /\ UNCHANGED <<vm, list>>
     ELSE /\ IF job.addr = None
             THEN /\ job' = [job EXCEPT !.at = "waste", !.gfp = "plain", !.mask = "again"]
                  /\ UNCHANGED <<vm, list>>
             ELSE /\ vm' = FreeAt(vm, list, job.addr).vm
                  /\ list' = FreeAt(vm, list, job.addr).list
                  /\ job' = [job EXCEPT !.at = "dma_first", !.gfp = "DMA",
                                        !.mask = "again", !.addr = None]
          /\ UNCHANGED blocks

Next ==
  \/ \E order \in Orders : \/ \E gfp \in Gfps : __get_free_pages(order, gfp)
                           \/ \E mask \in {"full", "mid", "low"} :
                                pci_alloc_consistent(order, mask)
  \/ DmaFirst \/ DmaRetry \/ Waste \/ CheckMask
  \/ \E n \in VmSizes : vmalloc(n)
  \/ \E b \in blocks : free_pages(b) \/ vfree(b)

Spec == Init /\ [][Next]_vars

(***************************************************************************)
(* Properties.                                                             *)
(***************************************************************************)

(* Every variable has its type. *)
TypeOK ==
  /\ \A b \in vm : b.base \in Ram /\ b.n \in Nat
  /\ \A i \in DOMAIN list : {list[i].base, list[i].retaddr} \subseteq Ram
  /\ \A b \in blocks : b.addr \in Ram /\ b.dma \in BOOLEAN
  /\ job.addr \in Ram \cup {None} /\ job.gfp \in Gfps

(* What a caller was given lies inside one block that OS/2 gave, and no two *)
(* callers share a page, also after a block was moved to a boundary.        *)
BlocksInside ==
  /\ \A b \in blocks : \E a \in vm : Pages(b.addr, b.n) \subseteq Pages(a.base, a.n)
  /\ \A b, c \in blocks : b # c => Pages(b.addr, b.n) \cap Pages(c.addr, c.n) = {}

(* A DMA block of less than 64 KB lies within 64 KB, a larger one begins at *)
(* a 64 KB boundary, whichever of the three attempts got it.                *)
DmaWindow ==
  \A b \in blocks : b.dma =>
    IF b.n < Window THEN b.addr \div Window = (b.addr + b.n - 1) \div Window
    ELSE b.addr % Window = 0

(* Nothing is lost: between calls every block OS/2 gave belongs to a caller *)
(* who can give it back, whatever was refused on the way.                   *)
NothingLost ==
  job.at = "idle" =>
    \A a \in vm : \E b \in blocks : Pages(b.addr, b.n) \subseteq Pages(a.base, a.n)

(* The list has one record at most for an address, and only for addresses  *)
(* that somebody holds: a record that outlives its block would send the     *)
(* free of the next block at that address to the wrong base.                *)
RecordsCurrent ==
  /\ \A i, j \in DOMAIN list : list[i].retaddr = list[j].retaddr => i = j
  /\ job.at = "idle" =>
       \A i \in DOMAIN list : \E b \in blocks : b.addr = list[i].retaddr

(* Blocks, and the records of where they really begin. *)
BlocksConsistent == TypeOK /\ BlocksInside /\ RecordsCurrent

(* Memory for a legacy channel or a card that reaches no further, and what  *)
(* pci_alloc_consistent gets from the low region because the first block    *)
(* lay beyond the card, ends below 16 MB.  For a larger mask only the       *)
(* beginning of the block is compared with it; for blocks of up to 64 KB    *)
(* this is enough, because they do not cross the boundary the mask ends at. *)
Reached ==
  \A b \in blocks :
    /\ b.mask = "low" \/ (b.mask = "again" /\ b.dma) => b.addr + b.n <= LowLimit
    /\ b.mask = "mid" => /\ b.addr < MaskLimit
                         /\ b.n <= Window => b.addr + b.n <= MaskLimit

(* The channel or card a DMA block is for can reach it, with two exceptions *)
(* in which the code promises less (WithinMask, WholeWithinMask): the       *)
(* second attempt of pci_alloc_consistent after a first that got nothing    *)
(* asks for no DMA memory, and a block of more than 64 KB may begin within  *)
(* the card's mask and end beyond it.                                       *)
DmaReaches == DmaWindow /\ Reached

(* pci_alloc_consistent: "if that doesn't satisfy the dma mask requirement, *)
(* then get it from the low region anyway": memory for a card begins where  *)
(* the card can reach it.                                                   *)
WithinMask ==
  \A b \in blocks : /\ b.mask = "low" => b.addr < LowLimit
                    /\ b.mask \in {"mid", "again"} => b.addr < MaskLimit

(* ... and it ends there too. *)
WholeWithinMask == \A b \in blocks : b.mask = "mid" => b.addr + b.n <= MaskLimit
=============================================================================
