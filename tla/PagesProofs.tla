---------------------------- MODULE PagesProofs ----------------------------
(***************************************************************************)
(* For any memory, any window and any limits: what callers hold lies apart *)
(* and inside blocks of OS/2, and the list of base addresses has a current *)
(* record for every moved block; when physical addresses can be looked up, *)
(* DMA blocks keep to their windows and masks; when records can be stored, *)
(* every block of OS/2 has a caller who can give it back.                  *)
(*                                                                         *)
(* An allocation under way holds a block no caller has yet.  The invariant *)
(* counts it among the holders (Holders), and says for the blocks of OS/2, *)
(* the list and the holders together what the properties say of each: one  *)
(* holder per block, a record's base is the block its address lies in, and *)
(* freeing a holder's address finds its block.                             *)
(***************************************************************************)
EXTENDS Pages, SequenceTheorems, TLAPS

(* The block an allocation has got and not yet returned. *)
Extra == IF job.at \in {"dma_retry", "check_mask"} /\ job.addr # None
         THEN {[addr |-> job.addr, n |-> job.n, dma |-> job.at = "check_mask",
                mask |-> job.at]}
         ELSE {}
Holders == blocks \cup Extra

Masks == {"none", "full", "mid", "low", "virtual", "again"}
BlockType == [base : Ram, n : Nat \ {0}]
RecordType == [base : Ram, retaddr : Ram, size : Nat]
HolderType == [addr : Ram, n : Nat \ {0}, dma : BOOLEAN,
               mask : Masks \cup {"dma_retry", "check_mask"}]
JobType == [at : {"idle", "waste", "dma_first", "dma_retry", "check_mask"}, n : Nat,
            gfp : Gfps, mask : Masks, addr : Ram \cup {None}]

(* The blocks V of OS/2 lie apart; every holder of A has one to itself. *)
Apart(V) == \A a, b \in V : a # b => Pages(a.base, a.n) \cap Pages(b.base, b.n) = {}
Inside(V, A) ==
  /\ \A b \in A : \E a \in V : Pages(b.addr, b.n) \subseteq Pages(a.base, a.n)
  /\ \A b, c \in A, a \in V :
       b.addr \in Pages(a.base, a.n) /\ c.addr \in Pages(a.base, a.n) => b = c

(* Every record of the list L leads from a holder's address to its block. *)
Listed(V, L, A) ==
  /\ \A i, j \in DOMAIN L : L[i].retaddr = L[j].retaddr => i = j
  /\ \A i \in DOMAIN L :
       /\ \E a \in V : a.base = L[i].base /\ L[i].retaddr \in Pages(a.base, a.n)
       /\ \E b \in A : b.addr = L[i].retaddr
       /\ \A b \in A : b.mask = "dma_retry" => b.addr # L[i].retaddr

(* Freeing address x finds the block x lies in. *)
IsBase(V, x) == \E a \in V : a.base = x
Found(V, L, x) == IsBase(V, x) \/ \E i \in DOMAIN L : L[i].retaddr = x
Freeable(V, L, A) ==
  /\ \A b \in A : b.mask \in {"virtual", "dma_retry"} => IsBase(V, b.addr)
  /\ ~RecordMayFail => /\ \A b \in A : Found(V, L, b.addr)
                       /\ \A a \in V : \E b \in A : b.addr \in Pages(a.base, a.n)

(* Where a holder's block may lie. *)
InWindow(x, n) == IF n < Window THEN x \div Window = (x + n - 1) \div Window
                  ELSE x % Window = 0
WellPlaced(b) == /\ ~LookupMayFail /\ b.dma => InWindow(b.addr, b.n)
                 /\ b.mask = "low" => b.addr + b.n <= LowLimit
                 /\ b.mask = "again" /\ b.dma => b.addr + b.n <= LowLimit
                 /\ b.mask = "mid" => b.addr < MaskLimit /\ b.dma

Good(V, L, A) ==
  /\ V \subseteq BlockType /\ L \in Seq(RecordType) /\ A \subseteq HolderType
  /\ \A a \in V : Pages(a.base, a.n) \subseteq Ram
  /\ Apart(V) /\ Inside(V, A) /\ Listed(V, L, A) /\ Freeable(V, L, A)
  /\ \A b \in A : WellPlaced(b)

JobOK ==
  /\ job \in JobType
  /\ job.at # "idle" => job.n # 0
  /\ job.at \in {"dma_first", "dma_retry"} => job.gfp # "plain"
  /\ job.at = "dma_retry" => job.addr # None
  /\ job.at = "check_mask" => job.mask = "mid"
  /\ job.mask = "mid" => job.gfp = "DMAHIGHMEM"
  /\ job.mask = "low" => job.gfp = "DMA"
  /\ job.mask = "virtual" => job.gfp = "plain"
  /\ job.mask = "again" => job.gfp \in {"DMA", "plain"}

IInv == /\ Good(vm, list, Holders) /\ JobOK
        /\ \A b \in blocks : b.mask \in Masks

(***************************************************************************)
(* Windows.                                                                *)
(***************************************************************************)

(* Page p lies in the window that begins at Window * (p \div Window). *)
LEMMA DivFacts ==
  ASSUME NEW p \in Nat
  PROVE  /\ p \div Window \in Nat /\ p % Window \in 0 .. Window - 1
         /\ p = Window * (p \div Window) + (p % Window)
  BY PagesAssumption

(* The window a page is in is the only one whose bounds enclose it. *)
LEMMA DivUnique ==
  ASSUME NEW p \in Nat, NEW k \in Nat, Window * k <= p, p < Window * k + Window
  PROVE  p \div Window = k /\ p % Window = p - Window * k
  <1>1. PICK W \in Nat : W = Window /\ W > 0
    BY PagesAssumption
  <1>2. PICK q \in Nat, r \in 0 .. W - 1 : /\ q = p \div Window /\ r = p % Window
                                           /\ p = W * q + r
    BY <1>1, DivFacts
  <1>3. W * k <= p /\ p < W * k + W /\ W * k \in Nat /\ W * q \in Nat
    BY <1>1
  <1>4. CASE q < k
    <2>1. W * q + W <= W * k
      BY <1>1, <1>4
    <2> QED BY <1>2, <1>3, <2>1
  <1>5. CASE q > k
    <2>1. W * k + W <= W * q
      BY <1>1, <1>5
    <2> QED BY <1>2, <1>3, <2>1
  <1>6. CASE q = k
    BY <1>1, <1>2, <1>3, <1>6
  <1> QED BY <1>4, <1>5, <1>6

(* A later page is in the same window or in a later one. *)
LEMMA DivMonotone ==
  ASSUME NEW p \in Nat, NEW q \in Nat, p <= q
  PROVE  p \div Window <= q \div Window
  <1>1. PICK W \in Nat : W = Window /\ W > 0
    BY PagesAssumption
  <1>2. PICK i \in Nat, r \in 0 .. W - 1 : i = p \div Window /\ p = W * i + r
    BY <1>1, DivFacts
  <1>3. PICK j \in Nat, s \in 0 .. W - 1 : j = q \div Window /\ q = W * j + s
    BY <1>1, DivFacts
  <1>4. ASSUME j < i PROVE FALSE
    <2>1. W * j + W <= W * i /\ W * i \in Nat /\ W * j \in Nat
      BY <1>1, <1>4
    <2> QED BY <1>2, <1>3, <2>1
  <1> QED BY <1>2, <1>3, <1>4

(* A block that Crosses does not object to lies within its window. *)
LEMMA UncrossedInWindow ==
  ASSUME NEW p \in Nat, NEW n \in Nat \ {0}, ~Crosses(p, n)
  PROVE  InWindow(p, n)
  <1>1. CASE n < Window
    <2>1. p \div Window = (p + n) \div Window
      BY <1>1 DEF Crosses
    <2>2. /\ p \div Window <= (p + n - 1) \div Window
          /\ (p + n - 1) \div Window <= (p + n) \div Window
      <3>1. /\ p + n - 1 \in Nat /\ p + n \in Nat /\ p <= p + n - 1
            /\ p + n - 1 <= p + n
        OBVIOUS
      <3> QED BY <3>1, DivMonotone
    <2>3. /\ p \div Window \in Nat /\ (p + n - 1) \div Window \in Nat
          /\ (p + n) \div Window \in Nat
      BY DivFacts
    <2> QED BY <1>1, <2>1, <2>2, <2>3 DEF InWindow
  <1>2. CASE ~(n < Window)
    BY <1>2 DEF Crosses, InWindow
  <1> QED BY <1>1, <1>2

(* The wasteful way: a block moved to the next boundary lies within its     *)
(* window and within what was asked for.                                    *)
LEMMA MovedInWindow ==
  ASSUME NEW p \in Nat, NEW n \in Nat \ {0}, Crosses(p, n),
         NEW x, x = (p \div Window + 1) * Window,
         NEW N \in Nat, N = IF n < Window THEN 2 * n ELSE n + Window
  PROVE  /\ x \in Nat /\ x >= p /\ x + n <= p + N /\ InWindow(x, n)
  <1>1. PICK W \in Nat : W = Window /\ W > 0
    BY PagesAssumption
  <1>2. PICK k \in Nat, r \in 0 .. W - 1 : k = p \div Window /\ p = W * k + r
    BY <1>1, DivFacts
  <1>3. x = W * k + W /\ W * k \in Nat /\ x = W * (k + 1)
    BY <1>1, <1>2
  <1>4. x \in Nat /\ x > p /\ x <= p + W
    BY <1>2, <1>3
  <1>5. CASE n < Window
    <2>1. p + n >= x
      <3>1. p \div Window # (p + n) \div Window
        BY <1>5 DEF Crosses
      <3>2. ASSUME p + n < x PROVE FALSE
        <4>1. p + n \in Nat /\ Window * k <= p + n /\ p + n < Window * k + Window
          BY <1>1, <1>2, <1>3, <3>2
        <4> QED BY <1>2, <3>1, <4>1, DivUnique
      <3> QED BY <1>4, <3>2
    <2>2. x + n <= p + N
      BY <1>4, <1>5, <2>1
    <2>3. x \div Window = k + 1
      <3>1. k + 1 \in Nat /\ Window * (k + 1) <= x /\ x < Window * (k + 1) + Window
        BY <1>1, <1>3, <1>4
      <3> QED BY <1>4, <3>1, DivUnique
    <2>4. (x + n - 1) \div Window = k + 1
      <3>1. /\ k + 1 \in Nat /\ x + n - 1 \in Nat /\ Window * (k + 1) <= x + n - 1
            /\ x + n - 1 < Window * (k + 1) + Window
        BY <1>1, <1>3, <1>4, <1>5
      <3> QED BY <3>1, DivUnique
    <2> QED BY <1>4, <1>5, <2>2, <2>3, <2>4 DEF InWindow
  <1>6. CASE ~(n < Window)
    <2>1. x + n <= p + N
      BY <1>1, <1>4, <1>6
    <2>2. x % Window = 0
      <3>1. k + 1 \in Nat /\ Window * (k + 1) <= x /\ x < Window * (k + 1) + Window
        BY <1>1, <1>3, <1>4
      <3>2. x % Window = x - Window * (k + 1)
        BY <1>4, <3>1, DivUnique
      <3> QED BY <1>1, <1>3, <3>2
    <2> QED BY <1>4, <1>6, <2>1, <2>2 DEF InWindow
  <1> QED BY <1>5, <1>6

(* A block in its window that begins below the mask ends below it. *)
LEMMA BelowMask ==
  ASSUME NEW x \in Nat, NEW n \in Nat \ {0}, n <= Window, InWindow(x, n), x < MaskLimit
  PROVE  x + n <= MaskLimit
  <1>1. PICK W \in Nat : W = Window /\ W > 0
    BY PagesAssumption
  <1>2. PICK m \in Nat : MaskLimit = W * m
    <2>1. MaskLimit \in Nat /\ MaskLimit % Window = 0
      BY PagesAssumption
    <2> QED BY <1>1, <2>1, DivFacts
  <1>3. PICK k \in Nat, r \in 0 .. W - 1 :
          k = x \div Window /\ r = x % Window /\ x = W * k + r
    BY <1>1, DivFacts
  <1>4. W * k + W <= W * m /\ W * k \in Nat /\ W * m \in Nat
    <2>1. k < m
      <3>1. ASSUME m <= k PROVE FALSE
        <4>1. W * m <= W * k /\ W * k \in Nat
          BY <1>1, <3>1
        <4> QED BY <1>2, <1>3, <4>1
      <3> QED BY <3>1
    <2> QED BY <1>1, <2>1
  <1>5. CASE n < Window
    <2>1. k = (x + n - 1) \div Window /\ x + n - 1 \in Nat
      BY <1>3, <1>5 DEF InWindow
    <2>2. PICK s \in 0 .. W - 1 : x + n - 1 = W * k + s
      BY <1>1, <2>1, DivFacts
    <2> QED BY <1>1, <1>2, <1>4, <2>2
  <1>6. CASE n = Window
    <2>1. r = 0
      BY <1>3, <1>6 DEF InWindow
    <2> QED BY <1>1, <1>2, <1>3, <1>4, <1>6, <2>1
  <1>7. n < Window \/ n = Window
    BY PagesAssumption
  <1> QED BY <1>5, <1>6, <1>7

(***************************************************************************)
(* The blocks of OS/2 and the list of base addresses.                      *)
(***************************************************************************)

(* A block of at least one page has its first page among its pages. *)
LEMMA FirstPage ==
  ASSUME NEW x \in Nat, NEW n \in Nat \ {0}
  PROVE  x \in Pages(x, n)
  BY DEF Pages

(* The pages of Ram are numbers. *)
LEMMA RamNat == Ram \subseteq Nat /\ None \notin Ram
  BY PagesAssumption

(* A page belongs to one block of OS/2 at most. *)
LEMMA OneBlock ==
  ASSUME NEW V, Apart(V), NEW a \in V, NEW b \in V, NEW x,
         x \in Pages(a.base, a.n), x \in Pages(b.base, b.n)
  PROVE  a = b
  BY DEF Apart

(* A holder's address lies in a block of OS/2. *)
LEMMA HolderIn ==
  ASSUME NEW V, NEW L, NEW A, Good(V, L, A), NEW b \in A
  PROVE  /\ b.addr \in Pages(b.addr, b.n)
         /\ \E a \in V : Pages(b.addr, b.n) \subseteq Pages(a.base, a.n)
                         /\ b.addr \in Pages(a.base, a.n)
  <1>1. b.addr \in Nat /\ b.n \in Nat \ {0}
    BY RamNat DEF Good, HolderType
  <1>2. b.addr \in Pages(b.addr, b.n)
    BY <1>1, FirstPage
  <1>3. \E a \in V : Pages(b.addr, b.n) \subseteq Pages(a.base, a.n)
    BY DEF Good, Inside
  <1> QED BY <1>2, <1>3

(* With one record per address, GetBaseAddress finds the record there is. *)
LEMMA TheRecord ==
  ASSUME NEW L \in Seq(RecordType), NEW x,
         \A i, j \in DOMAIN L : L[i].retaddr = L[j].retaddr => i = j
  PROVE  /\ \A i \in DOMAIN L : L[i].retaddr = x => Records(L, x) = {i}
         /\ Records(L, x) = {} => \A i \in DOMAIN L : L[i].retaddr # x
  <1>1. DOMAIN L = 1 .. Len(L) /\ Len(L) \in Nat
    OBVIOUS
  <1>2. ASSUME NEW i \in DOMAIN L, L[i].retaddr = x
        PROVE  Records(L, x) = {i}
    <2>1. i \in Records(L, x)
      BY <1>1, <1>2 DEF Records
    <2>2. \A j \in Records(L, x) : j = i
      BY <1>2 DEF Records
    <2> QED BY <2>1, <2>2
  <1> QED BY <1>2

(* RemoveAt drops one record and keeps the others. *)
LEMMA RemoveAtFacts ==
  ASSUME NEW L \in Seq(RecordType), NEW i \in DOMAIN L,
         \A j, k \in DOMAIN L : L[j].retaddr = L[k].retaddr => j = k
  PROVE  /\ RemoveAt(L, i) \in Seq(RecordType)
         /\ \A j, k \in DOMAIN RemoveAt(L, i) :
              RemoveAt(L, i)[j].retaddr = RemoveAt(L, i)[k].retaddr => j = k
         /\ \A j \in DOMAIN RemoveAt(L, i) :
              \E k \in DOMAIN L : k # i /\ RemoveAt(L, i)[j] = L[k]
         /\ \A k \in DOMAIN L : k # i =>
              \E j \in DOMAIN RemoveAt(L, i) : RemoveAt(L, i)[j] = L[k]
  <1> DEFINE R == RemoveAt(L, i)
             s(j) == IF j < i THEN j ELSE j + 1
  <1>1. DOMAIN L = 1 .. Len(L) /\ Len(L) \in Nat /\ i \in 1 .. Len(L)
    OBVIOUS
  <1>2. R = SubSeq(L, 1, i - 1) \o SubSeq(L, i + 1, Len(L))
    BY DEF RemoveAt
  <1>3. /\ SubSeq(L, 1, i - 1) \in Seq(RecordType)
        /\ SubSeq(L, i + 1, Len(L)) \in Seq(RecordType)
        /\ Len(SubSeq(L, 1, i - 1)) = i - 1
        /\ Len(SubSeq(L, i + 1, Len(L))) = Len(L) - i
    BY <1>1
  <1>4. R \in Seq(RecordType) /\ DOMAIN R = 1 .. Len(L) - 1
    BY <1>1, <1>2, <1>3
  <1>5. \A j \in DOMAIN R : s(j) \in DOMAIN L /\ s(j) # i /\ R[j] = L[s(j)]
    <2>1. TAKE j \in DOMAIN R
    <2>2. j \in 1 .. Len(L) - 1
      BY <1>4
    <2>3. CASE j < i
      <3>1. R[j] = SubSeq(L, 1, i - 1)[j]
        BY <1>1, <1>2, <1>3, <2>2, <2>3
      <3>2. SubSeq(L, 1, i - 1)[j] = L[j]
        BY <1>1, <2>2, <2>3
      <3> QED BY <1>1, <2>2, <2>3, <3>1, <3>2
    <2>4. CASE j >= i
      <3>1. R[j] = SubSeq(L, i + 1, Len(L))[j - (i - 1)]
        BY <1>1, <1>2, <1>3, <2>2, <2>4
      <3>2. SubSeq(L, i + 1, Len(L))[j - (i - 1)] = L[j + 1]
        BY <1>1, <2>2, <2>4
      <3> QED BY <1>1, <2>2, <2>4, <3>1, <3>2
    <2> QED BY <1>1, <2>2, <2>3, <2>4
  <1>6. \A k \in DOMAIN L : k # i => \E j \in DOMAIN R : s(j) = k
    <2>1. TAKE k \in DOMAIN L
    <2>2. HAVE k # i
    <2>3. CASE k < i
      BY <1>1, <1>4, <2>3
    <2>4. CASE k > i
      <3>1. k - 1 \in DOMAIN R /\ s(k - 1) = k
        BY <1>1, <1>4, <2>4
      <3> QED BY <3>1
    <2> QED BY <1>1, <2>2, <2>3, <2>4
  <1>7. ASSUME NEW j \in DOMAIN R, NEW k \in DOMAIN R, s(j) = s(k) PROVE j = k
    BY <1>4, <1>7
  <1> HIDE DEF R, s
  <1>8. \A j, k \in DOMAIN R : R[j].retaddr = R[k].retaddr => j = k
    BY <1>5, <1>7
  <1>9. \A k \in DOMAIN L : k # i => \E j \in DOMAIN R : R[j] = L[k]
    BY <1>5, <1>6
  <1> QED BY <1>4, <1>5, <1>8, <1>9 DEF R

(* What the blocks V2 and the list L2 are when address x has been given    *)
(* back: only the block of x may be gone, and is if it could be found; the *)
(* record of x is gone and the others are there.                           *)
GivenBack(V, L, x, V2, L2) ==
  /\ V2 \subseteq V
  /\ \A a \in V : a \notin V2 => x \in Pages(a.base, a.n)
  /\ Found(V, L, x) => \A a \in V2 : x \notin Pages(a.base, a.n)
  /\ L2 \in Seq(RecordType)
  /\ \A i, j \in DOMAIN L2 : L2[i].retaddr = L2[j].retaddr => i = j
  /\ \A i \in DOMAIN L2 : \E j \in DOMAIN L : L2[i] = L[j] /\ L[j].retaddr # x
  /\ \A j \in DOMAIN L : L[j].retaddr # x => \E i \in DOMAIN L2 : L2[i] = L[j]

(* free_pages gives back the address it is called with. *)
LEMMA FreeAtGivesBack ==
  ASSUME NEW V, NEW L, NEW A, Good(V, L, A), NEW x
  PROVE  GivenBack(V, L, x, FreeAt(V, L, x).vm, FreeAt(V, L, x).list)
  <1>1. /\ L \in Seq(RecordType) /\ V \subseteq BlockType /\ Apart(V)
        /\ \A i, j \in DOMAIN L : L[i].retaddr = L[j].retaddr => i = j
        /\ \A i \in DOMAIN L :
             \E a \in V : a.base = L[i].base /\ L[i].retaddr \in Pages(a.base, a.n)
    BY DEF Good, Listed
  <1>2. \A a \in V : a.base \in Pages(a.base, a.n)
    BY <1>1, RamNat, FirstPage DEF BlockType
  <1>3. CASE Records(L, x) = {}
    <2>1. FreeAt(V, L, x).vm = VMFree(V, x) /\ FreeAt(V, L, x).list = L
      BY <1>3 DEF FreeAt
    <2>2. \A i \in DOMAIN L : L[i].retaddr # x
      BY <1>1, <1>3, TheRecord
    <2>3. /\ VMFree(V, x) \subseteq V
          /\ \A a \in V : a \notin VMFree(V, x) => x \in Pages(a.base, a.n)
      BY <1>2 DEF VMFree
    <2>4. Found(V, L, x) => \A a \in VMFree(V, x) : x \notin Pages(a.base, a.n)
      <3>1. SUFFICES ASSUME IsBase(V, x), NEW a \in VMFree(V, x),
                            x \in Pages(a.base, a.n)
                     PROVE  FALSE
        BY <2>2 DEF Found
      <3>2. PICK b \in V : b.base = x
        BY <3>1 DEF IsBase
      <3>3. a \in V /\ a.base # x
        BY DEF VMFree
      <3>4. a = b
        BY <1>1, <1>2, <3>1, <3>2, <3>3, OneBlock
      <3> QED BY <3>2, <3>3, <3>4
    <2> QED BY <1>1, <2>1, <2>2, <2>3, <2>4 DEF GivenBack
  <1>4. ASSUME NEW i \in DOMAIN L, L[i].retaddr = x, Records(L, x) = {i}
        PROVE  GivenBack(V, L, x, FreeAt(V, L, x).vm, FreeAt(V, L, x).list)
    <2>1. FreeAt(V, L, x).vm = VMFree(V, L[i].base)
          /\ FreeAt(V, L, x).list = RemoveAt(L, i)
      <3>1. (CHOOSE j \in Records(L, x) : TRUE) = i /\ Records(L, x) # {}
        BY <1>4
      <3> QED BY <3>1 DEF FreeAt
    <2>2. PICK b \in V : b.base = L[i].base /\ x \in Pages(b.base, b.n)
      BY <1>1, <1>4
    <2>3. \A a \in V : a.base = L[i].base => a = b
      BY <1>1, <1>2, <2>2, OneBlock
    <2>4. /\ VMFree(V, L[i].base) \subseteq V
          /\ \A a \in V : a \notin VMFree(V, L[i].base) => x \in Pages(a.base, a.n)
      BY <2>2, <2>3 DEF VMFree
    <2>5. \A a \in VMFree(V, L[i].base) : x \notin Pages(a.base, a.n)
      <3>1. TAKE a \in VMFree(V, L[i].base)
      <3>2. a \in V /\ a.base # b.base
        BY <2>2 DEF VMFree
      <3> QED BY <1>1, <2>2, <3>2, OneBlock
    <2>6. /\ RemoveAt(L, i) \in Seq(RecordType)
          /\ \A j, k \in DOMAIN RemoveAt(L, i) :
               RemoveAt(L, i)[j].retaddr = RemoveAt(L, i)[k].retaddr => j = k
          /\ \A j \in DOMAIN RemoveAt(L, i) :
               \E k \in DOMAIN L : k # i /\ RemoveAt(L, i)[j] = L[k]
          /\ \A k \in DOMAIN L : k # i =>
               \E j \in DOMAIN RemoveAt(L, i) : RemoveAt(L, i)[j] = L[k]
      BY <1>1, RemoveAtFacts
    <2>7. \A j \in DOMAIN L : j # i <=> L[j].retaddr # x
      BY <1>1, <1>4
    <2>8. /\ \A j \in DOMAIN RemoveAt(L, i) :
               \E k \in DOMAIN L : RemoveAt(L, i)[j] = L[k] /\ L[k].retaddr # x
          /\ \A k \in DOMAIN L : L[k].retaddr # x =>
               \E j \in DOMAIN RemoveAt(L, i) : RemoveAt(L, i)[j] = L[k]
      BY <2>6, <2>7
    <2> QED BY <2>1, <2>4, <2>5, <2>6, <2>8 DEF GivenBack
  <1>5. ASSUME Records(L, x) # {}
        PROVE  \E i \in DOMAIN L : L[i].retaddr = x /\ Records(L, x) = {i}
    <2>1. PICK i \in DOMAIN L : L[i].retaddr = x
      BY <1>5 DEF Records
    <2> QED BY <1>1, <2>1, TheRecord
  <1> QED BY <1>3, <1>4, <1>5

(* Freeing the address itself is the same when it is where a block begins. *)
LEMMA FreeAtBase ==
  ASSUME NEW V, NEW L, NEW A, Good(V, L, A), NEW x, IsBase(V, x)
  PROVE  FreeAt(V, L, x).vm = VMFree(V, x)
  <1>1. /\ L \in Seq(RecordType) /\ V \subseteq BlockType /\ Apart(V)
        /\ \A i, j \in DOMAIN L : L[i].retaddr = L[j].retaddr => i = j
        /\ \A i \in DOMAIN L :
             \E a \in V : a.base = L[i].base /\ L[i].retaddr \in Pages(a.base, a.n)
    BY DEF Good, Listed
  <1>2. CASE Records(L, x) = {}
    BY <1>2 DEF FreeAt
  <1>3. CASE Records(L, x) # {}
    <2>1. PICK i \in DOMAIN L : L[i].retaddr = x
      BY <1>3 DEF Records
    <2>2. Records(L, x) = {i}
      BY <1>1, <2>1, TheRecord
    <2>3. FreeAt(V, L, x).vm = VMFree(V, L[i].base)
      <3>1. (CHOOSE j \in Records(L, x) : TRUE) = i
        BY <2>2
      <3> QED BY <1>3, <3>1 DEF FreeAt
    <2>4. PICK a \in V : a.base = L[i].base /\ x \in Pages(a.base, a.n)
      BY <1>1, <2>1
    <2>5. PICK b \in V : b.base = x
      BY DEF IsBase
    <2>6. x \in Pages(b.base, b.n)
      BY <1>1, <2>5, RamNat, FirstPage DEF BlockType
    <2>7. a = b
      BY <1>1, <2>4, <2>6, OneBlock
    <2> QED BY <2>3, <2>4, <2>5, <2>7
  <1> QED BY <1>2, <1>3

(* The invariant is kept when a holder's address is given back. *)
LEMMA Removed ==
  ASSUME NEW V, NEW L, NEW A, Good(V, L, A), NEW b \in A, NEW V2, NEW L2,
         GivenBack(V, L, b.addr, V2, L2)
  PROVE  Good(V2, L2, A \ {b})
  <1>1. /\ V \subseteq BlockType /\ A \subseteq HolderType /\ Apart(V)
        /\ \A a \in V : Pages(a.base, a.n) \subseteq Ram
        /\ \A c \in A : WellPlaced(c)
        /\ Inside(V, A) /\ Listed(V, L, A) /\ Freeable(V, L, A)
    BY DEF Good
  <1>2. /\ V2 \subseteq V /\ L2 \in Seq(RecordType)
        /\ \A a \in V : a \notin V2 => b.addr \in Pages(a.base, a.n)
        /\ \A i, j \in DOMAIN L2 : L2[i].retaddr = L2[j].retaddr => i = j
        /\ \A i \in DOMAIN L2 : \E j \in DOMAIN L : L2[i] = L[j] /\ L[j].retaddr # b.addr
        /\ \A j \in DOMAIN L : L[j].retaddr # b.addr => \E i \in DOMAIN L2 : L2[i] = L[j]
    BY DEF GivenBack
  <1>3. \A c \in A, a \in V : c.addr \in Pages(a.base, a.n) /\ c # b => a \in V2
    BY <1>1, <1>2 DEF Inside
  <1>4. \A c \in A : c.addr = b.addr => c = b
    <2>1. PICK a \in V : b.addr \in Pages(a.base, a.n)
      BY HolderIn
    <2> QED BY <1>1, <2>1 DEF Inside
  <1>5. Apart(V2) /\ V2 \subseteq BlockType
        /\ \A a \in V2 : Pages(a.base, a.n) \subseteq Ram
    BY <1>1, <1>2 DEF Apart
  <1>6. Inside(V2, A \ {b})
    <2>1. ASSUME NEW c \in A \ {b}
          PROVE  \E a \in V2 : Pages(c.addr, c.n) \subseteq Pages(a.base, a.n)
      <3>1. PICK a \in V : /\ Pages(c.addr, c.n) \subseteq Pages(a.base, a.n)
                           /\ c.addr \in Pages(a.base, a.n)
        BY HolderIn
      <3> QED BY <1>3, <3>1
    <2>2. \A c, d \in A \ {b}, a \in V2 :
            c.addr \in Pages(a.base, a.n) /\ d.addr \in Pages(a.base, a.n) => c = d
      BY <1>1, <1>2 DEF Inside
    <2> QED BY <2>1, <2>2 DEF Inside
  <1>7. Listed(V2, L2, A \ {b})
    <2>1. ASSUME NEW i \in DOMAIN L2
          PROVE  /\ \E a \in V2 : a.base = L2[i].base /\ L2[i].retaddr \in Pages(a.base, a.n)
                 /\ \E c \in A \ {b} : c.addr = L2[i].retaddr
                 /\ \A c \in A \ {b} : c.mask = "dma_retry" => c.addr # L2[i].retaddr
      <3>1. PICK j \in DOMAIN L : L2[i] = L[j] /\ L[j].retaddr # b.addr
        BY <1>2
      <3>2. PICK a \in V : a.base = L[j].base /\ L[j].retaddr \in Pages(a.base, a.n)
        BY <1>1 DEF Listed
      <3>3. PICK c \in A : c.addr = L[j].retaddr
        BY <1>1 DEF Listed
      <3>4. \A d \in A : d.mask = "dma_retry" => d.addr # L[j].retaddr
        BY <1>1 DEF Listed
      <3>5. c # b /\ a \in V2
        BY <1>3, <3>1, <3>2, <3>3
      <3> QED BY <3>1, <3>2, <3>3, <3>4, <3>5
    <2> QED BY <1>2, <2>1 DEF Listed
  <1>8. \A c \in A \ {b} : IsBase(V, c.addr) => IsBase(V2, c.addr)
    <2>1. TAKE c \in A \ {b}
    <2>2. HAVE IsBase(V, c.addr)
    <2>3. PICK a \in V : a.base = c.addr
      BY <2>2 DEF IsBase
    <2>4. c.addr \in Pages(a.base, a.n)
      BY <1>1, <2>3, RamNat, FirstPage DEF BlockType
    <2> QED BY <1>3, <2>3, <2>4 DEF IsBase
  <1>9. Freeable(V2, L2, A \ {b})
    <2>1. \A c \in A \ {b} : c.mask \in {"virtual", "dma_retry"} => IsBase(V2, c.addr)
      BY <1>1, <1>8 DEF Freeable
    <2>2. ASSUME ~RecordMayFail, NEW c \in A \ {b}
          PROVE  Found(V2, L2, c.addr)
      <3>1. Found(V, L, c.addr)
        BY <1>1, <2>2 DEF Freeable
      <3>2. CASE IsBase(V, c.addr)
        BY <1>8, <3>2 DEF Found
      <3>3. CASE \E j \in DOMAIN L : L[j].retaddr = c.addr
        <4>1. c.addr # b.addr
          BY <1>4
        <4> QED BY <1>2, <3>3, <4>1 DEF Found
      <3> QED BY <3>1, <3>2, <3>3 DEF Found
    <2>3. ASSUME ~RecordMayFail, NEW a \in V2
          PROVE  \E c \in A \ {b} : c.addr \in Pages(a.base, a.n)
      <3>1. PICK c \in A : c.addr \in Pages(a.base, a.n)
        BY <1>1, <1>2, <2>3 DEF Freeable
      <3>2. Found(V, L, b.addr)
        BY <1>1, <2>3 DEF Freeable
      <3>3. b.addr \notin Pages(a.base, a.n)
        BY <3>2 DEF GivenBack
      <3> QED BY <3>1, <3>3
    <2> QED BY <2>1, <2>2, <2>3 DEF Freeable
  <1>10. A \ {b} \subseteq HolderType /\ \A c \in A \ {b} : WellPlaced(c)
    BY <1>1
  <1> QED BY <1>2, <1>5, <1>6, <1>7, <1>9, <1>10 DEF Good

(* ... and so it is when FreeAt does that. *)
LEMMA Freed ==
  ASSUME NEW V, NEW L, NEW A, Good(V, L, A), NEW b \in A
  PROVE  Good(FreeAt(V, L, b.addr).vm, FreeAt(V, L, b.addr).list, A \ {b})
  BY FreeAtGivesBack, Removed

(* A new record goes in front of the others. *)
LEMMA Prepended ==
  ASSUME NEW L \in Seq(RecordType), NEW r \in RecordType
  PROVE  /\ <<r>> \o L \in Seq(RecordType)
         /\ \A i \in DOMAIN (<<r>> \o L) :
              \/ i = 1 /\ (<<r>> \o L)[i] = r
              \/ i # 1 /\ i - 1 \in DOMAIN L /\ (<<r>> \o L)[i] = L[i - 1]
         /\ \A i \in DOMAIN L :
              i + 1 \in DOMAIN (<<r>> \o L) /\ (<<r>> \o L)[i + 1] = L[i]
         /\ 1 \in DOMAIN (<<r>> \o L) /\ (<<r>> \o L)[1] = r
  <1>1. <<r>> \in Seq(RecordType) /\ Len(<<r>>) = 1 /\ <<r>>[1] = r
    OBVIOUS
  <1>2. DOMAIN L = 1 .. Len(L) /\ Len(L) \in Nat
    OBVIOUS
  <1>3. /\ <<r>> \o L \in Seq(RecordType) /\ Len(<<r>> \o L) = Len(L) + 1
        /\ DOMAIN (<<r>> \o L) = 1 .. Len(L) + 1
    BY <1>1, <1>2
  <1>4. (<<r>> \o L)[1] = r
    BY <1>1, <1>2
  <1>5. \A i \in 1 .. Len(L) : (<<r>> \o L)[i + 1] = L[i]
    BY <1>1, <1>2
  <1> HIDE DEF RecordType
  <1>6. ASSUME NEW i \in 2 .. Len(L) + 1
        PROVE  i - 1 \in DOMAIN L /\ (<<r>> \o L)[i] = L[i - 1]
    <2>1. i - 1 \in 1 .. Len(L) /\ (i - 1) + 1 = i
      BY <1>2
    <2> QED BY <1>2, <1>5, <2>1
  <1> QED BY <1>2, <1>3, <1>4, <1>5, <1>6

(* The invariant is kept when OS/2 gives a block [base, n] and somebody     *)
(* holds t in it, with a record of where t is or without one.               *)
LEMMA Added ==
  ASSUME NEW V, NEW L, NEW A, Good(V, L, A), NEW a0 \in BlockType, NEW t \in HolderType,
         NEW L2, NEW size \in Nat,
         \/ L2 = L
         \/ L2 = <<[base |-> a0.base, retaddr |-> t.addr, size |-> size]>> \o L,
         Pages(a0.base, a0.n) \subseteq Ram,
         \A a \in V : Pages(a0.base, a0.n) \cap Pages(a.base, a.n) = {},
         Pages(t.addr, t.n) \subseteq Pages(a0.base, a0.n),
         WellPlaced(t),
         t.mask = "dma_retry" => L2 = L,
         t.mask \in {"virtual", "dma_retry"} => t.addr = a0.base,
         ~RecordMayFail => t.addr = a0.base \/ L2 # L
  PROVE  Good(V \cup {a0}, L2, A \cup {t})
  <1> DEFINE V2 == V \cup {a0}
             A2 == A \cup {t}
             r == [base |-> a0.base, retaddr |-> t.addr, size |-> size]
  <1>1. /\ V \subseteq BlockType /\ A \subseteq HolderType /\ Apart(V)
        /\ \A a \in V : Pages(a.base, a.n) \subseteq Ram
        /\ \A c \in A : WellPlaced(c)
        /\ L \in Seq(RecordType) /\ Inside(V, A) /\ Listed(V, L, A) /\ Freeable(V, L, A)
    BY DEF Good
  <1>2. t.addr \in Pages(a0.base, a0.n) /\ t.addr \in Ram /\ r \in RecordType
    <2>1. t.addr \in Ram /\ t.n \in Nat \ {0} /\ a0.base \in Ram
      BY DEF HolderType, BlockType
    <2>2. t.addr \in Pages(t.addr, t.n)
      BY <2>1, RamNat, FirstPage
    <2> QED BY <2>1, <2>2 DEF RecordType
  <1>3. \A a \in V : t.addr \notin Pages(a.base, a.n)
    BY <1>2
  <1>4. \A c \in A : c.addr \notin Pages(a0.base, a0.n) /\ c.addr # t.addr
    <2>1. TAKE c \in A
    <2>2. PICK a \in V : c.addr \in Pages(a.base, a.n)
      BY HolderIn
    <2> QED BY <1>3, <2>2
  <1>5. /\ V2 \subseteq BlockType /\ A2 \subseteq HolderType /\ Apart(V2)
        /\ \A a \in V2 : Pages(a.base, a.n) \subseteq Ram
        /\ \A c \in A2 : WellPlaced(c)
    BY <1>1 DEF Apart
  <1>6. Inside(V2, A2)
    <2>1. \A c \in A2 : \E a \in V2 : Pages(c.addr, c.n) \subseteq Pages(a.base, a.n)
      BY <1>1 DEF Inside
    <2>2. \A c, d \in A2, a \in V2 :
            c.addr \in Pages(a.base, a.n) /\ d.addr \in Pages(a.base, a.n) => c = d
      BY <1>1, <1>3, <1>4 DEF Inside
    <2> QED BY <2>1, <2>2 DEF Inside
  <1>7. \A i \in DOMAIN L : L[i].retaddr # t.addr
    BY <1>1, <1>4 DEF Listed
  <1>8. /\ L2 \in Seq(RecordType)
        /\ \A i, j \in DOMAIN L2 : L2[i].retaddr = L2[j].retaddr => i = j
        /\ \A i \in DOMAIN L2 : (L2[i] = r /\ L2 # L) \/ \E j \in DOMAIN L : L2[i] = L[j]
        /\ \A j \in DOMAIN L : \E i \in DOMAIN L2 : L2[i] = L[j]
        /\ L2 # L => \E i \in DOMAIN L2 : L2[i] = r
    <2>1. CASE L2 = L
      <3>1. /\ L \in Seq(RecordType)
            /\ \A i, j \in DOMAIN L : L[i].retaddr = L[j].retaddr => i = j
        BY <1>1 DEF Listed
      <3> HIDE DEF r
      <3> QED BY <2>1, <3>1, Zenon
    <2>2. CASE L2 # L
      <3>0. L2 = <<r>> \o L
        BY <2>2
      <3> HIDE DEF r
      <3>1. /\ L2 \in Seq(RecordType)
            /\ \A i \in DOMAIN L2 : \/ i = 1 /\ L2[i] = r
                                    \/ i # 1 /\ i - 1 \in DOMAIN L /\ L2[i] = L[i - 1]
            /\ \A i \in DOMAIN L : i + 1 \in DOMAIN L2 /\ L2[i + 1] = L[i]
            /\ 1 \in DOMAIN L2 /\ L2[1] = r
        BY <1>1, <1>2, <3>0, Prepended
      <3>2. r.retaddr = t.addr
        BY DEF r
      <3>3. ASSUME NEW i \in DOMAIN L2, NEW j \in DOMAIN L2,
                   L2[i].retaddr = L2[j].retaddr
            PROVE  i = j
        <4>1. CASE i = 1
          BY <1>7, <3>1, <3>2, <3>3, <4>1
        <4>2. CASE j = 1
          BY <1>7, <3>1, <3>2, <3>3, <4>2
        <4>3. CASE i # 1 /\ j # 1
          <5>1. /\ i - 1 \in DOMAIN L /\ j - 1 \in DOMAIN L
                /\ L[i - 1].retaddr = L[j - 1].retaddr
            BY <3>1, <3>3, <4>3
          <5>2. i - 1 = j - 1
            BY <1>1, <5>1 DEF Listed
          <5>3. i \in Nat /\ j \in Nat
            <6>1. DOMAIN L2 = 1 .. Len(L2)
              BY <3>1
            <6>2. i \in 1 .. Len(L2) /\ j \in 1 .. Len(L2)
              BY <6>1, Zenon
            <6> QED BY <6>2
          <5> QED BY <5>2, <5>3
        <4> QED BY <4>1, <4>2, <4>3
      <3>4. \A i \in DOMAIN L2 : L2[i] = r \/ \E j \in DOMAIN L : L2[i] = L[j]
        BY <3>1
      <3>5. /\ \A j \in DOMAIN L : \E i \in DOMAIN L2 : L2[i] = L[j]
            /\ \E i \in DOMAIN L2 : L2[i] = r
        BY <3>1
      <3> QED BY <2>2, <3>1, <3>3, <3>4, <3>5
    <2> QED BY <2>1, <2>2
  <1>9. Listed(V2, L2, A2)
    <2>1. ASSUME NEW i \in DOMAIN L2
          PROVE  /\ \E a \in V2 : a.base = L2[i].base /\ L2[i].retaddr \in Pages(a.base, a.n)
                 /\ \E c \in A2 : c.addr = L2[i].retaddr
                 /\ \A c \in A2 : c.mask = "dma_retry" => c.addr # L2[i].retaddr
      <3>1. CASE L2[i] = r /\ L2 # L
        <4>1. L2[i].base = a0.base /\ L2[i].retaddr = t.addr
          BY <3>1
        <4> QED BY <1>2, <1>4, <3>1, <4>1
      <3>2. ASSUME NEW j \in DOMAIN L, L2[i] = L[j]
            PROVE  /\ \E a \in V : a.base = L2[i].base /\ L2[i].retaddr \in Pages(a.base, a.n)
                   /\ \E c \in A : c.addr = L2[i].retaddr
                   /\ \A c \in A : c.mask = "dma_retry" => c.addr # L2[i].retaddr
                   /\ t.addr # L2[i].retaddr
        BY <1>1, <1>7, <3>2 DEF Listed
      <3> QED BY <1>8, <3>1, <3>2
    <2> QED BY <1>8, <2>1 DEF Listed
  <1>10. Freeable(V2, L2, A2)
    <2>1. \A x : IsBase(V, x) => IsBase(V2, x)
      BY DEF IsBase
    <2>2. IsBase(V2, a0.base)
      BY DEF IsBase
    <2>3. \A c \in A2 : c.mask \in {"virtual", "dma_retry"} => IsBase(V2, c.addr)
      BY <1>1, <2>1, <2>2 DEF Freeable
    <2>4. ASSUME ~RecordMayFail, NEW c \in A2 PROVE Found(V2, L2, c.addr)
      <3>1. CASE c = t
        <4>1. r.retaddr = t.addr
          OBVIOUS
        <4>2. t.addr = a0.base \/ \E i \in DOMAIN L2 : L2[i] = r
          BY <1>8, <2>4
        <4> HIDE DEF r
        <4> QED BY <2>2, <3>1, <4>1, <4>2 DEF Found
      <3>2. CASE c \in A
        <4>1. Found(V, L, c.addr)
          BY <1>1, <2>4, <3>2 DEF Freeable
        <4>2. CASE IsBase(V, c.addr)
          BY <2>1, <4>2 DEF Found
        <4>3. ASSUME NEW j \in DOMAIN L, L[j].retaddr = c.addr
              PROVE  Found(V2, L2, c.addr)
          <5>1. PICK i \in DOMAIN L2 : L2[i] = L[j]
            BY <1>8
          <5> QED BY <4>3, <5>1 DEF Found
        <4> QED BY <4>1, <4>2, <4>3 DEF Found
      <3> QED BY <3>1, <3>2
    <2>5. ASSUME ~RecordMayFail
          PROVE  \A a \in V2 : \E c \in A2 : c.addr \in Pages(a.base, a.n)
      BY <1>1, <1>2, <2>5 DEF Freeable
    <2> QED BY <2>3, <2>4, <2>5 DEF Freeable
  <1> QED BY <1>5, <1>6, <1>8, <1>9, <1>10 DEF Good

(* ... and when a holder passes its block on as u. *)
LEMMA PassedOn ==
  ASSUME NEW V, NEW L, NEW A, Good(V, L, A), NEW t \in A, NEW u \in HolderType,
         u.addr = t.addr, u.n = t.n, u.mask \notin {"virtual", "dma_retry"}, WellPlaced(u)
  PROVE  Good(V, L, (A \ {t}) \cup {u})
  <1> DEFINE A2 == (A \ {t}) \cup {u}
  <1>1. /\ A2 \subseteq HolderType /\ \A c \in A2 : WellPlaced(c)
    BY DEF Good
  <1>2. \A c \in A2 : \/ c \in A /\ c # t
                      \/ c = u
    OBVIOUS
  <1>3. Inside(V, A2)
    <2>1. \A c \in A2 : \E a \in V : Pages(c.addr, c.n) \subseteq Pages(a.base, a.n)
      BY DEF Good, Inside
    <2>2. \A c, d \in A2, a \in V :
            c.addr \in Pages(a.base, a.n) /\ d.addr \in Pages(a.base, a.n) => c = d
      BY <1>2 DEF Good, Inside
    <2> QED BY <2>1, <2>2 DEF Inside
  <1>4. \A x : (\E c \in A : c.addr = x) => \E c \in A2 : c.addr = x
    OBVIOUS
  <1>5. Listed(V, L, A2)
    <2>1. Listed(V, L, A)
      BY DEF Good
    <2> QED BY <1>2, <1>4, <2>1 DEF Listed
  <1>6. Freeable(V, L, A2)
    <2>1. Freeable(V, L, A)
      BY DEF Good
    <2>2. \A c \in A2 : \E d \in A : d.addr = c.addr
      OBVIOUS
    <2>3. \A c \in A2 : c.mask \in {"virtual", "dma_retry"} => c \in A
      BY <1>2
    <2>4. ~RecordMayFail => \A a \in V : \E c \in A2 : c.addr \in Pages(a.base, a.n)
      BY <1>4, <2>1 DEF Freeable
    <2> HIDE DEF A2
    <2> QED BY <2>1, <2>2, <2>3, <2>4 DEF Freeable
  <1> HIDE DEF A2
  <1>7. Good(V, L, A2)
    BY <1>1, <1>3, <1>5, <1>6 DEF Good
  <1> QED BY <1>7 DEF A2

(***************************************************************************)
(* What an allocation gets and returns.                                    *)
(***************************************************************************)

(* What becomes of address x when it is returned: a block of the caller, or *)
(* one that pci_alloc_consistent has yet to compare with the mask.          *)
Given(x) ==
  IF job.mask = "mid"
  THEN [addr |-> x, n |-> job.n, dma |-> TRUE, mask |-> "check_mask"]
  ELSE [addr |-> x, n |-> job.n, dma |-> job.gfp # "plain", mask |-> job.mask]

(* A block OS/2 may give lies in Ram, apart from the blocks it has given. *)
LEMMA VMAllocFacts ==
  ASSUME NEW n \in Nat \ {0}, NEW gfp, NEW base \in VMAlloc(n, gfp)
  PROVE  /\ base \in Ram /\ base \in Nat /\ [base |-> base, n |-> n] \in BlockType
         /\ Pages(base, n) \subseteq Ram
         /\ \A a \in vm : Pages(base, n) \cap Pages(a.base, a.n) = {}
         /\ gfp = "DMA" => base + n <= LowLimit
  <1>1. /\ base \in Ram /\ Pages(base, n) \subseteq Ram \ Held
        /\ gfp = "DMA" => base + n <= LowLimit
    BY DEF VMAlloc
  <1>2. \A a \in vm : Pages(a.base, a.n) \subseteq Held
    BY DEF Held
  <1> QED BY <1>1, <1>2, RamNat DEF BlockType

(* An allocation that holds no block adds nothing to the holders. *)
LEMMA NoExtra ==
  ASSUME job.at \in {"idle", "dma_first", "waste"}
  PROVE  Holders = blocks
  BY DEF Holders, Extra

(* What Given returns is a holder like the allocation that got it. *)
LEMMA GivenType ==
  ASSUME JobOK, job.at # "idle", NEW x \in Ram
  PROVE  /\ Given(x) \in HolderType /\ Given(x).addr = x /\ Given(x).n = job.n
         /\ Given(x).mask \notin {"dma_retry"}
         /\ Given(x).mask = "virtual" => job.mask = "virtual"
         /\ Given(x).mask = "low" => job.mask = "low"
         /\ Given(x).mask = "again" => job.mask = "again"
         /\ Given(x).mask # "mid"
         /\ Given(x).dma => job.gfp # "plain"
  <1>1. job.n \in Nat \ {0} /\ job.mask \in Masks /\ job.gfp \in Gfps
    BY DEF JobOK, JobType
  <1>2. CASE job.mask = "mid"
    <2>1. Given(x) = [addr |-> x, n |-> job.n, dma |-> TRUE, mask |-> "check_mask"]
      BY <1>2 DEF Given
    <2>2. job.gfp # "plain"
      BY <1>2 DEF JobOK
    <2> QED BY <1>1, <2>1, <2>2 DEF HolderType
  <1>3. CASE job.mask # "mid"
    <2>1. PICK d \in BOOLEAN : d = (job.gfp # "plain")
      BY Zenon
    <2>2. Given(x) = [addr |-> x, n |-> job.n, dma |-> d, mask |-> job.mask]
      BY <1>3, <2>1 DEF Given
    <2>3. Given(x) \in HolderType
      BY <1>1, <2>2 DEF HolderType
    <2>4. Given(x).dma => job.gfp # "plain"
      <3>1. Given(x).dma = d
        BY <2>2
      <3> QED BY <2>1, <3>1, Zenon
    <2> QED BY <1>1, <1>3, <2>2, <2>3, <2>4 DEF Masks
  <1> QED BY <1>2, <1>3

(* What Return does to the allocation and to the holders. *)
LEMMA Returned ==
  ASSUME JobOK, job.at # "idle", \A b \in blocks : b.mask \in Masks,
         NEW x \in Ram \cup {None}, Return(x)
  PROVE  /\ JobOK' /\ \A b \in blocks' : b.mask \in Masks
         /\ x = None => Holders' = blocks
         /\ x # None => Holders' = blocks \cup {Given(x)}
  <1>1. job.n \in Nat \ {0} /\ job.mask \in Masks /\ job.gfp \in Gfps /\ job \in JobType
    BY DEF JobOK, JobType
  <1>2. CASE job.mask = "mid"
    <2>1. job' = [job EXCEPT !.at = "check_mask", !.addr = x] /\ blocks' = blocks
      BY <1>2 DEF Return
    <2>2. /\ job'.at = "check_mask" /\ job'.addr = x /\ job'.n = job.n
          /\ job'.gfp = job.gfp /\ job'.mask = "mid" /\ job' \in JobType
      BY <1>1, <1>2, <2>1 DEF JobType
    <2>3. JobOK'
      BY <1>1, <1>2, <2>2 DEF JobOK
    <2>4. x = None => Holders' = blocks
      BY <2>1, <2>2 DEF Holders, Extra
    <2>5. x # None => Holders' = blocks \cup {Given(x)}
      BY <1>2, <2>1, <2>2 DEF Holders, Extra, Given
    <2> QED BY <2>1, <2>3, <2>4, <2>5
  <1>3. CASE job.mask # "mid"
    <2>1. /\ job' = Idle
          /\ blocks' = IF x = None THEN blocks
                       ELSE blocks \cup {[addr |-> x, n |-> job.n,
                                          dma |-> job.gfp # "plain", mask |-> job.mask]}
      BY <1>3 DEF Return
    <2>2. JobOK'
      BY <2>1 DEF JobOK, JobType, Idle, Gfps, Masks
    <2>3. Holders' = blocks'
      BY <2>1 DEF Holders, Extra, Idle
    <2>4. CASE x = None
      BY <2>1, <2>2, <2>3, <2>4
    <2>5. CASE x # None
      <3>1. blocks' = blocks \cup {Given(x)}
        BY <1>3, <2>1, <2>5 DEF Given
      <3>2. Given(x).mask \in Masks
        BY <1>1, <1>3 DEF Given
      <3> QED BY <2>2, <2>3, <2>5, <3>1, <3>2
    <2> QED BY <2>4, <2>5
  <1> QED BY <1>2, <1>3

(* A block of OS/2 of which x is handed on, whichever attempt got it. *)
LEMMA Got ==
  ASSUME IInv, job.at # "idle", NEW N \in Nat \ {0}, NEW base \in VMAlloc(N, job.gfp),
         NEW x \in Ram, Pages(x, job.n) \subseteq Pages(base, N),
         job.gfp # "plain" /\ ~LookupMayFail => InWindow(x, job.n),
         job.mask = "virtual" => x = base,
         NEW L2, NEW size \in Nat,
         \/ L2 = list
         \/ L2 = <<[base |-> base, retaddr |-> x, size |-> size]>> \o list,
         ~RecordMayFail => x = base \/ L2 # list
  PROVE  Good(vm \cup {[base |-> base, n |-> N]}, L2, Holders \cup {Given(x)})
  <1> DEFINE a0 == [base |-> base, n |-> N]
             t == Given(x)
  <1>1. a0.base = base /\ a0.n = N
    OBVIOUS
  <1>2. /\ t \in HolderType /\ t.addr = x /\ t.n = job.n
        /\ t.mask \notin {"dma_retry"}
        /\ t.mask = "virtual" => job.mask = "virtual"
        /\ t.mask = "low" => job.mask = "low"
        /\ t.mask = "again" => job.mask = "again"
        /\ t.mask # "mid"
        /\ t.dma => job.gfp # "plain"
    BY GivenType DEF IInv
  <1>3. /\ base \in Nat /\ a0 \in BlockType /\ Pages(base, N) \subseteq Ram
        /\ \A a \in vm : Pages(base, N) \cap Pages(a.base, a.n) = {}
        /\ job.gfp = "DMA" => base + N <= LowLimit
    BY VMAllocFacts
  <1>4. job.n \in Nat \ {0} /\ x \in Nat /\ LowLimit \in Nat
    BY RamNat, PagesAssumption DEF IInv, JobOK, JobType
  <1>5. x + job.n <= base + N
    <2>1. x + job.n - 1 \in Pages(x, job.n)
      BY <1>4 DEF Pages
    <2>2. x + job.n - 1 <= base + N - 1
      BY <1>3, <2>1 DEF Pages
    <2> QED BY <1>3, <1>4, <2>2
  <1>6. WellPlaced(t)
    <2>1. t.mask = "low" => x + job.n <= LowLimit
      <3>1. job.mask = "low" => job.gfp = "DMA"
        BY DEF IInv, JobOK
      <3> QED BY <1>2, <1>3, <1>4, <1>5, <3>1
    <2>2. t.mask = "again" /\ t.dma => x + job.n <= LowLimit
      <3>1. job.mask = "again" => job.gfp \in {"DMA", "plain"}
        BY DEF IInv, JobOK
      <3>2. t.mask = "again" /\ t.dma => job.gfp = "DMA"
        BY <1>2, <3>1
      <3> QED BY <1>3, <1>4, <1>5, <3>2
    <2> QED BY <1>2, <2>1, <2>2 DEF WellPlaced
  <1>7. Good(vm, list, Holders)
    BY DEF IInv
  <1> HIDE DEF a0, t
  <1>8. /\ \/ L2 = list
           \/ L2 = <<[base |-> a0.base, retaddr |-> t.addr, size |-> size]>> \o list
        /\ Pages(a0.base, a0.n) \subseteq Ram
        /\ \A a \in vm : Pages(a0.base, a0.n) \cap Pages(a.base, a.n) = {}
        /\ Pages(t.addr, t.n) \subseteq Pages(a0.base, a0.n)
        /\ t.mask = "dma_retry" => L2 = list
        /\ t.mask \in {"virtual", "dma_retry"} => t.addr = a0.base
        /\ ~RecordMayFail => t.addr = a0.base \/ L2 # list
    BY <1>1, <1>2, <1>3
  <1>9. Good(vm \cup {a0}, L2, Holders \cup {t})
    BY <1>2, <1>3, <1>6, <1>7, <1>8, Added
  <1> QED BY <1>9 DEF a0, t

(***************************************************************************)
(* The actions keep the invariant.                                         *)
(***************************************************************************)

(* A step that leaves the blocks, the list and the callers alone and holds  *)
(* no block before or after it has only to leave the allocation in order.   *)
LEMMA OnlyJob ==
  ASSUME IInv, UNCHANGED <<vm, list, blocks>>, JobOK',
         job.at \in {"idle", "dma_first", "waste"},
         job'.at \in {"idle", "dma_first", "waste"}
  PROVE  IInv'
  <1>1. Holders = blocks
    BY NoExtra
  <1>2. Holders' = blocks
    BY DEF Holders, Extra
  <1>3. Good(vm', list', Holders')
    BY <1>1, <1>2 DEF IInv
  <1> QED BY <1>3 DEF IInv

(* The beginning of an allocation. *)
LEMMA StartStep ==
  ASSUME IInv, NEW order \in Orders, NEW gfp \in Gfps, NEW mask \in Masks,
         job.at = "idle", UNCHANGED <<vm, list, blocks>>,
         job' = [at |-> FirstTry(gfp), n |-> 2^order, gfp |-> gfp, mask |-> mask,
                 addr |-> None],
         mask = "mid" => gfp = "DMAHIGHMEM", mask = "low" => gfp = "DMA",
         mask = "virtual" => gfp = "plain", mask # "again"
  PROVE  IInv'
  <1>1. PICK n \in Nat \ {0} : n = 2^order
    BY PagesAssumption
  <1>2. PICK at \in {"dma_first", "waste"} : at = FirstTry(gfp)
    BY DEF FirstTry
  <1>3. at = "dma_first" => gfp # "plain"
    BY <1>2 DEF FirstTry
  <1>4. job' = [at |-> at, n |-> n, gfp |-> gfp, mask |-> mask, addr |-> None]
    BY <1>1, <1>2
  <1>5. job' \in JobType
    BY <1>4 DEF JobType
  <1>6. JobOK'
    BY <1>3, <1>4, <1>5 DEF JobOK
  <1> QED BY <1>4, <1>6, OnlyJob

(* An allocation by __get_free_pages begins. *)
LEMMA GetFreePagesStep ==
  ASSUME IInv, NEW order \in Orders, NEW gfp \in Gfps, __get_free_pages(order, gfp)
  PROVE  IInv'
  <1>1. PICK mask \in {"none", "low"} : mask = IF gfp = "DMA" THEN "low" ELSE "none"
    OBVIOUS
  <1>2. mask \in Masks /\ (mask = "low" => gfp = "DMA")
    BY <1>1 DEF Masks
  <1>3. /\ job.at = "idle" /\ UNCHANGED <<vm, list, blocks>>
        /\ job' = [at |-> FirstTry(gfp), n |-> 2^order, gfp |-> gfp, mask |-> mask,
                   addr |-> None]
    BY <1>1 DEF __get_free_pages
  <1> QED BY <1>1, <1>2, <1>3, StartStep

(* ... by pci_alloc_consistent, with the kind of memory the mask calls for. *)
LEMMA PciAllocStep ==
  ASSUME IInv, NEW order \in Orders, NEW mask \in {"full", "mid", "low"},
         pci_alloc_consistent(order, mask)
  PROVE  IInv'
  <1>1. PICK gfp \in Gfps :
          /\ mask = "mid" => gfp = "DMAHIGHMEM"
          /\ mask = "low" => gfp = "DMA"
          /\ job' = [at |-> FirstTry(gfp), n |-> 2^order, gfp |-> gfp, mask |-> mask,
                     addr |-> None]
    BY DEF pci_alloc_consistent, Gfps
  <1>2. mask \in Masks /\ mask # "virtual" /\ mask # "again"
    BY DEF Masks
  <1>3. job.at = "idle" /\ UNCHANGED <<vm, list, blocks>>
    BY DEF pci_alloc_consistent
  <1> QED BY <1>1, <1>2, <1>3, StartStep

(* ... by vmalloc. *)
LEMMA VmallocStep ==
  ASSUME IInv, NEW n \in VmSizes, vmalloc(n)
  PROVE  IInv'
  <1>1. /\ job.at = "idle" /\ UNCHANGED <<vm, list, blocks>>
        /\ job' = [at |-> "waste", n |-> n, gfp |-> "plain", mask |-> "virtual",
                   addr |-> None]
    BY DEF vmalloc, Idle
  <1>2. n \in Nat \ {0}
    BY PagesAssumption
  <1>3. job' \in JobType
    BY <1>1, <1>2 DEF JobType, Gfps, Masks
  <1>4. JobOK'
    BY <1>1, <1>2, <1>3 DEF JobOK
  <1> QED BY <1>1, <1>4, OnlyJob

(* Putting a record in the list, or not: what AddBaseAddress leaves. *)
LEMMA RecordStored ==
  ASSUME IInv, NEW base, NEW x, NEW n, NEW ok \in {TRUE, ~RecordMayFail},
         AddBaseAddress(base, x, n, ok)
  PROVE  /\ \/ list' = list
            \/ list' = <<[base |-> base, retaddr |-> x, size |-> n]>> \o list
         /\ ~RecordMayFail => list' # list
  <1>1. list \in Seq(RecordType)
    BY DEF IInv, Good
  <1>2. CASE ok
    <2>1. list' = <<[base |-> base, retaddr |-> x, size |-> n]>> \o list
      BY <1>2 DEF AddBaseAddress
    <2>2. Len(list') = Len(list) + 1 /\ Len(list) \in Nat
      BY <1>1, <2>1
    <2>3. list' # list
      BY <2>2
    <2> QED BY <2>1, <2>3
  <1>3. CASE ~ok
    <2>1. list' = list /\ RecordMayFail
      BY <1>3, PagesAssumption DEF AddBaseAddress
    <2> QED BY <2>1
  <1> QED BY <1>2, <1>3

(* The first try of __get_free_dma_pages. *)
LEMMA DmaFirstStep ==
  ASSUME IInv, DmaFirst
  PROVE  IInv'
  <1>1. /\ job.at = "dma_first" /\ Holders = blocks /\ job.n \in Nat \ {0}
        /\ job.gfp \in Gfps /\ job.gfp # "plain" /\ job \in JobType /\ JobOK
        /\ Good(vm, list, Holders) /\ \A b \in blocks : b.mask \in Masks
    BY NoExtra DEF DmaFirst, IInv, JobOK, JobType
  <1>2. ASSUME job' = [job EXCEPT !.at = "waste"], UNCHANGED <<vm, list, blocks>>
        PROVE  IInv'
    <2>1. /\ job'.at = "waste" /\ job'.n = job.n /\ job'.gfp = job.gfp
          /\ job'.mask = job.mask /\ job' \in JobType
      BY <1>1, <1>2 DEF JobType
    <2>2. JobOK'
      BY <1>1, <2>1 DEF JobOK
    <2> QED BY <1>1, <1>2, <2>1, <2>2, OnlyJob
  <1>3. ASSUME NEW base \in VMAlloc(job.n, job.gfp), Crosses(base, job.n),
               vm' = vm \cup {[base |-> base, n |-> job.n]},
               job' = [job EXCEPT !.at = "dma_retry", !.addr = base],
               UNCHANGED <<list, blocks>>
        PROVE  IInv'
    <2> DEFINE t == [addr |-> base, n |-> job.n, dma |-> FALSE, mask |-> "dma_retry"]
               a0 == [base |-> base, n |-> job.n]
    <2>1. /\ base \in Ram /\ a0 \in BlockType /\ Pages(base, job.n) \subseteq Ram
          /\ \A a \in vm : Pages(base, job.n) \cap Pages(a.base, a.n) = {}
          /\ base # None
      BY <1>1, VMAllocFacts, RamNat
    <2>2. /\ job'.at = "dma_retry" /\ job'.n = job.n /\ job'.gfp = job.gfp
          /\ job'.mask = job.mask /\ job'.addr = base /\ job' \in JobType
      BY <1>1, <1>3, <2>1 DEF JobType
    <2>3. JobOK'
      BY <1>1, <2>1, <2>2 DEF JobOK
    <2>4. Extra' = {t}
      BY <2>1, <2>2 DEF Extra
    <2>5. Holders' = Holders \cup {t}
      BY <1>1, <1>3, <2>4 DEF Holders
    <2>6. t \in HolderType
      BY <1>1, <2>1 DEF HolderType
    <2>7. WellPlaced(t)
      BY DEF WellPlaced
    <2>8. /\ t.addr = base /\ t.n = job.n /\ t.mask = "dma_retry"
          /\ a0.base = base /\ a0.n = job.n
      OBVIOUS
    <2>9. vm' = vm \cup {a0} /\ list' = list
      BY <1>3
    <2> HIDE DEF t, a0
    <2>10. /\ Pages(a0.base, a0.n) \subseteq Ram
           /\ \A a \in vm : Pages(a0.base, a0.n) \cap Pages(a.base, a.n) = {}
           /\ Pages(t.addr, t.n) \subseteq Pages(a0.base, a0.n) /\ t.addr = a0.base
      BY <2>1, <2>8
    <2>11. Good(vm \cup {a0}, list, Holders \cup {t})
      BY <1>1, <2>1, <2>6, <2>7, <2>10, Added
    <2>12. Good(vm', list', Holders')
      BY <2>5, <2>9, <2>11
    <2> QED BY <1>1, <1>3, <2>3, <2>12 DEF IInv
  <1>4. ASSUME NEW base \in VMAlloc(job.n, job.gfp), ~Crosses(base, job.n),
               NEW ok \in {TRUE, ~RecordMayFail},
               vm' = vm \cup {[base |-> base, n |-> job.n]},
               AddBaseAddress(base, base, job.n, ok), Return(base)
        PROVE  IInv'
    <2>1. base \in Ram /\ base \in Nat /\ base # None
      BY <1>1, VMAllocFacts, RamNat
    <2>2. InWindow(base, job.n)
      BY <1>1, <1>4, <2>1, UncrossedInWindow
    <2>3. \/ list' = list
          \/ list' = <<[base |-> base, retaddr |-> base, size |-> job.n]>> \o list
      BY <1>4, RecordStored
    <2>4. Good(vm', list', Holders \cup {Given(base)})
      BY <1>1, <1>4, <2>1, <2>2, <2>3, Got
    <2>5. /\ JobOK' /\ \A b \in blocks' : b.mask \in Masks
          /\ Holders' = Holders \cup {Given(base)}
      BY <1>1, <1>4, <2>1, Returned
    <2> QED BY <2>4, <2>5 DEF IInv
  <1>5. \/ job' = [job EXCEPT !.at = "waste"] /\ UNCHANGED <<vm, list, blocks>>
        \/ \E base \in VMAlloc(job.n, job.gfp), ok \in {TRUE, ~RecordMayFail} :
             \/ /\ Crosses(base, job.n) /\ vm' = vm \cup {[base |-> base, n |-> job.n]}
                /\ job' = [job EXCEPT !.at = "dma_retry", !.addr = base]
                /\ UNCHANGED <<list, blocks>>
             \/ /\ ~Crosses(base, job.n) /\ vm' = vm \cup {[base |-> base, n |-> job.n]}
                /\ AddBaseAddress(base, base, job.n, ok) /\ Return(base)
    BY DEF DmaFirst
  <1> QED BY <1>2, <1>3, <1>4, <1>5

(* The second try: the first block is given back whatever comes of it. *)
LEMMA DmaRetryStep ==
  ASSUME IInv, DmaRetry
  PROVE  IInv'
  <1> DEFINE t == [addr |-> job.addr, n |-> job.n, dma |-> FALSE, mask |-> "dma_retry"]
  <1>1. /\ job.at = "dma_retry" /\ job.n \in Nat \ {0} /\ job.addr # None
        /\ job.addr \in Ram /\ job.gfp \in Gfps /\ job.gfp # "plain"
        /\ job \in JobType /\ JobOK
        /\ Good(vm, list, Holders) /\ \A b \in blocks : b.mask \in Masks
    BY DEF DmaRetry, IInv, JobOK, JobType
  <1>2. Holders = blocks \cup {t}
    BY <1>1 DEF Holders, Extra
  <1>3. t.addr = job.addr /\ t.n = job.n /\ t.mask = "dma_retry"
    OBVIOUS
  <1> HIDE DEF t
  <1>4. t \notin blocks
    BY <1>1, <1>3 DEF Masks
  <1>5. \A i \in DOMAIN list : list[i].retaddr # job.addr
    BY <1>1, <1>2, <1>3 DEF Good, Listed
  <1>6. PICK a \in vm : job.addr \in Pages(a.base, a.n)
    BY <1>1, <1>2, <1>3, HolderIn
  <1>7. ASSUME vm' = VMFree(vm, job.addr), UNCHANGED <<list, blocks>>,
               job' = [job EXCEPT !.at = "waste", !.addr = None]
        PROVE  IInv'
    <2>1. Records(list, job.addr) = {}
      BY <1>5 DEF Records
    <2>2. /\ FreeAt(vm, list, t.addr).vm = VMFree(vm, job.addr)
          /\ FreeAt(vm, list, t.addr).list = list
      BY <1>3, <2>1 DEF FreeAt
    <2>3. Good(vm', list', Holders \ {t})
      BY <1>1, <1>2, <1>7, <2>2, Freed
    <2>4. /\ job'.at = "waste" /\ job'.n = job.n /\ job'.gfp = job.gfp
          /\ job'.mask = job.mask /\ job' \in JobType
      BY <1>1, <1>7 DEF JobType
    <2>5. JobOK'
      BY <1>1, <2>4 DEF JobOK
    <2>6. Holders' = Holders \ {t}
      <3>1. Extra' = {}
        BY <2>4 DEF Extra
      <3> QED BY <1>2, <1>4, <1>7, <3>1 DEF Holders
    <2> QED BY <1>1, <1>7, <2>3, <2>5, <2>6 DEF IInv
  <1>8. ASSUME NEW base \in VMAlloc(job.n, job.gfp), NEW ok \in {TRUE, ~RecordMayFail},
               ~LookupMayFail => ~Crosses(base, job.n),
               vm' = VMFree(vm, job.addr) \cup {[base |-> base, n |-> job.n]},
               AddBaseAddress(base, base, job.n, ok), Return(base)
        PROVE  IInv'
    <2> DEFINE a0 == [base |-> base, n |-> job.n]
               V2 == vm \cup {a0}
    <2>1. /\ base \in Ram /\ base \in Nat /\ base # None
          /\ \A b \in vm : Pages(base, job.n) \cap Pages(b.base, b.n) = {}
      BY <1>1, VMAllocFacts, RamNat
    <2>2. ~LookupMayFail => InWindow(base, job.n)
      BY <1>1, <1>8, <2>1, UncrossedInWindow
    <2>3. \/ list' = list
          \/ list' = <<[base |-> base, retaddr |-> base, size |-> job.n]>> \o list
      BY <1>8, RecordStored
    <2>4. Good(V2, list', Holders \cup {Given(base)})
      BY <1>1, <1>8, <2>1, <2>2, <2>3, Got
    <2>5. base # job.addr
      <3>1. base \in Pages(base, job.n)
        BY <1>1, <2>1, FirstPage
      <3> QED BY <1>6, <2>1, <3>1
    <2>6. VMFree(V2, job.addr) = vm'
      <3>1. a0.base = base
        OBVIOUS
      <3> QED BY <1>8, <2>5, <3>1 DEF VMFree
    <2>7. Records(list', job.addr) = {}
      <3>1. t \in Holders \cup {Given(base)}
        BY <1>2
      <3>2. \A i \in DOMAIN list' : list'[i].retaddr # job.addr
        BY <1>3, <2>4, <3>1 DEF Good, Listed
      <3> QED BY <3>2 DEF Records
    <2> HIDE DEF V2, a0
    <2>8. /\ FreeAt(V2, list', t.addr).vm = vm'
          /\ FreeAt(V2, list', t.addr).list = list'
      BY <1>3, <2>6, <2>7 DEF FreeAt
    <2>9. Good(vm', list', (Holders \cup {Given(base)}) \ {t})
      <3>1. t \in Holders \cup {Given(base)}
        BY <1>2
      <3> QED BY <2>4, <2>8, <3>1, Freed
    <2>10. Given(base) # t
      BY <1>1, <1>3, <2>1, GivenType
    <2>11. /\ JobOK' /\ \A b \in blocks' : b.mask \in Masks
           /\ Holders' = blocks \cup {Given(base)}
      BY <1>1, <1>8, <2>1, Returned
    <2>12. Holders' = (Holders \cup {Given(base)}) \ {t}
      BY <1>2, <1>4, <2>10, <2>11
    <2> QED BY <2>9, <2>11, <2>12 DEF IInv
  <1>9. \/ /\ vm' = VMFree(vm, job.addr) /\ UNCHANGED <<list, blocks>>
           /\ job' = [job EXCEPT !.at = "waste", !.addr = None]
        \/ \E base \in VMAlloc(job.n, job.gfp), ok \in {TRUE, ~RecordMayFail} :
             /\ ~LookupMayFail => ~Crosses(base, job.n)
             /\ vm' = VMFree(vm, job.addr) \cup {[base |-> base, n |-> job.n]}
             /\ AddBaseAddress(base, base, job.n, ok) /\ Return(base)
    BY DEF DmaRetry
  <1> QED BY <1>7, <1>8, <1>9

(* The wasteful way asks for at least what is needed, and for room enough   *)
(* to move the address to the next boundary.                                *)
LEMMA WasteFits ==
  ASSUME JobOK, job.at = "waste", NEW base \in Nat
  PROVE  /\ AllocSize \in Nat \ {0}
         /\ Aligned(base) \in Nat
         /\ Pages(Aligned(base), job.n) \subseteq Pages(base, AllocSize)
         /\ job.gfp # "plain" => InWindow(Aligned(base), job.n)
         /\ job.gfp = "plain" => Aligned(base) = base
  <1>1. job.n \in Nat \ {0} /\ job.gfp \in Gfps /\ Window \in Nat \ {0}
    BY PagesAssumption DEF JobOK, JobType
  <1>2. CASE job.gfp = "plain"
    <2>1. AllocSize = job.n /\ Aligned(base) = base
      BY <1>2 DEF AllocSize, Aligned
    <2> QED BY <1>1, <1>2, <2>1
  <1>3. CASE job.gfp # "plain"
    <2>1. AllocSize = IF job.n < Window THEN 2 * job.n ELSE job.n + Window
      BY <1>3 DEF AllocSize
    <2>2. AllocSize \in Nat \ {0} /\ AllocSize >= job.n
      BY <1>1, <2>1
    <2>3. CASE ~Crosses(base, job.n)
      <3>1. Aligned(base) = base
        BY <2>3 DEF Aligned
      <3>2. InWindow(base, job.n)
        BY <1>1, <2>3, UncrossedInWindow
      <3>3. Pages(base, job.n) \subseteq Pages(base, AllocSize)
        BY <1>1, <2>2 DEF Pages
      <3> QED BY <1>3, <2>2, <3>1, <3>2, <3>3
    <2>4. CASE Crosses(base, job.n)
      <3> DEFINE x == Aligned(base)
      <3>1. x = (base \div Window + 1) * Window
        BY <1>3, <2>4 DEF Aligned
      <3> HIDE DEF x
      <3>2. x \in Nat /\ x >= base /\ x + job.n <= base + AllocSize /\ InWindow(x, job.n)
        <4>1. PICK n \in Nat \ {0} : n = job.n
          BY <1>1
        <4>2. PICK N \in Nat : N = AllocSize
          BY <2>2
        <4>3. Crosses(base, n) /\ N = IF n < Window THEN 2 * n ELSE n + Window
          BY <2>1, <2>4, <4>1, <4>2
        <4>4. x \in Nat /\ x >= base /\ x + n <= base + N /\ InWindow(x, n)
          BY <3>1, <4>3, MovedInWindow
        <4> QED BY <4>1, <4>2, <4>4
      <3>3. Pages(x, job.n) \subseteq Pages(base, AllocSize)
        BY <1>1, <2>2, <3>2 DEF Pages
      <3> QED BY <1>3, <2>2, <3>2, <3>3 DEF x
    <2> QED BY <2>3, <2>4
  <1> QED BY <1>2, <1>3

(* The wasteful way. *)
LEMMA WasteStep ==
  ASSUME IInv, Waste
  PROVE  IInv'
  <1>1. /\ job.at = "waste" /\ Holders = blocks /\ job.n \in Nat \ {0}
        /\ job.gfp \in Gfps /\ job \in JobType /\ JobOK
        /\ Good(vm, list, Holders) /\ \A b \in blocks : b.mask \in Masks
    BY NoExtra DEF Waste, IInv, JobOK, JobType
  <1>2. ASSUME Return(None), UNCHANGED <<vm, list>>
        PROVE  IInv'
    <2>1. JobOK' /\ Holders' = blocks /\ \A b \in blocks' : b.mask \in Masks
      BY <1>1, <1>2, Returned
    <2>2. Good(vm', list', Holders')
      BY <1>1, <1>2, <2>1
    <2> QED BY <2>1, <2>2 DEF IInv
  <1>3. ASSUME NEW base \in VMAlloc(AllocSize, job.gfp), NEW ok \in {TRUE, ~RecordMayFail},
               vm' = vm \cup {[base |-> base, n |-> AllocSize]},
               IF job.gfp = "plain" \/ Aligned(base) # base
               THEN AddBaseAddress(base, Aligned(base), AllocSize, ok)
               ELSE UNCHANGED list,
               Return(Aligned(base))
        PROVE  IInv'
    <2> DEFINE x == Aligned(base)
               N == AllocSize
    <2>0. base \in Nat
      BY RamNat DEF VMAlloc
    <2>1. /\ N \in Nat \ {0} /\ x \in Nat
          /\ Pages(x, job.n) \subseteq Pages(base, N)
          /\ job.gfp # "plain" => InWindow(x, job.n)
          /\ job.gfp = "plain" => x = base
      BY <1>1, <2>0, WasteFits
    <2>2. x \in Ram /\ x # None
      <3>1. Pages(base, N) \subseteq Ram
        BY <2>1, VMAllocFacts
      <3>2. x \in Pages(x, job.n)
        BY <1>1, <2>1, FirstPage
      <3> QED BY <2>1, <3>1, <3>2, RamNat
    <2>3. /\ \/ list' = list
             \/ list' = <<[base |-> base, retaddr |-> x, size |-> N]>> \o list
          /\ ~RecordMayFail => x = base \/ list' # list
      BY <1>3, RecordStored
    <2>4. job.mask = "virtual" => x = base
      BY <1>1, <2>1 DEF JobOK
    <2>5. JobOK' /\ (\A b \in blocks' : b.mask \in Masks)
          /\ Holders' = Holders \cup {Given(x)}
      BY <1>1, <1>3, <2>2, Returned
    <2>6. vm' = vm \cup {[base |-> base, n |-> N]} /\ base \in VMAlloc(N, job.gfp)
      BY <1>3
    <2> HIDE DEF x, N
    <2>7. Good(vm \cup {[base |-> base, n |-> N]}, list', Holders \cup {Given(x)})
      BY <1>1, <2>1, <2>2, <2>3, <2>4, <2>6, Got
    <2>8. Good(vm', list', Holders')
      BY <2>5, <2>6, <2>7
    <2> QED BY <2>5, <2>8 DEF IInv
  <1>4. \/ Return(None) /\ UNCHANGED <<vm, list>>
        \/ \E base \in VMAlloc(AllocSize, job.gfp), ok \in {TRUE, ~RecordMayFail} :
             /\ vm' = vm \cup {[base |-> base, n |-> AllocSize]}
             /\ IF job.gfp = "plain" \/ Aligned(base) # base
                THEN AddBaseAddress(base, Aligned(base), AllocSize, ok)
                ELSE UNCHANGED list
             /\ Return(Aligned(base))
    BY DEF Waste
  <1> QED BY <1>2, <1>3, <1>4

(* The comparison with the mask: the block is the caller's, or goes back. *)
LEMMA CheckMaskStep ==
  ASSUME IInv, CheckMask
  PROVE  IInv'
  <1>1. /\ job.at = "check_mask" /\ job.n \in Nat \ {0} /\ job.mask = "mid"
        /\ job.addr \in Ram \cup {None} /\ job \in JobType /\ JobOK
        /\ Good(vm, list, Holders) /\ \A b \in blocks : b.mask \in Masks
    BY DEF CheckMask, IInv, JobOK, JobType
  <1>2. CASE job.addr = None
    <2>1. Holders = blocks
      BY <1>1, <1>2 DEF Holders, Extra
    <2>2. /\ job' = [job EXCEPT !.at = "waste", !.gfp = "plain", !.mask = "again"]
          /\ UNCHANGED <<vm, list, blocks>>
      BY <1>2 DEF CheckMask
    <2>3. /\ job'.at = "waste" /\ job'.n = job.n /\ job'.gfp = "plain"
          /\ job'.mask = "again" /\ job' \in JobType
      BY <1>1, <2>2 DEF JobType, Gfps, Masks
    <2>4. JobOK'
      BY <1>1, <2>3 DEF JobOK
    <2>5. Holders' = blocks
      BY <2>2, <2>3 DEF Holders, Extra
    <2>6. Good(vm', list', Holders')
      BY <1>1, <2>1, <2>2, <2>5
    <2> QED BY <1>1, <2>2, <2>4, <2>6 DEF IInv
  <1>3. CASE job.addr # None
    <2> DEFINE t == [addr |-> job.addr, n |-> job.n, dma |-> TRUE, mask |-> "check_mask"]
               u == [addr |-> job.addr, n |-> job.n, dma |-> TRUE, mask |-> "mid"]
    <2>1. Holders = blocks \cup {t}
      BY <1>1, <1>3 DEF Holders, Extra
    <2>2. /\ t.addr = job.addr /\ t.n = job.n /\ t.mask = "check_mask" /\ t.dma = TRUE
          /\ u.addr = job.addr /\ u.n = job.n /\ u.mask = "mid" /\ u.dma = TRUE
      OBVIOUS
    <2>3. u \in HolderType /\ job.addr \in Ram
      BY <1>1, <1>3 DEF HolderType, Masks
    <2>4. t \notin blocks
      BY <1>1, <2>2 DEF Masks
    <2>5. CASE job.addr < MaskLimit
      <3>1. blocks' = blocks \cup {u} /\ job' = Idle /\ UNCHANGED <<vm, list>>
        BY <1>3, <2>5 DEF CheckMask
      <3>2. JobOK'
        BY <3>1 DEF JobOK, JobType, Idle, Gfps, Masks
      <3>3. Holders' = (Holders \ {t}) \cup {u}
        <4>1. Extra' = {}
          BY <3>1 DEF Extra, Idle
        <4> HIDE DEF t, u
        <4> QED BY <2>1, <2>4, <3>1, <4>1 DEF Holders
      <3> HIDE DEF t, u
      <3>4. ~LookupMayFail => InWindow(t.addr, t.n)
        BY <1>1, <2>1, <2>2 DEF Good, WellPlaced
      <3>5. WellPlaced(u)
        BY <2>2, <2>5, <3>4 DEF WellPlaced
      <3>6. Good(vm, list, (Holders \ {t}) \cup {u})
        BY <1>1, <2>1, <2>2, <2>3, <3>5, PassedOn
      <3>7. Good(vm', list', Holders')
        BY <3>1, <3>3, <3>6
      <3>8. \A b \in blocks' : b.mask \in Masks
        BY <1>1, <2>2, <3>1 DEF Masks
      <3> QED BY <3>2, <3>7, <3>8 DEF IInv
    <2>6. CASE ~(job.addr < MaskLimit)
      <3> HIDE DEF t, u
      <3>1. /\ vm' = FreeAt(vm, list, job.addr).vm
            /\ list' = FreeAt(vm, list, job.addr).list
            /\ job' = [job EXCEPT !.at = "dma_first", !.gfp = "DMA",
                                  !.mask = "again", !.addr = None]
            /\ blocks' = blocks
        BY <1>3, <2>6 DEF CheckMask
      <3>2. /\ job'.at = "dma_first" /\ job'.n = job.n /\ job'.gfp = "DMA"
            /\ job'.mask = "again" /\ job' \in JobType
        BY <1>1, <3>1 DEF JobType, Gfps, Masks
      <3>3. JobOK'
        BY <1>1, <3>2 DEF JobOK
      <3>4. Holders' = Holders \ {t}
        <4>1. Extra' = {}
          BY <3>2 DEF Extra
        <4> QED BY <2>1, <2>4, <3>1, <4>1 DEF Holders
      <3>5. Good(vm', list', Holders \ {t})
        BY <1>1, <2>1, <2>2, <3>1, Freed
      <3> QED BY <1>1, <3>1, <3>3, <3>4, <3>5 DEF IInv
    <2> QED BY <2>5, <2>6
  <1> QED BY <1>2, <1>3

(* A caller gives its pages back. *)
LEMMA FreePagesStep ==
  ASSUME IInv, NEW b \in blocks, free_pages(b)
  PROVE  IInv'
  <1>1. /\ job.at = "idle" /\ job' = job /\ blocks' = blocks \ {b}
        /\ vm' = FreeAt(vm, list, b.addr).vm /\ list' = FreeAt(vm, list, b.addr).list
    BY DEF free_pages
  <1>2. Holders = blocks /\ Holders' = blocks \ {b}
    BY <1>1 DEF Holders, Extra
  <1>3. Good(vm', list', Holders')
    BY <1>1, <1>2, Freed DEF IInv
  <1>4. JobOK'
    BY <1>1 DEF IInv, JobOK
  <1> QED BY <1>1, <1>3, <1>4 DEF IInv

(* ... or the block vmalloc or kmalloc gave it. *)
LEMMA VfreeStep ==
  ASSUME IInv, NEW b \in blocks, vfree(b)
  PROVE  IInv'
  <1>1. /\ job.at = "idle" /\ job' = job /\ blocks' = blocks \ {b} /\ b.mask = "virtual"
        /\ vm' = VMFree(vm, b.addr) /\ list' = FreeAt(vm, list, b.addr).list
    BY DEF vfree
  <1>2. Holders = blocks /\ Holders' = blocks \ {b} /\ Good(vm, list, Holders)
    BY <1>1 DEF Holders, Extra, IInv
  <1>3. IsBase(vm, b.addr)
    BY <1>1, <1>2 DEF Good, Freeable
  <1>4. vm' = FreeAt(vm, list, b.addr).vm
    BY <1>1, <1>2, <1>3, FreeAtBase
  <1>5. Good(vm', list', Holders')
    BY <1>1, <1>2, <1>4, Freed
  <1>6. JobOK'
    BY <1>1 DEF IInv, JobOK
  <1> QED BY <1>1, <1>5, <1>6 DEF IInv

(***************************************************************************)
(* Theorems.                                                               *)
(***************************************************************************)

(* Nothing is held to begin with. *)
LEMMA InitOK ==
  ASSUME Init
  PROVE  IInv
  <1>1. vm = {} /\ list = <<>> /\ blocks = {} /\ job = Idle
    BY DEF Init
  <1>2. Holders = {}
    BY <1>1 DEF Holders, Extra, Idle
  <1>3. JobOK
    BY <1>1 DEF JobOK, JobType, Idle, Gfps, Masks
  <1>4. list \in Seq(RecordType) /\ DOMAIN list = {}
    BY <1>1
  <1>5. Good(vm, list, Holders)
    BY <1>1, <1>2, <1>4 DEF Good, Apart, Inside, Listed, Freeable
  <1> QED BY <1>1, <1>3, <1>5 DEF IInv

(* A step that changes nothing keeps the invariant. *)
LEMMA StutterOK ==
  ASSUME IInv, UNCHANGED vars
  PROVE  IInv'
  <1>1. vm' = vm /\ list' = list /\ blocks' = blocks /\ job' = job
    BY DEF vars
  <1>2. Holders' = Holders
    BY <1>1 DEF Holders, Extra
  <1>3. JobOK'
    BY <1>1 DEF IInv, JobOK
  <1>4. Good(vm', list', Holders')
    BY <1>1, <1>2 DEF IInv
  <1> QED BY <1>1, <1>3, <1>4 DEF IInv

(* Every behaviour of the allocator keeps the invariant: one holder in      *)
(* every block, and a list that leads from its address to the block.        *)
THEOREM Invariance == Spec => []IInv
  <1>1. Init => IInv
    BY InitOK
  <1>2. IInv /\ [Next]_vars => IInv'
    <2> SUFFICES ASSUME IInv, [Next]_vars PROVE IInv'
      OBVIOUS
    <2>1. CASE \E order \in Orders, gfp \in Gfps : __get_free_pages(order, gfp)
      BY <2>1, GetFreePagesStep
    <2>2. CASE \E order \in Orders, mask \in {"full", "mid", "low"} :
                 pci_alloc_consistent(order, mask)
      BY <2>2, PciAllocStep
    <2>3. CASE DmaFirst \/ DmaRetry \/ Waste \/ CheckMask
      BY <2>3, DmaFirstStep, DmaRetryStep, WasteStep, CheckMaskStep
    <2>4. CASE \E n \in VmSizes : vmalloc(n)
      BY <2>4, VmallocStep
    <2>5. CASE \E b \in blocks : free_pages(b) \/ vfree(b)
      BY <2>5, FreePagesStep, VfreeStep
    <2>6. CASE UNCHANGED vars
      BY <2>6, StutterOK
    <2> QED BY <2>1, <2>2, <2>3, <2>4, <2>5, <2>6 DEF Next
  <1> QED BY <1>1, <1>2, PTL DEF Spec

(* BlocksConsistent, whatever may fail: what callers of __get_free_pages,   *)
(* pci_alloc_consistent and vmalloc hold lies inside blocks of OS/2 and     *)
(* apart, and AddBaseAddress has one record at most for each of them.       *)
THEOREM BlocksStayConsistent == Spec => []BlocksConsistent
  <1>1. ASSUME IInv PROVE BlocksConsistent
    <2>1. Good(vm, list, Holders) /\ blocks \subseteq Holders
      BY <1>1 DEF IInv, Holders
    <2>2. TypeOK
      <3>1. \A b \in vm : b.base \in Ram /\ b.n \in Nat
        BY <2>1 DEF Good, BlockType
      <3>2. \A i \in DOMAIN list : {list[i].base, list[i].retaddr} \subseteq Ram
        <4>1. TAKE i \in DOMAIN list
        <4>2. list[i] \in RecordType
          BY <2>1 DEF Good
        <4> QED BY <4>2 DEF RecordType
      <3>3. \A b \in blocks : b.addr \in Ram /\ b.dma \in BOOLEAN
        BY <2>1 DEF Good, HolderType
      <3>4. job.addr \in Ram \cup {None} /\ job.gfp \in Gfps
        BY <1>1 DEF IInv, JobOK, JobType
      <3> QED BY <3>1, <3>2, <3>3, <3>4 DEF TypeOK
    <2>3. \A b \in blocks : \E a \in vm : Pages(b.addr, b.n) \subseteq Pages(a.base, a.n)
      BY <2>1 DEF Good, Inside
    <2>4. ASSUME NEW b \in blocks, NEW c \in blocks, b # c
          PROVE  Pages(b.addr, b.n) \cap Pages(c.addr, c.n) = {}
      <3>1. PICK a \in vm : /\ Pages(b.addr, b.n) \subseteq Pages(a.base, a.n)
                            /\ b.addr \in Pages(a.base, a.n)
        BY <2>1, HolderIn
      <3>2. PICK d \in vm : /\ Pages(c.addr, c.n) \subseteq Pages(d.base, d.n)
                            /\ c.addr \in Pages(d.base, d.n)
        BY <2>1, HolderIn
      <3>3. a # d
        BY <2>1, <2>4, <3>1, <3>2 DEF Good, Inside
      <3>4. Pages(a.base, a.n) \cap Pages(d.base, d.n) = {}
        BY <2>1, <3>3 DEF Good, Apart
      <3> QED BY <3>1, <3>2, <3>4
    <2>5. RecordsCurrent
      <3>1. job.at = "idle" => Holders = blocks
        BY NoExtra
      <3> QED BY <2>1, <3>1 DEF Good, Listed, RecordsCurrent
    <2> QED BY <2>2, <2>3, <2>4, <2>5 DEF BlocksConsistent, BlocksInside
  <1> QED BY <1>1, Invariance, PTL

(* DmaReaches, when virt_to_phys finds every address: a DMA block does not  *)
(* cross 64 KB, whichever attempt got it.  One asked for below 16 MB ends   *)
(* there, that of pci_alloc_consistent's second attempt included when the   *)
(* first block lay beyond the mask; one of up to 64 KB that passed the test *)
(* of its beginning lies within the mask.  Nothing is said of the second    *)
(* attempt after a first that got no block, nor of the end of larger blocks.*)
THEOREM DmaIsReached == ~LookupMayFail => (Spec => []DmaReaches)
  <1>1. ASSUME ~LookupMayFail, IInv PROVE DmaReaches
    <2>1. Good(vm, list, Holders) /\ blocks \subseteq Holders
      BY <1>1 DEF IInv, Holders
    <2>2. \A b \in blocks : WellPlaced(b) /\ b.addr \in Nat /\ b.n \in Nat \ {0}
      BY <2>1, RamNat DEF Good, HolderType
    <2>3. \A b \in blocks : b.dma => InWindow(b.addr, b.n)
      BY <1>1, <2>2 DEF WellPlaced
    <2>4. DmaWindow
      BY <2>3 DEF DmaWindow, InWindow
    <2>5. ASSUME NEW b \in blocks, b.mask = "mid", b.n <= Window
          PROVE  b.addr + b.n <= MaskLimit
      <3>1. b.addr < MaskLimit /\ b.dma
        BY <2>2, <2>5 DEF WellPlaced
      <3> QED BY <2>2, <2>3, <2>5, <3>1, BelowMask
    <2>6. \A b \in blocks : b.mask = "low" \/ (b.mask = "again" /\ b.dma)
                              => b.addr + b.n <= LowLimit
      BY <2>2 DEF WellPlaced
    <2>7. \A b \in blocks : b.mask = "mid" => b.addr < MaskLimit
      BY <2>2 DEF WellPlaced
    <2>8. Reached
      BY <2>5, <2>6, <2>7 DEF Reached
    <2> QED BY <2>4, <2>8 DEF DmaReaches
  <1>2. ASSUME ~LookupMayFail PROVE Spec => []DmaReaches
    <2>1. IInv => DmaReaches
      BY <1>1, <1>2
    <2> QED BY <2>1, Invariance, PTL
  <1> QED BY <1>2

(* NothingLost, when the heap has room for the records: between calls a     *)
(* caller holds pages of every block OS/2 gave; no refusal on the way, and  *)
(* no move to a boundary, leaves a block that free_pages cannot give back.  *)
THEOREM NothingIsLost == ~RecordMayFail => (Spec => []NothingLost)
  <1>1. ASSUME ~RecordMayFail, IInv PROVE NothingLost
    <2>1. Good(vm, list, Holders)
      BY <1>1 DEF IInv
    <2>2. SUFFICES ASSUME job.at = "idle", NEW a \in vm
                   PROVE  \E b \in blocks : Pages(b.addr, b.n) \subseteq Pages(a.base, a.n)
      BY DEF NothingLost
    <2>3. Holders = blocks
      BY <2>2, NoExtra
    <2>4. PICK b \in blocks : b.addr \in Pages(a.base, a.n)
      BY <1>1, <2>1, <2>3 DEF Good, Freeable
    <2>5. PICK d \in vm : /\ Pages(b.addr, b.n) \subseteq Pages(d.base, d.n)
                          /\ b.addr \in Pages(d.base, d.n)
      BY <2>1, <2>3, HolderIn
    <2>6. a = d
      BY <2>1, <2>4, <2>5, OneBlock DEF Good
    <2> QED BY <2>5, <2>6
  <1>2. ASSUME ~RecordMayFail PROVE Spec => []NothingLost
    <2>1. IInv => NothingLost
      BY <1>1, <1>2
    <2> QED BY <2>1, Invariance, PTL
  <1> QED BY <1>2
=============================================================================
