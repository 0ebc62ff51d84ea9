----------------------------- MODULE HeapProofs -----------------------------
(***************************************************************************)
(* For a heap of any size, any header and any requests: the blocks of the  *)
(* two lists of malloc.cpp make up the region, each is aligned and as      *)
(* large as its owner asked for, no call touches a block of somebody else, *)
(* and uMemFree accounts for every free byte.                              *)
(*                                                                         *)
(* The argument is about the set B of blocks and the sizes s in their      *)
(* headers (Tile), and is the same wherever a block hangs: a split adds a  *)
(* block in the gap behind another (Split), a join takes one away          *)
(* (Joined), and malloc, free and compact only move blocks between lists.  *)
(***************************************************************************)
EXTENDS Heap, WellFoundedInduction, TLAPS

(* The region is cut into the blocks of B, with sizes s. *)
After(s, b) == b + s[b] + HdrSize
Tile(B, s) ==
  /\ B \subseteq Offsets /\ s \in [Offsets -> 0 .. HeapSize]
  /\ \A b \in B : s[b] % 4 = 0 /\ s[b] >= 4 /\ After(s, b) \in B \cup {HeapSize}
  /\ \A b, c \in B : b < c => After(s, b) <= c

(* A heap, and one with owners that asked for w. *)
Listed(l) == {l[i] : i \in DOMAIN l}
BlocksOf(h) == Listed(h.pmbFree) \cup h.pmbUsed
WellLaid(h) ==
  /\ h \in Heaps
  /\ IsInjective(h.pmbFree) /\ Listed(h.pmbFree) \cap h.pmbUsed = {}
  /\ Tile(BlocksOf(h), h.uSize)
Good(h, w) ==
  /\ WellLaid(h) /\ w \in [Offsets -> 0 .. HeapSize]
  /\ \A b \in h.pmbUsed : w[b] > 0 /\ h.uSize[b] >= w[b]

IInv ==
  /\ acHeap \in BOOLEAN /\ wild \in BOOLEAN
  /\ Good(heap, want)
  /\ IF acHeap THEN 0 \in BlocksOf(heap) ELSE heap.pmbUsed = {} /\ heap.pmbFree = <<>>
  /\ iFreed \in 0 .. 2
  /\ \/ pmb = 0
     \/ pmb \in 2 .. Len(heap.pmbFree) /\ iFreed < 2

(***************************************************************************)
(* The region.                                                             *)
(***************************************************************************)

(* The offsets of headers are the multiples of 4 inside the region. *)
LEMMA OffsetFacts ==
  \A x : x \in Offsets <=> x \in Nat /\ x % 4 = 0 /\ x < HeapSize
  <1>1. HeapSize \in Nat /\ HeapSize % 4 = 0
    BY HeapAssumption
  <1>2. ASSUME NEW x \in Offsets PROVE x \in Nat /\ x % 4 = 0 /\ x < HeapSize
    BY <1>1, <1>2 DEF Offsets
  <1>3. ASSUME NEW x \in Nat, x % 4 = 0, x < HeapSize PROVE x \in Offsets
    <2>1. /\ x \div 4 \in 0 .. (HeapSize \div 4) - 1
          /\ x = 4 * (x \div 4)
      BY <1>1, <1>3
    <2> QED BY <2>1 DEF Offsets
  <1> QED BY <1>2, <1>3

(* Blocks and sizes are numbers, and blocks end within the region. *)
LEMMA TileFacts ==
  ASSUME NEW B, NEW s, Tile(B, s), NEW b \in B
  PROVE  /\ b \in Nat /\ b % 4 = 0 /\ b < HeapSize /\ b \in Offsets
         /\ s[b] \in Nat /\ s[b] % 4 = 0 /\ s[b] >= 4
         /\ After(s, b) \in Nat /\ After(s, b) <= HeapSize
         /\ After(s, b) = b + s[b] + HdrSize
  <1>1. b \in Offsets /\ s[b] \in 0 .. HeapSize /\ HeapSize \in Nat /\ HdrSize \in Nat
    BY HeapAssumption DEF Tile
  <1>2. \A c \in B \cup {HeapSize} : c \in Nat /\ c <= HeapSize
    BY <1>1, OffsetFacts DEF Tile
  <1>3. s[b] % 4 = 0 /\ s[b] >= 4 /\ After(s, b) \in B \cup {HeapSize}
    BY DEF Tile
  <1> QED BY <1>1, <1>2, <1>3, OffsetFacts DEF After

(* make_new_free: a block is cut in two. *)
LEMMA Split ==
  ASSUME NEW B, NEW s, Tile(B, s), NEW b \in B,
         NEW r \in Nat, r % 4 = 0, r >= 4, r + HdrSize + 4 <= s[b],
         NEW new, new = b + HdrSize + r,
         NEW s2, s2 = [s EXCEPT ![b] = r, ![new] = s[b] - (r + HdrSize)]
  PROVE  new \in Offsets \ B /\ Tile(B \cup {new}, s2)
  <1>1. /\ HdrSize \in Nat \ {0} /\ HdrSize % 4 = 0 /\ HeapSize \in Nat
        /\ s \in [Offsets -> 0 .. HeapSize]
    BY HeapAssumption DEF Tile
  <1>2. /\ b \in Nat /\ b % 4 = 0 /\ b < HeapSize /\ b \in Offsets
        /\ s[b] \in Nat /\ s[b] % 4 = 0
        /\ After(s, b) = b + s[b] + HdrSize /\ After(s, b) <= HeapSize
        /\ After(s, b) \in Nat
    BY TileFacts
  <1>3. new \in Nat /\ new % 4 = 0 /\ new > b /\ new < After(s, b) /\ new < HeapSize
    BY <1>1, <1>2
  <1>4. new \in Offsets
    BY <1>3, OffsetFacts
  <1>5. new \notin B
    BY <1>2, <1>3 DEF Tile
  <1>6. /\ s2 \in [Offsets -> 0 .. HeapSize] /\ s2[b] = r
        /\ s2[new] = s[b] - (r + HdrSize)
        /\ \A c \in Offsets : c # b /\ c # new => s2[c] = s[c]
    <2>1. r \in 0 .. HeapSize /\ s[b] - (r + HdrSize) \in 0 .. HeapSize
      BY <1>1, <1>2
    <2> QED BY <1>1, <1>2, <1>3, <1>4, <2>1
  <1>7. /\ After(s2, b) = new /\ After(s2, new) = After(s, b)
        /\ \A c \in B : c # b => After(s2, c) = After(s, c)
    <2>1. \A c \in B : c # b => s2[c] = s[c]
      BY <1>5, <1>6 DEF Tile
    <2>2. After(s2, b) = b + r + HdrSize
      BY <1>6 DEF After
    <2>3. After(s2, new) = new + (s[b] - (r + HdrSize)) + HdrSize
      BY <1>6 DEF After
    <2>4. \A c \in B : c # b => After(s2, c) = After(s, c)
      BY <2>1 DEF After
    <2>5. After(s2, b) = new
      BY <1>1, <1>2, <2>2
    <2>6. After(s2, new) = After(s, b)
      BY <1>1, <1>2, <2>3
    <2> QED BY <2>4, <2>5, <2>6
  <1>8. \A c \in B \cup {new} : s2[c] % 4 = 0 /\ s2[c] >= 4
    <2>1. s2[new] % 4 = 0 /\ s2[new] >= 4
      BY <1>1, <1>2, <1>6
    <2>2. \A c \in B : c # b => s2[c] % 4 = 0 /\ s2[c] >= 4
      BY <1>5, <1>6 DEF Tile
    <2> QED BY <1>6, <2>1, <2>2
  <1>9. \A c \in B \cup {new} : After(s2, c) \in B \cup {new, HeapSize}
    BY <1>7 DEF Tile
  <1>10. ASSUME NEW c \in B \cup {new}, NEW d \in B \cup {new}, c < d
         PROVE  After(s2, c) <= d
    <2>1. CASE c = new /\ d = new
      BY <1>3, <1>10, <2>1
    <2>2. CASE c = new /\ d \in B
      BY <1>2, <1>3, <1>7, <1>10, <2>2, TileFacts DEF Tile
    <2>3. CASE c = b /\ d \in B
      <3>1. After(s, b) <= d /\ d \in Nat
        BY <1>10, <2>3, TileFacts DEF Tile
      <3> QED BY <1>2, <1>3, <1>7, <2>3, <3>1
    <2>4. CASE c = b /\ d = new
      BY <1>3, <1>7, <2>4
    <2>5. CASE c \in B /\ c # b /\ d \in B
      BY <1>7, <1>10, <2>5 DEF Tile
    <2>6. CASE c \in B /\ c # b /\ d = new
      <3>1. c \in Nat /\ After(s, c) \in Nat
        BY <2>6, TileFacts
      <3>2. c < b
        <4>1. ASSUME c > b PROVE FALSE
          <5>1. After(s, b) <= c
            BY <2>6, <4>1, TileFacts DEF Tile
          <5> QED BY <1>2, <1>3, <1>10, <2>6, <3>1, <5>1
        <4> QED BY <1>2, <2>6, <3>1, <4>1
      <3>3. After(s, c) <= b
        BY <2>6, <3>2 DEF Tile
      <3>4. After(s2, c) = After(s, c)
        BY <1>7, <2>6
      <3> QED BY <1>2, <1>3, <2>6, <3>1, <3>3, <3>4
    <2> QED BY <2>1, <2>2, <2>3, <2>4, <2>5, <2>6
  <1>11. B \cup {new} \subseteq Offsets
    BY <1>4 DEF Tile
  <1> QED BY <1>4, <1>5, <1>6, <1>8, <1>9, <1>10, <1>11 DEF Tile

(* compact: a block takes in the one behind it. *)
LEMMA Joined ==
  ASSUME NEW B, NEW s, Tile(B, s), NEW b \in B, NEW c \in B, After(s, b) = c,
         NEW s2, s2 = [s EXCEPT ![b] = s[b] + HdrSize + s[c], ![c] = 0]
  PROVE  Tile(B \ {c}, s2) /\ b < c
  <1>1. /\ HdrSize \in Nat \ {0} /\ HdrSize % 4 = 0 /\ HeapSize \in Nat
        /\ s \in [Offsets -> 0 .. HeapSize]
    BY HeapAssumption DEF Tile
  <1>2. /\ b \in Nat /\ b \in Offsets /\ s[b] \in Nat /\ s[b] % 4 = 0 /\ s[b] >= 4
        /\ c = b + s[b] + HdrSize
    BY TileFacts
  <1>3. /\ c \in Nat /\ c \in Offsets /\ s[c] \in Nat /\ s[c] % 4 = 0 /\ s[c] >= 4
        /\ After(s, c) = c + s[c] + HdrSize /\ After(s, c) <= HeapSize
    BY TileFacts
  <1>4. b < c
    BY <1>1, <1>2
  <1>5. s[b] + HdrSize + s[c] \in 0 .. HeapSize
    BY <1>1, <1>2, <1>3
  <1>6. /\ s2 \in [Offsets -> 0 .. HeapSize] /\ s2[b] = s[b] + HdrSize + s[c]
        /\ \A d \in Offsets : d # b /\ d # c => s2[d] = s[d]
    BY <1>1, <1>2, <1>3, <1>4, <1>5
  <1>7. /\ After(s2, b) = After(s, c)
        /\ \A d \in B : d # b /\ d # c => After(s2, d) = After(s, d) /\ s2[d] = s[d]
    <2>1. \A d \in B : d # b /\ d # c => s2[d] = s[d]
      BY <1>6 DEF Tile
    <2>2. After(s2, b) = b + (s[b] + HdrSize + s[c]) + HdrSize
      BY <1>6 DEF After
    <2>3. \A d \in B : d # b /\ d # c => After(s2, d) = After(s, d)
      BY <2>1 DEF After
    <2>4. After(s2, b) = After(s, c)
      BY <1>1, <1>2, <1>3, <2>2
    <2> QED BY <2>1, <2>3, <2>4
  <1>8. \A d \in B \ {c} : s2[d] % 4 = 0 /\ s2[d] >= 4
    <2>1. s2[b] % 4 = 0 /\ s2[b] >= 4
      BY <1>1, <1>2, <1>3, <1>6
    <2> QED BY <1>7, <2>1 DEF Tile
  <1>9. ASSUME NEW d \in B \ {c} PROVE After(s2, d) \in (B \ {c}) \cup {HeapSize}
    <2>1. CASE d = b
      BY <1>1, <1>3, <1>7, <2>1 DEF Tile
    <2>2. CASE d # b
      <3>1. /\ d \in Nat /\ After(s, d) \in Nat /\ After(s, d) > d
            /\ After(s, d) \in B \cup {HeapSize}
        <4>1. d \in Nat /\ s[d] \in Nat /\ After(s, d) = d + s[d] + HdrSize
          BY TileFacts
        <4> QED BY <1>1, <4>1 DEF Tile
      <3>2. After(s, d) # c
        <4>1. CASE d < b
          <5>1. After(s, d) <= b
            BY <4>1 DEF Tile
          <5> QED BY <1>2, <1>4, <3>1, <5>1
        <4>2. CASE d > b
          <5>1. c <= d
            BY <4>2 DEF Tile
          <5> QED BY <1>3, <3>1, <5>1
        <4> QED BY <1>2, <2>2, <3>1, <4>1, <4>2
      <3> QED BY <1>7, <2>2, <3>1, <3>2
    <2> QED BY <2>1, <2>2
  <1>10. ASSUME NEW d \in B \ {c}, NEW e \in B \ {c}, d < e
         PROVE  After(s2, d) <= e
    <2>1. CASE d = b
      <3>1. c <= e /\ e \in Nat
        BY <1>10, <2>1, TileFacts DEF Tile
      <3>2. c < e
        BY <1>3, <3>1
      <3> QED BY <1>7, <2>1, <3>2 DEF Tile
    <2>2. CASE d # b
      BY <1>7, <1>10, <2>2 DEF Tile
    <2> QED BY <2>1, <2>2
  <1> QED BY <1>4, <1>6, <1>8, <1>9, <1>10 DEF Tile

(***************************************************************************)
(* The free list.                                                          *)
(***************************************************************************)

(* Its members are the elements of the sequence. *)
LEMMA ListedFacts ==
  ASSUME NEW S, NEW l \in Seq(S)
  PROVE  /\ DOMAIN l = 1 .. Len(l) /\ Len(l) \in Nat
         /\ \A i \in DOMAIN l : l[i] \in Listed(l) /\ l[i] \in S
         /\ Listed(l) \subseteq S
  BY DEF Listed

(* A block takes the place of another one in the list. *)
LEMMA Replaced ==
  ASSUME NEW S, NEW l \in Seq(S), IsInjective(l), NEW i \in DOMAIN l,
         NEW x \in S, x \notin Listed(l),
         NEW m, DOMAIN m = DOMAIN l, m[i] = x, \A j \in DOMAIN l : j # i => m[j] = l[j]
  PROVE  /\ IsInjective(m)
         /\ Listed(m) = (Listed(l) \ {l[i]}) \cup {x}
  <1>1. IsInjective(m)
    BY DEF IsInjective, Listed
  <1>2. \A j \in DOMAIN l : j # i => l[j] # l[i]
    BY DEF IsInjective
  <1>3. Listed(m) = (Listed(l) \ {l[i]}) \cup {x}
    BY <1>2 DEF Listed
  <1> QED BY <1>1, <1>3

(* What follows the first of two sequences in their concatenation. *)
LEMMA ConcatRight ==
  ASSUME NEW S, NEW P \in Seq(S), NEW Q \in Seq(S), NEW j \in Int,
         Len(P) < j, j <= Len(P) + Len(Q)
  PROVE  (P \o Q)[j] = Q[j - Len(P)]
  <1>1. Len(P) \in Nat /\ Len(Q) \in Nat /\ j \in 1 .. Len(P) + Len(Q)
    OBVIOUS
  <1> QED BY <1>1

(* A block is taken out of the list. *)
LEMMA TakenOut ==
  ASSUME NEW S, NEW l \in Seq(S), IsInjective(l), NEW i \in DOMAIN l
  PROVE  /\ RemoveAt(l, i) \in Seq(S) /\ IsInjective(RemoveAt(l, i))
         /\ Listed(RemoveAt(l, i)) = Listed(l) \ {l[i]}
  <1> DEFINE R == RemoveAt(l, i)
             s(j) == IF j < i THEN j ELSE j + 1
  <1>1. DOMAIN l = 1 .. Len(l) /\ Len(l) \in Nat /\ i \in 1 .. Len(l)
    OBVIOUS
  <1>2. R = SubSeq(l, 1, i - 1) \o SubSeq(l, i + 1, Len(l))
    BY DEF RemoveAt
  <1>3. /\ SubSeq(l, 1, i - 1) \in Seq(S)
        /\ SubSeq(l, i + 1, Len(l)) \in Seq(S)
        /\ Len(SubSeq(l, 1, i - 1)) = i - 1
        /\ Len(SubSeq(l, i + 1, Len(l))) = Len(l) - i
    BY <1>1
  <1>4. R \in Seq(S) /\ DOMAIN R = 1 .. Len(l) - 1
    BY <1>1, <1>2, <1>3
  <1>5. \A j \in DOMAIN R : s(j) \in DOMAIN l /\ s(j) # i /\ R[j] = l[s(j)]
    <2>1. TAKE j \in DOMAIN R
    <2>2. j \in 1 .. Len(l) - 1
      BY <1>4
    <2>3. CASE j < i
      <3>1. R[j] = SubSeq(l, 1, i - 1)[j]
        BY <1>1, <1>2, <1>3, <2>2, <2>3
      <3>2. SubSeq(l, 1, i - 1)[j] = l[j]
        BY <1>1, <2>2, <2>3
      <3> QED BY <1>1, <2>2, <2>3, <3>1, <3>2
    <2>4. CASE j >= i
      <3>1. R[j] = SubSeq(l, i + 1, Len(l))[j - (i - 1)]
        <4>1. PICK P \in Seq(S), Q \in Seq(S) :
                /\ P = SubSeq(l, 1, i - 1) /\ Q = SubSeq(l, i + 1, Len(l))
                /\ Len(P) = i - 1 /\ Len(Q) = Len(l) - i
          BY <1>3
        <4>2. R = P \o Q
          BY <1>2, <4>1
        <4>3. j \in Int /\ Len(P) < j /\ j <= Len(P) + Len(Q)
          BY <1>1, <2>2, <2>4, <4>1
        <4>4. (P \o Q)[j] = Q[j - Len(P)]
          BY <4>3, ConcatRight
        <4> QED BY <4>1, <4>2, <4>4
      <3>2. SubSeq(l, i + 1, Len(l))[j - (i - 1)] = l[j + 1]
        BY <1>1, <2>2, <2>4
      <3> QED BY <1>1, <2>2, <2>4, <3>1, <3>2
    <2> QED BY <1>1, <2>2, <2>3, <2>4
  <1>6. \A k \in DOMAIN l : k # i => \E j \in DOMAIN R : s(j) = k
    <2>1. TAKE k \in DOMAIN l
    <2>2. HAVE k # i
    <2>3. CASE k < i
      BY <1>1, <1>4, <2>3
    <2>4. CASE k > i
      <3>1. k - 1 \in DOMAIN R /\ s(k - 1) = k
        BY <1>1, <1>4, <2>4
      <3> QED BY <3>1
    <2> QED BY <1>1, <2>2, <2>3, <2>4
  <1>7. ASSUME NEW j \in DOMAIN R, NEW k \in DOMAIN R, s(j) = s(k) PROVE j = k
    BY <1>4, <1>7
  <1> HIDE DEF R, s
  <1>8. IsInjective(R)
    BY <1>5, <1>7 DEF IsInjective
  <1>9. \A k \in DOMAIN l : k # i => \E j \in DOMAIN R : R[j] = l[k]
    BY <1>5, <1>6
  <1>10. \A k \in DOMAIN l : k # i <=> l[k] # l[i]
    BY DEF IsInjective
  <1>11. Listed(R) = Listed(l) \ {l[i]}
    BY <1>5, <1>9, <1>10 DEF Listed
  <1> QED BY <1>4, <1>8, <1>11 DEF R

(* A block is put in front of the list. *)
LEMMA PutInFront ==
  ASSUME NEW S, NEW l \in Seq(S), IsInjective(l), NEW x \in S, x \notin Listed(l)
  PROVE  /\ <<x>> \o l \in Seq(S) /\ IsInjective(<<x>> \o l)
         /\ Listed(<<x>> \o l) = Listed(l) \cup {x}
  <1> DEFINE m == <<x>> \o l
  <1>1. <<x>> \in Seq(S) /\ Len(<<x>>) = 1 /\ <<x>>[1] = x
    OBVIOUS
  <1>2. DOMAIN l = 1 .. Len(l) /\ Len(l) \in Nat
    OBVIOUS
  <1>3. m \in Seq(S) /\ DOMAIN m = 1 .. Len(l) + 1
    BY <1>1, <1>2
  <1>4. m[1] = x
    BY <1>1, <1>2
  <1>5. \A i \in 1 .. Len(l) : m[i + 1] = l[i]
    BY <1>1, <1>2
  <1> HIDE DEF m
  <1>6. \A i \in DOMAIN m : i # 1 => i - 1 \in DOMAIN l /\ m[i] = l[i - 1]
    <2>1. TAKE i \in DOMAIN m
    <2>2. HAVE i # 1
    <2>3. i - 1 \in 1 .. Len(l) /\ (i - 1) + 1 = i
      BY <1>2, <1>3, <2>2
    <2> QED BY <1>2, <1>5, <2>3
  <1>7. ASSUME NEW i \in DOMAIN m, NEW j \in DOMAIN m, m[i] = m[j]
        PROVE  i = j
    <2>1. CASE i = 1
      BY <1>4, <1>6, <1>7, <2>1 DEF Listed
    <2>2. CASE j = 1
      BY <1>4, <1>6, <1>7, <2>2 DEF Listed
    <2>3. CASE i # 1 /\ j # 1
      <3>1. i - 1 = j - 1
        BY <1>6, <1>7, <2>3 DEF IsInjective
      <3> QED BY <1>2, <1>3, <3>1
    <2> QED BY <2>1, <2>2, <2>3
  <1>8. ASSUME NEW y PROVE y \in Listed(m) <=> y \in Listed(l) \cup {x}
    <2>1. ASSUME y \in Listed(m) PROVE y \in Listed(l) \cup {x}
      BY <1>4, <1>6, <2>1 DEF Listed
    <2>2. ASSUME y \in Listed(l) PROVE y \in Listed(m)
      <3>1. PICK i \in DOMAIN l : y = l[i]
        BY <2>2 DEF Listed
      <3>2. i + 1 \in DOMAIN m /\ m[i + 1] = y
        BY <1>2, <1>3, <1>5, <3>1
      <3> QED BY <3>2 DEF Listed
    <2>3. x \in Listed(m)
      BY <1>2, <1>3, <1>4 DEF Listed
    <2> QED BY <2>1, <2>2, <2>3
  <1> QED BY <1>3, <1>7, <1>8 DEF m, IsInjective

(* The head is taken off the list. *)
LEMMA HeadTaken ==
  ASSUME NEW S, NEW l \in Seq(S), IsInjective(l), l # <<>>
  PROVE  /\ Tail(l) \in Seq(S) /\ IsInjective(Tail(l))
         /\ Listed(Tail(l)) = Listed(l) \ {l[1]}
  <1>1. /\ DOMAIN l = 1 .. Len(l) /\ Len(l) \in Nat \ {0}
    OBVIOUS
  <1>2. /\ Tail(l) \in Seq(S) /\ DOMAIN Tail(l) = 1 .. Len(l) - 1
        /\ \A i \in 1 .. Len(l) - 1 : Tail(l)[i] = l[i + 1]
    BY <1>1
  <1> DEFINE m == Tail(l)
  <1>3. m \in Seq(S) /\ DOMAIN m = 1 .. Len(l) - 1 /\ \A i \in DOMAIN m : m[i] = l[i + 1]
    BY <1>2
  <1> HIDE DEF m
  <1>4. \A i \in DOMAIN m : i + 1 \in DOMAIN l /\ i + 1 # 1
    BY <1>1, <1>3
  <1>5. ASSUME NEW i \in DOMAIN m, NEW j \in DOMAIN m, m[i] = m[j] PROVE i = j
    <2>1. i + 1 = j + 1
      BY <1>3, <1>4, <1>5 DEF IsInjective
    <2> QED BY <1>3, <2>1
  <1>6. \A k \in DOMAIN l : k # 1 <=> l[k] # l[1]
    BY <1>1 DEF IsInjective
  <1>7. \A k \in DOMAIN l : k # 1 => \E i \in DOMAIN m : m[i] = l[k]
    <2>1. TAKE k \in DOMAIN l
    <2>2. HAVE k # 1
    <2>3. k - 1 \in DOMAIN m /\ (k - 1) + 1 = k
      BY <1>1, <1>3, <2>2
    <2> QED BY <1>3, <2>3
  <1>8. Listed(m) = Listed(l) \ {l[1]}
    BY <1>3, <1>4, <1>6, <1>7 DEF Listed
  <1> QED BY <1>3, <1>5, <1>8 DEF m, IsInjective

(***************************************************************************)
(* malloc, free and compact on a heap h whose owners asked for w.          *)
(***************************************************************************)

(* What an unsigned can hold. *)
LEMMA Wraps ==
  ASSUME NEW x \in Int
  PROVE  x % Word \in 0 .. Word - 1
  BY HeapAssumption

(* The parts of a heap. *)
LEMMA HeapParts ==
  ASSUME NEW h, NEW w, Good(h, w)
  PROVE  /\ h.pmbFree \in Seq(Offsets) /\ h.pmbUsed \subseteq Offsets
         /\ h.uSize \in [Offsets -> 0 .. HeapSize] /\ h.uMemFree \in 0 .. Word - 1
         /\ h = [pmbFree |-> h.pmbFree, pmbUsed |-> h.pmbUsed, uSize |-> h.uSize,
                 uMemFree |-> h.uMemFree]
         /\ Listed(h.pmbFree) \subseteq BlocksOf(h) /\ h.pmbUsed \subseteq BlocksOf(h)
         /\ IsInjective(h.pmbFree) /\ Listed(h.pmbFree) \cap h.pmbUsed = {}
         /\ Tile(BlocksOf(h), h.uSize)
         /\ w \in [Offsets -> 0 .. HeapSize]
         /\ \A b \in h.pmbUsed : w[b] > 0 /\ h.uSize[b] >= w[b]
  BY DEF Good, WellLaid, Heaps, BlocksOf

(* A request is rounded up to a multiple of 4. *)
LEMMA AlignFacts ==
  ASSUME NEW n \in Nat, n # 0
  PROVE  Align(n) \in Nat /\ Align(n) >= n /\ Align(n) >= 4 /\ Align(n) % 4 = 0
  BY DEF Align

(* npvAllocateBlock: the i-th free block is given out for a request of r.   *)
(* The other owned blocks are left alone.                                   *)
LEMMA TakenFromFree ==
  ASSUME NEW h, NEW w, Good(h, w), NEW i \in DOMAIN h.pmbFree,
         NEW r \in Nat, r % 4 = 0, r >= 4, h.uSize[h.pmbFree[i]] >= r,
         NEW h2, h2 = npvAllocateBlock(h, i, r)
  PROVE  /\ WellLaid(h2) /\ h2.uSize[h.pmbFree[i]] >= r
         /\ h2.pmbUsed = h.pmbUsed \cup {h.pmbFree[i]}
         /\ h.pmbFree[i] \notin h.pmbUsed /\ h.pmbFree[i] \in Offsets
         /\ BlocksOf(h) \subseteq BlocksOf(h2)
         /\ \A c \in h.pmbUsed : h2.uSize[c] = h.uSize[c]
  <1> DEFINE b == h.pmbFree[i]
             new == b + HdrSize + r
             s == h.uSize
             B == BlocksOf(h)
  <1>1. /\ h.pmbFree \in Seq(Offsets) /\ h.pmbUsed \subseteq Offsets
        /\ s \in [Offsets -> 0 .. HeapSize] /\ h.uMemFree \in 0 .. Word - 1
        /\ Listed(h.pmbFree) \subseteq B /\ h.pmbUsed \subseteq B
        /\ IsInjective(h.pmbFree) /\ Listed(h.pmbFree) \cap h.pmbUsed = {}
        /\ Tile(B, s) /\ w \in [Offsets -> 0 .. HeapSize]
        /\ \A c \in h.pmbUsed : w[c] > 0 /\ s[c] >= w[c]
    BY HeapParts
  <1>2. b \in Listed(h.pmbFree) /\ b \in Offsets /\ b \notin h.pmbUsed /\ b \in B
    BY <1>1, ListedFacts
  <1>3. HdrSize \in Nat \ {0} /\ HeapSize \in Nat /\ Word \in Nat
    BY HeapAssumption
  <1>4. CASE Leftover(h, b, r)
    <2> DEFINE s2 == make_new_free(h, b, r)
               l2 == [h.pmbFree EXCEPT ![i] = new]
               u2 == (h.uMemFree - (s2[b] + HdrSize)) % Word
    <2>1. r + HdrSize + 4 <= s[b]
      BY <1>3, <1>4 DEF Leftover, MIN_Leftover, MIN_FragSize
    <2>2. s2 = [s EXCEPT ![b] = r, ![new] = s[b] - (r + HdrSize)]
      BY DEF make_new_free
    <2>3. h2 = [pmbFree |-> l2, pmbUsed |-> h.pmbUsed \cup {b}, uSize |-> s2,
                uMemFree |-> u2]
      BY <1>4 DEF npvAllocateBlock
    <2> HIDE DEF s2, l2, u2, new, B, b, s
    <2>4. new = b + HdrSize + r
      BY DEF new
    <2>5. new \in Offsets \ B /\ Tile(B \cup {new}, s2)
      BY <1>1, <1>2, <2>1, <2>2, <2>4, Split
    <2>6. /\ l2 \in Seq(Offsets) /\ IsInjective(l2)
          /\ Listed(l2) = (Listed(h.pmbFree) \ {b}) \cup {new}
      <3>1. new \in Offsets /\ new \notin Listed(h.pmbFree)
        BY <1>1, <2>5
      <3>2. /\ l2 \in Seq(Offsets) /\ DOMAIN l2 = DOMAIN h.pmbFree /\ l2[i] = new
            /\ \A j \in DOMAIN h.pmbFree : j # i => l2[j] = h.pmbFree[j]
        BY <1>1, <3>1 DEF l2
      <3>3. b = h.pmbFree[i]
        BY DEF b
      <3> QED BY <1>1, <3>1, <3>2, <3>3, Replaced
    <2>7. s2 \in [Offsets -> 0 .. HeapSize]
      BY <2>5 DEF Tile
    <2>8. s2[b] = r /\ \A c \in B : c # b => s2[c] = s[c]
      <3>1. B \subseteq Offsets /\ new # b
        BY <1>1, <1>2, <2>5 DEF Tile
      <3> QED BY <1>1, <1>2, <2>2, <2>5, <3>1
    <2>9. u2 \in 0 .. Word - 1
      <3>1. h.uMemFree - (s2[b] + HdrSize) \in Int
        BY <1>1, <1>3, <2>8
      <3> QED BY <3>1, Wraps DEF u2
    <2>10. /\ h2.pmbFree = l2 /\ h2.pmbUsed = h.pmbUsed \cup {b} /\ h2.uSize = s2
           /\ h2.uMemFree = u2
      BY <2>3
    <2>11. h2 \in Heaps
      BY <1>1, <1>2, <2>3, <2>6, <2>7, <2>9 DEF Heaps
    <2>12. BlocksOf(h2) = B \cup {new}
      BY <1>2, <2>6, <2>10 DEF BlocksOf, B
    <2>13. Listed(l2) \cap (h.pmbUsed \cup {b}) = {}
      BY <1>1, <1>2, <2>5, <2>6
    <2>14. \A c \in h.pmbUsed : s2[c] = s[c]
      BY <1>1, <1>2, <2>8
    <2>15. WellLaid(h2)
      BY <2>5, <2>6, <2>10, <2>11, <2>12, <2>13 DEF WellLaid
    <2>16. h2.uSize[b] >= r
      BY <2>8, <2>10
    <2> QED BY <1>2, <2>10, <2>12, <2>14, <2>15, <2>16 DEF b, s, B
  <1>5. CASE ~Leftover(h, b, r)
    <2> DEFINE l2 == RemoveAt(h.pmbFree, i)
               u2 == (h.uMemFree - (s[b] + HdrSize)) % Word
    <2>1. h2 = [pmbFree |-> l2, pmbUsed |-> h.pmbUsed \cup {b}, uSize |-> s,
                uMemFree |-> u2]
      BY <1>5 DEF npvAllocateBlock
    <2>2. s[b] >= r
      OBVIOUS
    <2> HIDE DEF l2, u2, new, B, b, s
    <2>3. /\ l2 \in Seq(Offsets) /\ IsInjective(l2)
          /\ Listed(l2) = Listed(h.pmbFree) \ {b}
      BY <1>1, TakenOut DEF l2, b
    <2>4. u2 \in 0 .. Word - 1
      <3>1. h.uMemFree - (s[b] + HdrSize) \in Int
        BY <1>1, <1>2, <1>3
      <3> QED BY <3>1, Wraps DEF u2
    <2>5. /\ h2.pmbFree = l2 /\ h2.pmbUsed = h.pmbUsed \cup {b} /\ h2.uSize = s
          /\ h2.uMemFree = u2
      BY <2>1
    <2>6. h2 \in Heaps
      BY <1>1, <1>2, <2>1, <2>3, <2>4 DEF Heaps
    <2>7. BlocksOf(h2) = B
      BY <1>2, <2>3, <2>5 DEF BlocksOf, B
    <2>8. Listed(l2) \cap (h.pmbUsed \cup {b}) = {}
      BY <1>1, <2>3
    <2>9. WellLaid(h2)
      BY <1>1, <2>3, <2>5, <2>6, <2>7, <2>8 DEF WellLaid
    <2> QED BY <1>2, <2>2, <2>5, <2>7, <2>9 DEF b, s, B
  <1> QED BY <1>4, <1>5

(* ... for an owner who asked for n, which r is rounded up from. *)
LEMMA Allocated ==
  ASSUME NEW h, NEW w, Good(h, w), NEW i \in DOMAIN h.pmbFree,
         NEW r \in Nat, r % 4 = 0, r >= 4, h.uSize[h.pmbFree[i]] >= r,
         NEW n \in 1 .. HeapSize, n <= r,
         NEW h2, h2 = npvAllocateBlock(h, i, r),
         NEW w2 \in [Offsets -> 0 .. HeapSize], w2[h.pmbFree[i]] = n,
         \A c \in Offsets : c # h.pmbFree[i] => w2[c] = w[c]
  PROVE  /\ Good(h2, w2)
         /\ h2.pmbUsed = h.pmbUsed \cup {h.pmbFree[i]}
         /\ h.pmbFree[i] \notin h.pmbUsed /\ h.pmbFree[i] \in Offsets
         /\ BlocksOf(h) \subseteq BlocksOf(h2)
         /\ \A c \in h.pmbUsed : h2.uSize[c] = h.uSize[c] /\ w2[c] = w[c]
  <1>1. /\ WellLaid(h2) /\ h2.uSize[h.pmbFree[i]] >= r
        /\ h2.pmbUsed = h.pmbUsed \cup {h.pmbFree[i]}
        /\ h.pmbFree[i] \notin h.pmbUsed /\ h.pmbFree[i] \in Offsets
        /\ BlocksOf(h) \subseteq BlocksOf(h2)
        /\ \A c \in h.pmbUsed : h2.uSize[c] = h.uSize[c]
    BY TakenFromFree
  <1>2. /\ h.pmbUsed \subseteq Offsets
        /\ \A c \in h.pmbUsed : w[c] > 0 /\ h.uSize[c] >= w[c]
    BY HeapParts
  <1>3. \A c \in h.pmbUsed : w2[c] = w[c]
    BY <1>1, <1>2
  <1>4. h2.uSize[h.pmbFree[i]] >= n /\ n > 0
    <2>1. h2.uSize[h.pmbFree[i]] \in Nat
      BY <1>1, HeapAssumption DEF WellLaid, Heaps
    <2> QED BY <1>1, <2>1, HeapAssumption
  <1>5. \A c \in h2.pmbUsed : w2[c] > 0 /\ h2.uSize[c] >= w2[c]
    BY <1>1, <1>2, <1>3, <1>4
  <1> QED BY <1>1, <1>3, <1>5 DEF Good

(* Release: an owned block goes to the head of the free list. *)
LEMMA Released ==
  ASSUME NEW h, NEW w, Good(h, w), NEW b \in h.pmbUsed,
         NEW h2, h2 = Release(h, b), NEW w2 \in [Offsets -> 0 .. HeapSize],
         \A c \in Offsets : c # b => w2[c] = w[c]
  PROVE  /\ Good(h2, w2) /\ BlocksOf(h2) = BlocksOf(h)
         /\ h2.pmbUsed = h.pmbUsed \ {b}
         /\ h2.uSize = h.uSize /\ \A c \in h2.pmbUsed : w2[c] = w[c]
  <1>1. /\ h.pmbFree \in Seq(Offsets) /\ h.pmbUsed \subseteq Offsets
        /\ h.uSize \in [Offsets -> 0 .. HeapSize] /\ h.uMemFree \in 0 .. Word - 1
        /\ h = [pmbFree |-> h.pmbFree, pmbUsed |-> h.pmbUsed, uSize |-> h.uSize,
                uMemFree |-> h.uMemFree]
        /\ IsInjective(h.pmbFree) /\ Listed(h.pmbFree) \cap h.pmbUsed = {}
        /\ Tile(BlocksOf(h), h.uSize) /\ w \in [Offsets -> 0 .. HeapSize]
        /\ \A c \in h.pmbUsed : w[c] > 0 /\ h.uSize[c] >= w[c]
    BY HeapParts
  <1> DEFINE l2 == <<b>> \o h.pmbFree
             u2 == (h.uMemFree + h.uSize[b] + HdrSize) % Word
  <1>2. h2 = [pmbFree |-> l2, pmbUsed |-> h.pmbUsed \ {b}, uSize |-> h.uSize,
              uMemFree |-> u2]
    BY <1>1 DEF Release
  <1>3. b \in Offsets /\ b \notin Listed(h.pmbFree)
    BY <1>1
  <1>4. /\ l2 \in Seq(Offsets) /\ IsInjective(l2)
        /\ Listed(l2) = Listed(h.pmbFree) \cup {b}
    BY <1>1, <1>3, PutInFront
  <1>5. u2 \in 0 .. Word - 1
    <2>1. h.uMemFree + h.uSize[b] + HdrSize \in Int
      BY <1>1, <1>3, HeapAssumption
    <2> QED BY <2>1, Wraps
  <1>6. /\ w2 \in [Offsets -> 0 .. HeapSize]
        /\ \A c \in Offsets : c # b => w2[c] = w[c]
    OBVIOUS
  <1> HIDE DEF l2, u2
  <1>7. h2.pmbFree = l2 /\ h2.pmbUsed = h.pmbUsed \ {b} /\ h2.uSize = h.uSize
    BY <1>2
  <1>8. h2 \in Heaps
    BY <1>1, <1>2, <1>4, <1>5 DEF Heaps
  <1>9. BlocksOf(h2) = BlocksOf(h)
    BY <1>4, <1>7 DEF BlocksOf
  <1>10. Listed(h2.pmbFree) \cap h2.pmbUsed = {}
    BY <1>1, <1>4, <1>7
  <1>11. \A c \in h2.pmbUsed : w2[c] = w[c]
    BY <1>1, <1>6, <1>7
  <1>12. Good(h2, w2)
    BY <1>1, <1>4, <1>6, <1>7, <1>8, <1>9, <1>10, <1>11 DEF Good, WellLaid
  <1> QED BY <1>7, <1>9, <1>11, <1>12

(* What compact makes of the heap when b takes in c, and l2 is left of the  *)
(* free list.                                                               *)
Merged(h, b, c, l2) == [h EXCEPT !.uSize = Join(h, b, c), !.pmbFree = l2]

(* compact: of two free blocks b and c, one behind the other, c is taken    *)
(* off the list and becomes part of b.                                      *)
LEMMA Coalesced ==
  ASSUME NEW h, NEW w, Good(h, w),
         NEW b \in Listed(h.pmbFree), NEW c \in Listed(h.pmbFree), after(h, b) = c,
         NEW l2 \in Seq(Offsets), IsInjective(l2), Listed(l2) = Listed(h.pmbFree) \ {c},
         NEW h2, h2 = Merged(h, b, c, l2)
  PROVE  /\ Good(h2, w) /\ h2.pmbUsed = h.pmbUsed /\ h2.pmbFree = l2
         /\ BlocksOf(h2) = BlocksOf(h) \ {c} /\ c # 0
         /\ \A d \in h.pmbUsed : h2.uSize[d] = h.uSize[d]
  <1> DEFINE s2 == Join(h, b, c)
  <1>1. /\ h.pmbFree \in Seq(Offsets) /\ h.pmbUsed \subseteq Offsets
        /\ h.uSize \in [Offsets -> 0 .. HeapSize] /\ h.uMemFree \in 0 .. Word - 1
        /\ h = [pmbFree |-> h.pmbFree, pmbUsed |-> h.pmbUsed, uSize |-> h.uSize,
                uMemFree |-> h.uMemFree]
        /\ Listed(h.pmbFree) \subseteq BlocksOf(h) /\ h.pmbUsed \subseteq BlocksOf(h)
        /\ IsInjective(h.pmbFree) /\ Listed(h.pmbFree) \cap h.pmbUsed = {}
        /\ Tile(BlocksOf(h), h.uSize) /\ w \in [Offsets -> 0 .. HeapSize]
        /\ \A d \in h.pmbUsed : w[d] > 0 /\ h.uSize[d] >= w[d]
    BY HeapParts
  <1>2. h2 = [pmbFree |-> l2, pmbUsed |-> h.pmbUsed, uSize |-> s2, uMemFree |-> h.uMemFree]
    BY <1>1 DEF Merged
  <1>3. b \in BlocksOf(h) /\ c \in BlocksOf(h) /\ After(h.uSize, b) = c
    BY <1>1 DEF after, After
  <1>4. b \in Nat /\ c \in Nat /\ b \in Offsets /\ c \in Offsets
    BY <1>1, <1>3, TileFacts
  <1>5. s2 = [h.uSize EXCEPT ![b] = h.uSize[b] + HdrSize + h.uSize[c], ![c] = 0]
    BY <1>1, <1>4 DEF Join
  <1> HIDE DEF s2
  <1>6. Tile(BlocksOf(h) \ {c}, s2) /\ b < c
    BY <1>1, <1>3, <1>5, Joined
  <1>7. h2.pmbFree = l2 /\ h2.pmbUsed = h.pmbUsed /\ h2.uSize = s2
    <2>1. h \in Heaps
      BY DEF Good, WellLaid
    <2> QED BY <2>1 DEF Heaps, Merged, s2
  <1>8. s2 \in [Offsets -> 0 .. HeapSize]
    BY <1>6 DEF Tile
  <1>9. h2 \in Heaps
    BY <1>1, <1>2, <1>8 DEF Heaps
  <1>10. c \notin h.pmbUsed /\ b \notin h.pmbUsed
    BY <1>1
  <1>11. BlocksOf(h2) = BlocksOf(h) \ {c}
    BY <1>7, <1>10 DEF BlocksOf
  <1>12. \A d \in h.pmbUsed : s2[d] = h.uSize[d]
    BY <1>1, <1>4, <1>5, <1>10
  <1>13. Good(h2, w)
    <2>1. Listed(h2.pmbFree) \cap h2.pmbUsed = {}
      BY <1>1, <1>7
    <2>2. \A d \in h2.pmbUsed : w[d] > 0 /\ h2.uSize[d] >= w[d]
      BY <1>1, <1>7, <1>12
    <2> QED BY <1>1, <1>6, <1>7, <1>9, <1>11, <2>1, <2>2 DEF Good, WellLaid
  <1> QED BY <1>4, <1>6, <1>7, <1>11, <1>12, <1>13

(***************************************************************************)
(* The actions keep the invariant, and the blocks of others.               *)
(***************************************************************************)

(* What OwnedBlocksKept says of a step. *)
Kept == \A b \in heap.pmbUsed \cap heap'.pmbUsed :
          heap'.uSize[b] = heap.uSize[b] /\ want'[b] = want[b]

(* HeapInit makes one free block of the region. *)
LEMMA HeapInitOK ==
  ASSUME NEW w \in [Offsets -> 0 .. HeapSize]
  PROVE  Good(HeapInit, w) /\ 0 \in BlocksOf(HeapInit) /\ HeapInit.pmbUsed = {}
  <1> DEFINE s == [NoSizes EXCEPT ![0] = HeapSize - HdrSize]
  <1>1. /\ HeapSize \in Nat /\ HdrSize \in Nat \ {0} /\ HdrSize + 4 <= HeapSize
        /\ HeapSize % 4 = 0 /\ HdrSize % 4 = 0 /\ HeapSize < Word /\ Word \in Nat
    BY HeapAssumption
  <1>2. 0 \in Offsets
    BY <1>1, OffsetFacts
  <1>3. s \in [Offsets -> 0 .. HeapSize] /\ s[0] = HeapSize - HdrSize
    BY <1>1, <1>2 DEF NoSizes
  <1>4. HeapInit = [pmbFree |-> <<0>>, pmbUsed |-> {}, uSize |-> s,
                    uMemFree |-> HeapSize - HdrSize]
    BY DEF HeapInit
  <1>5. <<0>> \in Seq(Offsets) /\ IsInjective(<<0>>) /\ Listed(<<0>>) = {0}
    BY <1>2 DEF IsInjective, Listed
  <1> HIDE DEF s
  <1>6. HeapInit.pmbFree = <<0>> /\ HeapInit.pmbUsed = {} /\ HeapInit.uSize = s
    BY <1>4
  <1>7. HeapInit \in Heaps
    BY <1>1, <1>3, <1>4, <1>5 DEF Heaps
  <1>8. BlocksOf(HeapInit) = {0}
    BY <1>5, <1>6 DEF BlocksOf
  <1>9. Tile({0}, s)
    <2>1. After(s, 0) = HeapSize /\ s[0] % 4 = 0 /\ s[0] >= 4
      BY <1>1, <1>3 DEF After
    <2> QED BY <1>2, <1>3, <2>1 DEF Tile
  <1> QED BY <1>5, <1>6, <1>7, <1>8, <1>9 DEF Good, WellLaid

(* The heap malloc works on: the one there is, or a new one. *)
LEMMA RegionOK ==
  ASSUME IInv, NEW yes \in BOOLEAN
  PROVE  /\ Good(Region(yes), want) /\ Region(yes).pmbUsed = heap.pmbUsed
         /\ \A b \in heap.pmbUsed : Region(yes).uSize[b] = heap.uSize[b]
         /\ IF acHeap \/ yes THEN 0 \in BlocksOf(Region(yes))
            ELSE Region(yes).pmbUsed = {} /\ Region(yes).pmbFree = <<>>
  <1>1. Good(heap, want) /\ want \in [Offsets -> 0 .. HeapSize] /\ acHeap \in BOOLEAN
    BY DEF IInv, Good
  <1>2. CASE ~acHeap /\ yes
    <2>1. Region(yes) = HeapInit /\ heap.pmbUsed = {}
      BY <1>2 DEF Region, IInv
    <2> QED BY <1>1, <1>2, <2>1, HeapInitOK
  <1>3. CASE ~(~acHeap /\ yes)
    <2>1. Region(yes) = heap
      BY <1>3 DEF Region
    <2> QED BY <1>1, <1>3, <2>1 DEF IInv
  <1> QED BY <1>2, <1>3

(* malloc. *)
LEMMA MallocStep ==
  ASSUME IInv, NEW n \in Requests, NEW yes \in {TRUE, ~VmMayFail}, malloc(n, yes)
  PROVE  IInv' /\ Kept
  <1> DEFINE h == Region(yes)
             fit == FirstFit(h, Align(n))
  <1>1. /\ yes \in BOOLEAN /\ n \in Nat /\ HeapSize \in Nat
    BY HeapAssumption
  <1>2. /\ Good(h, want) /\ h.pmbUsed = heap.pmbUsed
        /\ \A b \in heap.pmbUsed : h.uSize[b] = heap.uSize[b]
        /\ IF acHeap \/ yes THEN 0 \in BlocksOf(h) ELSE h.pmbUsed = {} /\ h.pmbFree = <<>>
    BY <1>1, RegionOK
  <1>3. /\ acHeap' = (acHeap \/ yes) /\ pmb' = pmb /\ iFreed' = iFreed /\ pmb = 0
    BY DEF malloc, Idle
  <1>4. acHeap' \in BOOLEAN /\ iFreed' \in 0 .. 2 /\ pmb' = 0 /\ wild \in BOOLEAN
    BY <1>1, <1>3 DEF IInv
  <1>5. IF acHeap' THEN 0 \in BlocksOf(h) ELSE h.pmbUsed = {} /\ h.pmbFree = <<>>
    BY <1>2, <1>3
  <1>6. \/ heap' = h /\ want' = want /\ wild' \in BOOLEAN
        \/ /\ n \in 1 .. HeapSize /\ wild' = wild
           /\ \E i \in fit : /\ heap' = npvAllocateBlock(h, i, Align(n))
                             /\ want' = [want EXCEPT ![h.pmbFree[i]] = n]
    <2>1. CASE n = 0 \/ n > HeapSize
      BY <1>4, <2>1 DEF malloc
    <2>2. CASE n \in 1 .. HeapSize /\ h.pmbFree = <<>>
      BY <1>1, <1>4, <2>2 DEF malloc
    <2>3. CASE n \in 1 .. HeapSize /\ h.pmbFree # <<>>
      <3>1. ~(n = 0 \/ n > HeapSize) /\ ~(n \in 1 .. HeapSize /\ h.pmbFree = <<>>)
        BY <1>1, <2>3
      <3>2. /\ IF fit = {}
               THEN heap' = h /\ want' = want
               ELSE \E i \in fit :
                      /\ heap' = npvAllocateBlock(h, i, Align(n))
                      /\ want' = [want EXCEPT ![h.pmbFree[i]] = n]
            /\ UNCHANGED wild
        BY <3>1 DEF malloc
      <3> QED BY <1>4, <2>3, <3>2
    <2> QED BY <1>1, <2>1, <2>2, <2>3
  <1> HIDE DEF h, fit
  <1>7. CASE heap' = h /\ want' = want /\ wild' \in BOOLEAN
    <2>1. Kept
      BY <1>2, <1>7 DEF Kept
    <2>2. /\ Good(heap', want')
          /\ IF acHeap' THEN 0 \in BlocksOf(heap')
             ELSE heap'.pmbUsed = {} /\ heap'.pmbFree = <<>>
      BY <1>2, <1>5, <1>7
    <2>3. IInv'
      BY <1>4, <1>7, <2>2 DEF IInv
    <2> QED BY <2>1, <2>3
  <1>8. ASSUME n \in 1 .. HeapSize, wild' = wild, NEW i \in fit,
               heap' = npvAllocateBlock(h, i, Align(n)),
               want' = [want EXCEPT ![h.pmbFree[i]] = n]
        PROVE  IInv' /\ Kept
    <2>1. i \in DOMAIN h.pmbFree /\ h.uSize[h.pmbFree[i]] >= Align(n)
      BY DEF fit, FirstFit
    <2>2. Align(n) \in Nat /\ Align(n) >= n /\ Align(n) >= 4 /\ Align(n) % 4 = 0
      BY <1>1, <1>8, AlignFacts
    <2>3. /\ Good(heap', want')
          /\ heap'.pmbUsed = h.pmbUsed \cup {h.pmbFree[i]}
          /\ h.pmbFree[i] \notin h.pmbUsed
          /\ BlocksOf(h) \subseteq BlocksOf(heap')
          /\ \A c \in h.pmbUsed : heap'.uSize[c] = h.uSize[c] /\ want'[c] = want[c]
      <3>1. PICK r \in Nat : r = Align(n)
        BY <2>2
      <3>2. r % 4 = 0 /\ r >= 4 /\ h.uSize[h.pmbFree[i]] >= r /\ n <= r
            /\ heap' = npvAllocateBlock(h, i, r)
        BY <1>1, <1>8, <2>1, <2>2, <3>1
      <3>3. h.pmbFree[i] \in Offsets /\ want \in [Offsets -> 0 .. HeapSize]
        BY <1>2, <2>1, HeapParts, ListedFacts
      <3>4. /\ want' \in [Offsets -> 0 .. HeapSize] /\ want'[h.pmbFree[i]] = n
            /\ \A c \in Offsets : c # h.pmbFree[i] => want'[c] = want[c]
        BY <1>1, <1>8, <3>3
      <3>5. n \in 1 .. HeapSize
        BY <1>8
      <3> QED BY <1>2, <2>1, <3>2, <3>4, <3>5, Allocated
    <2>4. Kept
      BY <1>2, <2>3 DEF Kept
    <2>5. acHeap'
      BY <1>4, <1>5, <2>1
    <2>6. IF acHeap' THEN 0 \in BlocksOf(heap')
          ELSE heap'.pmbUsed = {} /\ heap'.pmbFree = <<>>
      BY <1>5, <2>3, <2>5
    <2>7. IInv'
      BY <1>4, <1>8, <2>3, <2>6 DEF IInv
    <2> QED BY <2>4, <2>7
  <1> QED BY <1>6, <1>7, <1>8

(* compact goes on with a block behind the head, or ends. *)
LEMMA CompactGoesOn ==
  ASSUME NEW h, h.pmbFree \in Seq(Offsets), NEW i \in Nat, i >= 2, NEW joins \in 0 .. 2,
         Compact(h, i, joins)
  PROVE  /\ heap' = h /\ iFreed' \in 0 .. 2
         /\ \/ pmb' = 0
            \/ pmb' \in 2 .. Len(heap'.pmbFree) /\ iFreed' < 2
  <1>1. Len(h.pmbFree) \in Nat
    OBVIOUS
  <1> QED BY <1>1 DEF Compact

(* free. *)
LEMMA FreeStep ==
  ASSUME IInv, NEW b \in Offsets, free(b)
  PROVE  IInv' /\ Kept
  <1> DEFINE h == Release(heap, b)
  <1>1. /\ b \in heap.pmbUsed /\ Compact(h, 2, 0) /\ want' = [want EXCEPT ![b] = 0]
        /\ acHeap' = acHeap /\ wild' = wild
    BY DEF free
  <1>2. Good(heap, want) /\ want \in [Offsets -> 0 .. HeapSize] /\ HeapSize \in Nat
    BY HeapAssumption DEF IInv, Good
  <1>3. /\ want' \in [Offsets -> 0 .. HeapSize]
        /\ \A c \in Offsets : c # b => want'[c] = want[c]
    BY <1>1, <1>2
  <1> HIDE DEF h
  <1>4. /\ Good(h, want') /\ BlocksOf(h) = BlocksOf(heap)
        /\ h.pmbUsed = heap.pmbUsed \ {b} /\ h.uSize = heap.uSize
        /\ \A c \in h.pmbUsed : want'[c] = want[c]
    <2>1. h = Release(heap, b) /\ b \in heap.pmbUsed
      BY <1>1 DEF h
    <2> QED BY <1>2, <1>3, <2>1, Released
  <1>5. /\ heap' = h /\ iFreed' \in 0 .. 2
        /\ \/ pmb' = 0
           \/ pmb' \in 2 .. Len(heap'.pmbFree) /\ iFreed' < 2
    <2>1. h.pmbFree \in Seq(Offsets)
      BY <1>4, HeapParts
    <2> QED BY <1>1, <2>1, CompactGoesOn
  <1>6. acHeap /\ 0 \in BlocksOf(heap')
    BY <1>1, <1>4, <1>5 DEF IInv
  <1>7. Kept
    BY <1>4, <1>5 DEF Kept
  <1>8. IInv'
    <2>1. Good(heap', want') /\ acHeap' \in BOOLEAN /\ wild' \in BOOLEAN
      BY <1>1, <1>4, <1>5 DEF IInv
    <2>2. IF acHeap' THEN 0 \in BlocksOf(heap')
          ELSE heap'.pmbUsed = {} /\ heap'.pmbFree = <<>>
      BY <1>1, <1>6
    <2> QED BY <1>5, <2>1, <2>2 DEF IInv
  <1> QED BY <1>7, <1>8

(* One step of compact. *)
LEMMA CompactStep ==
  ASSUME IInv, compact
  PROVE  IInv' /\ Kept
  <1> DEFINE head == heap.pmbFree[1]
             cur == heap.pmbFree[pmb]
  <1>1. /\ pmb \in 2 .. Len(heap.pmbFree) /\ iFreed \in 0 .. 1
        /\ want' = want /\ acHeap' = acHeap /\ wild' = wild
    BY DEF compact, IInv
  <1>2. /\ Good(heap, want) /\ heap.pmbFree \in Seq(Offsets)
        /\ IsInjective(heap.pmbFree) /\ pmb \in Nat /\ pmb >= 2
        /\ pmb \in DOMAIN heap.pmbFree /\ 1 \in DOMAIN heap.pmbFree
        /\ heap.pmbFree # <<>> /\ iFreed + 1 \in 0 .. 2 /\ iFreed \in 0 .. 2
    <2>1. Good(heap, want)
      BY DEF IInv
    <2>2. heap.pmbFree \in Seq(Offsets) /\ IsInjective(heap.pmbFree)
      BY <2>1, HeapParts
    <2> QED BY <1>1, <2>1, <2>2
  <1>3. head \in Listed(heap.pmbFree) /\ cur \in Listed(heap.pmbFree) /\ acHeap
    <2>1. acHeap
      BY <1>2 DEF IInv
    <2> QED BY <1>2, <2>1, ListedFacts
  <1>4. ASSUME NEW h, NEW i \in Nat, i >= 2, NEW joins \in 0 .. 2, Compact(h, i, joins),
               Good(h, want), h.pmbUsed = heap.pmbUsed, 0 \in BlocksOf(h),
               \A d \in heap.pmbUsed : h.uSize[d] = heap.uSize[d]
        PROVE  IInv' /\ Kept
    <2>1. /\ heap' = h /\ iFreed' \in 0 .. 2
          /\ \/ pmb' = 0
             \/ pmb' \in 2 .. Len(heap'.pmbFree) /\ iFreed' < 2
      <3>1. h.pmbFree \in Seq(Offsets)
        BY <1>4, HeapParts
      <3> QED BY <1>4, <3>1, CompactGoesOn
    <2>2. Kept
      BY <1>1, <1>4, <2>1 DEF Kept
    <2>3. Good(heap', want') /\ acHeap' \in BOOLEAN /\ wild' \in BOOLEAN
          /\ acHeap' /\ 0 \in BlocksOf(heap')
      BY <1>1, <1>3, <1>4, <2>1 DEF IInv
    <2>4. IInv'
      BY <2>1, <2>3 DEF IInv
    <2> QED BY <2>2, <2>4
  <1>5. 0 \in BlocksOf(heap)
    BY <1>3 DEF IInv
  <1>6. CASE after(heap, cur) = head
    <2> DEFINE l2 == Tail(heap.pmbFree)
               h == Merged(heap, cur, head, l2)
    <2>1. Compact(h, pmb, iFreed + 1)
      BY <1>6 DEF compact, Merged
    <2>2. /\ l2 \in Seq(Offsets) /\ IsInjective(l2)
          /\ Listed(l2) = Listed(heap.pmbFree) \ {head}
      BY <1>2, HeadTaken
    <2> HIDE DEF l2
    <2>3. h = Merged(heap, cur, head, l2)
      OBVIOUS
    <2> HIDE DEF h, head, cur
    <2>4. /\ Good(h, want) /\ h.pmbUsed = heap.pmbUsed
          /\ BlocksOf(h) = BlocksOf(heap) \ {head} /\ head # 0
          /\ \A d \in heap.pmbUsed : h.uSize[d] = heap.uSize[d]
      BY <1>2, <1>3, <1>6, <2>2, <2>3, Coalesced
    <2>5. 0 \in BlocksOf(h)
      BY <1>5, <2>4
    <2> QED BY <1>2, <1>4, <2>1, <2>4, <2>5
  <1>7. CASE after(heap, cur) # head /\ after(heap, head) = cur
    <2> DEFINE l2 == RemoveAt(heap.pmbFree, pmb)
               h == Merged(heap, head, cur, l2)
    <2>1. Compact(h, pmb, iFreed + 1)
      BY <1>7 DEF compact, Merged
    <2>2. /\ l2 \in Seq(Offsets) /\ IsInjective(l2)
          /\ Listed(l2) = Listed(heap.pmbFree) \ {cur}
      BY <1>2, TakenOut
    <2> HIDE DEF l2
    <2>3. h = Merged(heap, head, cur, l2)
      OBVIOUS
    <2> HIDE DEF h, head, cur
    <2>4. /\ Good(h, want) /\ h.pmbUsed = heap.pmbUsed
          /\ BlocksOf(h) = BlocksOf(heap) \ {cur} /\ cur # 0
          /\ \A d \in heap.pmbUsed : h.uSize[d] = heap.uSize[d]
      BY <1>2, <1>3, <1>7, <2>2, <2>3, Coalesced
    <2>5. 0 \in BlocksOf(h)
      BY <1>5, <2>4
    <2> QED BY <1>2, <1>4, <2>1, <2>4, <2>5
  <1>8. CASE after(heap, cur) # head /\ after(heap, head) # cur
    <2>1. Compact(heap, pmb + 1, iFreed)
      BY <1>8 DEF compact
    <2>2. pmb + 1 \in Nat /\ pmb + 1 >= 2
      BY <1>2
    <2> QED BY <1>2, <1>4, <1>5, <2>1, <2>2
  <1> QED BY <1>6, <1>7, <1>8

(* realloc: a new block is taken, then the old one released. *)
LEMMA ReallocStep ==
  ASSUME IInv, NEW b \in Offsets, NEW n \in Requests, realloc(b, n)
  PROVE  IInv' /\ Kept
  <1>1. /\ b \in heap.pmbUsed /\ n \in 1 .. HeapSize /\ acHeap' = acHeap /\ pmb = 0
        /\ Good(heap, want) /\ acHeap \in BOOLEAN /\ wild \in BOOLEAN
        /\ want \in [Offsets -> 0 .. HeapSize] /\ HeapSize \in Nat
    BY HeapAssumption DEF realloc, Idle, IInv, Good
  <1>2. acHeap /\ 0 \in BlocksOf(heap)
    BY <1>1 DEF IInv
  <1>3. CASE heap.pmbFree = <<>>
    <2>1. wild' = TRUE /\ heap' = heap /\ want' = want /\ pmb' = pmb /\ iFreed' = iFreed
      BY <1>3 DEF realloc
    <2>2. Kept
      BY <2>1 DEF Kept
    <2>3. Good(heap', want') /\ 0 \in BlocksOf(heap')
      BY <1>1, <1>2, <2>1
    <2>4. iFreed' \in 0 .. 2
      BY <2>1 DEF IInv
    <2>5. IInv'
      BY <1>1, <1>2, <2>1, <2>3, <2>4 DEF IInv
    <2> QED BY <2>2, <2>5
  <1>4. CASE heap.pmbFree # <<>>
    <2>1. PICK i \in FirstFit(heap, Align(n)) :
            /\ Compact(Release(npvAllocateBlock(heap, i, Align(n)), b), 2, 0)
            /\ want' = [want EXCEPT ![b] = 0, ![heap.pmbFree[i]] = n]
      BY <1>4 DEF realloc
    <2>2. wild' = wild
      BY <1>4 DEF realloc
    <2>3. i \in DOMAIN heap.pmbFree /\ heap.uSize[heap.pmbFree[i]] >= Align(n)
      BY DEF FirstFit
    <2>4. PICK r \in Nat : r = Align(n) /\ r >= n /\ r >= 4 /\ r % 4 = 0
      BY <1>1, AlignFacts
    <2>5. PICK f : f = heap.pmbFree[i]
      OBVIOUS
    <2>6. f \in Offsets /\ f # b
      BY <1>1, <2>3, <2>5, HeapParts, ListedFacts
    <2> DEFINE h1 == npvAllocateBlock(heap, i, r)
               w1 == [want EXCEPT ![f] = n]
               h2 == Release(h1, b)
    <2>7. /\ w1 \in [Offsets -> 0 .. HeapSize] /\ w1[f] = n
          /\ \A c \in Offsets : c # f => w1[c] = want[c]
      BY <1>1, <2>6
    <2>8. /\ want' \in [Offsets -> 0 .. HeapSize]
          /\ \A c \in Offsets : c # b => want'[c] = w1[c]
      BY <1>1, <2>1, <2>5, <2>6
    <2> HIDE DEF w1, h1, h2
    <2>9. h1 = npvAllocateBlock(heap, i, r)
      BY DEF h1
    <2>10. /\ Good(h1, w1) /\ h1.pmbUsed = heap.pmbUsed \cup {f}
           /\ BlocksOf(heap) \subseteq BlocksOf(h1)
           /\ \A c \in heap.pmbUsed : h1.uSize[c] = heap.uSize[c] /\ w1[c] = want[c]
      <3>1. heap.uSize[heap.pmbFree[i]] >= r /\ n <= r
        BY <1>1, <2>3, <2>4
      <3>2. w1[heap.pmbFree[i]] = n /\ \A c \in Offsets : c # heap.pmbFree[i] => w1[c] = want[c]
        BY <2>5, <2>7
      <3>3. /\ Good(h1, w1) /\ h1.pmbUsed = heap.pmbUsed \cup {heap.pmbFree[i]}
            /\ BlocksOf(heap) \subseteq BlocksOf(h1)
            /\ \A c \in heap.pmbUsed : h1.uSize[c] = heap.uSize[c] /\ w1[c] = want[c]
        BY <1>1, <2>3, <2>4, <2>7, <2>9, <3>1, <3>2, Allocated
      <3> QED BY <2>5, <3>3
    <2>11. /\ Good(h2, want') /\ BlocksOf(h2) = BlocksOf(h1)
           /\ h2.pmbUsed = h1.pmbUsed \ {b} /\ h2.uSize = h1.uSize
           /\ \A c \in h2.pmbUsed : want'[c] = w1[c]
      <3>1. h2 = Release(h1, b) /\ b \in h1.pmbUsed
        BY <1>1, <2>10 DEF h2
      <3> QED BY <2>8, <2>10, <3>1, Released
    <2>12. /\ heap' = h2 /\ iFreed' \in 0 .. 2
           /\ \/ pmb' = 0
              \/ pmb' \in 2 .. Len(heap'.pmbFree) /\ iFreed' < 2
      <3>1. h2.pmbFree \in Seq(Offsets)
        BY <2>11, HeapParts
      <3>2. Compact(h2, 2, 0)
        BY <2>1, <2>4 DEF h2, h1
      <3> QED BY <3>1, <3>2, CompactGoesOn
    <2>13. Kept
      BY <2>10, <2>11, <2>12 DEF Kept
    <2>14. Good(heap', want') /\ 0 \in BlocksOf(heap')
      BY <1>2, <2>10, <2>11, <2>12
    <2>15. IInv'
      BY <1>1, <1>2, <2>2, <2>12, <2>14 DEF IInv
    <2> QED BY <2>13, <2>15
  <1> QED BY <1>3, <1>4

(***************************************************************************)
(* Theorems.                                                               *)
(***************************************************************************)

(* Every step of malloc, free, compact and realloc keeps the invariant and  *)
(* the blocks others own.                                                   *)
LEMMA NextStep ==
  ASSUME IInv, [Next]_vars
  PROVE  IInv' /\ (UNCHANGED vars \/ Kept)
  <1>1. CASE \E n \in Requests, yes \in {TRUE, ~VmMayFail} : malloc(n, yes)
    BY <1>1, MallocStep
  <1>2. CASE \E b \in Offsets : free(b)
    BY <1>2, FreeStep
  <1>3. CASE \E b \in Offsets, n \in Requests : realloc(b, n)
    BY <1>3, ReallocStep
  <1>4. CASE compact
    BY <1>4, CompactStep
  <1>5. CASE UNCHANGED vars
    <2>1. /\ acHeap' = acHeap /\ heap' = heap /\ want' = want /\ pmb' = pmb
          /\ iFreed' = iFreed /\ wild' = wild
      BY <1>5 DEF vars
    <2>2. IInv'
      BY <2>1 DEF IInv
    <2> QED BY <1>5, <2>2
  <1> QED BY <1>1, <1>2, <1>3, <1>4, <1>5 DEF Next

(* There is no heap before the first malloc. *)
LEMMA InitOK ==
  ASSUME Init
  PROVE  IInv
  <1>1. /\ acHeap = FALSE /\ heap = NoHeap /\ want = NoSizes
        /\ pmb = 0 /\ iFreed = 0 /\ wild = FALSE
    BY DEF Init
  <1>2. HeapSize \in Nat /\ Word \in Nat /\ 0 \in 0 .. Word - 1
    BY HeapAssumption
  <1>3. NoSizes \in [Offsets -> 0 .. HeapSize]
    BY <1>2 DEF NoSizes
  <1>4. /\ heap.pmbFree = <<>> /\ heap.pmbUsed = {} /\ heap.uSize = NoSizes
        /\ heap.uMemFree = 0 /\ <<>> \in Seq(Offsets)
    BY <1>1 DEF NoHeap
  <1>5. heap \in Heaps
    BY <1>1, <1>2, <1>3 DEF Heaps, NoHeap
  <1>6. Listed(heap.pmbFree) = {} /\ IsInjective(heap.pmbFree)
    BY <1>4 DEF Listed, IsInjective
  <1>7. BlocksOf(heap) = {}
    BY <1>4, <1>6 DEF BlocksOf
  <1>8. Tile({}, NoSizes)
    BY <1>3 DEF Tile
  <1>9. Good(heap, want)
    BY <1>1, <1>3, <1>4, <1>5, <1>6, <1>7, <1>8 DEF Good, WellLaid
  <1>10. ~acHeap /\ acHeap \in BOOLEAN /\ wild \in BOOLEAN
    BY <1>1, Zenon
  <1>11. pmb = 0 /\ iFreed \in 0 .. 2
    BY <1>1
  <1> QED BY <1>4, <1>9, <1>10, <1>11 DEF IInv

(* Every behaviour of the heap keeps the invariant: the blocks of the two   *)
(* lists tile the region at every step of compact, too.                     *)
THEOREM Invariance == Spec => []IInv
  <1>1. Init => IInv
    BY InitOK
  <1>2. IInv /\ [Next]_vars => IInv'
    BY NextStep
  <1> QED BY <1>1, <1>2, PTL DEF Spec

(* Tiling, what HeapCheck looks for: no block overlaps another, is lost, or *)
(* is on both lists or twice on one, whatever is asked for and released.    *)
THEOREM BlocksTileTheRegion == Spec => []Tiling
  <1>1. IInv => Tiling
    <2> SUFFICES ASSUME IInv PROVE Tiling
      OBVIOUS
    <2>1. Blocks = BlocksOf(heap) /\ FreeBlocks = Listed(heap.pmbFree)
      BY DEF Blocks, FreeBlocks, BlocksOf, Listed
    <2>2. /\ IsInjective(heap.pmbFree) /\ Listed(heap.pmbFree) \cap heap.pmbUsed = {}
          /\ Tile(BlocksOf(heap), heap.uSize)
      BY HeapParts DEF IInv
    <2>3. acHeap => 0 \in BlocksOf(heap)
      BY DEF IInv
    <2>4. \A b \in BlocksOf(heap) :
            /\ after(heap, b) \in BlocksOf(heap) \cup {HeapSize}
            /\ \A c \in BlocksOf(heap) : b < c => after(heap, b) <= c
      BY <2>2 DEF Tile, After, after
    <2> QED BY <2>1, <2>2, <2>3, <2>4 DEF Tiling
  <1> QED BY <1>1, Invariance, PTL

(* WellFormed: sizes stay multiples of 4 and at least MIN_FragSize, and a   *)
(* block is as large as its owner asked for as long as it is owned.         *)
THEOREM HeapStaysWellFormed == Spec => []WellFormed
  <1>1. IInv => WellFormed
    <2> SUFFICES ASSUME IInv PROVE WellFormed
      OBVIOUS
    <2>1. Blocks = BlocksOf(heap)
      BY DEF Blocks, FreeBlocks, BlocksOf, Listed
    <2>2. /\ Tile(BlocksOf(heap), heap.uSize) /\ want \in [Offsets -> 0 .. HeapSize]
          /\ \A b \in heap.pmbUsed : want[b] > 0 /\ heap.uSize[b] >= want[b]
      BY HeapParts DEF IInv
    <2>3. Aligned
      BY <2>1, <2>2 DEF Tile, Aligned, MIN_FragSize
    <2>4. LargeEnough
      BY <2>2 DEF LargeEnough
    <2>5. heap \in Heaps
      BY DEF IInv, Good, WellLaid
    <2>6. pmb \in Nat
      BY DEF IInv
    <2>7. TypeOK
      BY <2>2, <2>5, <2>6 DEF IInv, TypeOK
    <2> QED BY <2>3, <2>4, <2>7 DEF WellFormed
  <1> QED BY <1>1, Invariance, PTL

(* OwnedBlocksKept: a step of malloc, free, compact or realloc leaves the   *)
(* size and the owner of every block that stays owned as they were.         *)
THEOREM OwnersKeepTheirBlocks == Spec => OwnedBlocksKept
  <1>1. IInv /\ [Next]_vars => [Kept]_vars
    BY NextStep
  <1>2. Spec => [][Kept]_vars
    BY <1>1, Invariance, PTL DEF Spec
  <1> QED BY <1>2 DEF OwnedBlocksKept, Kept

(***************************************************************************)
(* uMemFree.  What the free blocks take up is followed by the counts p of  *)
(* the first i blocks of the list: a block put in front, taken out or      *)
(* resized moves the counts behind it by its bytes.                        *)
(***************************************************************************)

(* p[i] is what the first i blocks of the list l, with their headers, take  *)
(* up; the bytes of all of them are what uMemFree has to account for.       *)
Counts(l, s, p) ==
  /\ p \in [0 .. Len(l) -> Int] /\ p[0] = 0
  /\ \A i \in 1 .. Len(l) : p[i] = p[i - 1] + s[l[i]] + HdrSize

(* m is l without its i-th block. *)
Without(l, i, m) ==
  /\ Len(m) = Len(l) - 1
  /\ \A j \in 1 .. Len(l) - 1 : m[j] = IF j < i THEN l[j] ELSE l[j + 1]

(* The blocks of m with sizes t are as large as those of l with sizes s,    *)
(* but for the i-th.                                                        *)
SameButOne(l, s, m, t, i) ==
  Len(m) = Len(l) /\ \A j \in 1 .. Len(l) : j # i => t[m[j]] = s[l[j]]

(* The blocks of m, with sizes t, take up n bytes. *)
TakeUp(m, t, n) == \E q : Counts(m, t, q) /\ q[Len(m)] = n

(* Sizes are numbers, along the list. *)
LEMMA ListSizes ==
  ASSUME NEW l \in Seq(Offsets), NEW s \in [Offsets -> 0 .. HeapSize]
  PROVE  /\ DOMAIN l = 1 .. Len(l) /\ Len(l) \in Nat /\ HdrSize \in Nat
         /\ \A i \in 1 .. Len(l) : l[i] \in Offsets /\ s[l[i]] \in Nat
  <1>1. HeapSize \in Nat /\ HdrSize \in Nat
    BY HeapAssumption
  <1>2. DOMAIN l = 1 .. Len(l) /\ Len(l) \in Nat /\ \A i \in 1 .. Len(l) : l[i] \in Offsets
    OBVIOUS
  <1>3. \A b \in Offsets : s[b] \in 0 .. HeapSize
    OBVIOUS
  <1> QED BY <1>1, <1>2, <1>3

(* There is one such count. *)
LEMMA CountUnique ==
  ASSUME NEW l \in Seq(Offsets), NEW s \in [Offsets -> 0 .. HeapSize],
         NEW p, Counts(l, s, p), NEW q, Counts(l, s, q)
  PROVE  \A i \in 0 .. Len(l) : p[i] = q[i]
  <1> DEFINE D == {i \in 0 .. Len(l) : p[i] # q[i]}
  <1>1. Len(l) \in Nat
    OBVIOUS
  <1> SUFFICES ASSUME D # {} PROVE FALSE
    OBVIOUS
  <1>2. D \in SUBSET Nat
    BY <1>1
  <1> HIDE DEF D
  <1>3. PICK x \in D : \A y \in D : ~(<<y, x>> \in OpToRel(<, Nat))
    BY <1>2, NatLessThanWellFounded, WFMin
  <1>4. x \in 0 .. Len(l) /\ p[x] # q[x]
    BY DEF D
  <1>5. x # 0
    BY <1>4 DEF Counts
  <1>6. x - 1 \in 0 .. Len(l) /\ x - 1 \in Nat /\ x - 1 < x /\ x \in 1 .. Len(l) /\ x \in Nat
    BY <1>1, <1>4, <1>5
  <1>7. x - 1 \notin D
    BY <1>3, <1>6 DEF OpToRel
  <1>8. p[x - 1] = q[x - 1]
    BY <1>6, <1>7 DEF D
  <1> QED BY <1>4, <1>6, <1>8 DEF Counts

(* FreeBytes is the last of them. *)
LEMMA FreeBytesCounted ==
  ASSUME NEW l \in Seq(Offsets), NEW s \in [Offsets -> 0 .. HeapSize],
         NEW p, Counts(l, s, p)
  PROVE  FreeBytes(l, s) = p[Len(l)]
  <1> DEFINE F(q) == [i \in 0 .. Len(l) |->
                        IF i = 0 THEN 0 ELSE q[i - 1] + s[l[i]] + HdrSize]
             u == CHOOSE q : q = F(q)
  <1>1. FreeBytes(l, s) = u[Len(l)]
    BY DEF FreeBytes
  <1>2. Len(l) \in Nat /\ HdrSize \in Nat /\ \A i \in 1 .. Len(l) : s[l[i]] \in Nat
    BY ListSizes
  <1>3. p = F(p)
    <2>1. p \in [0 .. Len(l) -> Int]
      BY DEF Counts
    <2>2. \A i \in 0 .. Len(l) : p[i] = F(p)[i]
      <3>1. TAKE i \in 0 .. Len(l)
      <3>2. CASE i = 0
        BY <1>2, <3>2 DEF Counts
      <3>3. CASE i # 0
        <4>1. i \in 1 .. Len(l)
          BY <1>2, <3>3
        <4> QED BY <3>3, <4>1 DEF Counts
      <3> QED BY <3>2, <3>3
    <2> QED BY <2>1, <2>2
  <1>4. u = F(u)
    BY <1>3, Zenon
  <1> HIDE DEF u
  <1>5. Counts(l, s, u)
    <2>1. DOMAIN u = 0 .. Len(l) /\ u[0] = 0
      BY <1>2, <1>4
    <2>2. \A i \in 1 .. Len(l) : u[i] = u[i - 1] + s[l[i]] + HdrSize
      BY <1>2, <1>4
    <2> DEFINE D == {i \in 0 .. Len(l) : u[i] \notin Int}
    <2>3. D = {}
      <3> SUFFICES ASSUME D # {} PROVE FALSE
        OBVIOUS
      <3>1. D \in SUBSET Nat
        BY <1>2
      <3> HIDE DEF D
      <3>2. PICK x \in D : \A y \in D : ~(<<y, x>> \in OpToRel(<, Nat))
        BY <3>1, NatLessThanWellFounded, WFMin
      <3>3. x \in 0 .. Len(l) /\ u[x] \notin Int
        BY DEF D
      <3>4. x # 0
        BY <2>1, <3>3
      <3>5. /\ x - 1 \in 0 .. Len(l) /\ x - 1 \in Nat /\ x - 1 < x
            /\ x \in 1 .. Len(l) /\ x \in Nat
        BY <1>2, <3>3, <3>4
      <3>6. x - 1 \notin D
        BY <3>2, <3>5 DEF OpToRel
      <3>7. u[x - 1] \in Int
        BY <3>5, <3>6 DEF D
      <3>8. s[l[x]] \in Nat
        BY <1>2, <3>5
      <3> QED BY <1>2, <2>2, <3>3, <3>5, <3>7, <3>8
    <2>4. \A i \in 0 .. Len(l) : u[i] \in Int
      BY <2>3
    <2>5. u \in [0 .. Len(l) -> Int]
      BY <1>4, <2>1, <2>4
    <2> QED BY <2>1, <2>2, <2>5 DEF Counts
  <1>6. Len(l) \in 0 .. Len(l)
    BY <1>2
  <1>7. \A i \in 0 .. Len(l) : u[i] = p[i]
    BY <1>5, CountUnique
  <1> QED BY <1>1, <1>6, <1>7

(* A count and the next one move by the same. *)
LEMMA Moved ==
  \A a, b, c, d, e \in Int :
    a = b + c + d => a + e = (b + e) + c + d /\ a - e = (b - e) + c + d
  OBVIOUS

(* A block x is put in front of the list: its bytes are added. *)
LEMMA CountInFront ==
  ASSUME NEW l \in Seq(Offsets), NEW s \in [Offsets -> 0 .. HeapSize],
         NEW p, Counts(l, s, p), NEW x \in Offsets
  PROVE  \E q : Counts(<<x>> \o l, s, q)
                /\ q[Len(<<x>> \o l)] = p[Len(l)] + (s[x] + HdrSize)
  <1> DEFINE m == <<x>> \o l
             on == s[x] + HdrSize
             q == [i \in 0 .. Len(l) + 1 |-> IF i = 0 THEN 0 ELSE p[i - 1] + on]
  <1>1. Len(l) \in Nat /\ HdrSize \in Nat /\ s[x] \in Nat
        /\ \A i \in 1 .. Len(l) : l[i] \in Offsets /\ s[l[i]] \in Nat
    BY ListSizes
  <1>2. <<x>> \in Seq(Offsets) /\ Len(<<x>>) = 1 /\ <<x>>[1] = x
    OBVIOUS
  <1>3. Len(m) = Len(l) + 1 /\ m[1] = x /\ \A i \in 1 .. Len(l) : m[i + 1] = l[i]
    BY <1>1, <1>2
  <1> HIDE DEF m
  <1>4. p \in [0 .. Len(l) -> Int] /\ p[0] = 0
        /\ \A i \in 1 .. Len(l) : p[i] = p[i - 1] + s[l[i]] + HdrSize
    BY DEF Counts
  <1>5. on \in Int
    BY <1>1
  <1> HIDE DEF on
  <1>6. q \in [0 .. Len(m) -> Int] /\ q[0] = 0
    BY <1>1, <1>3, <1>4, <1>5
  <1>7. \A i \in 1 .. Len(l) + 1 : q[i] = p[i - 1] + on
    BY <1>1
  <1> HIDE DEF q
  <1>8. ASSUME NEW i \in 1 .. Len(m) PROVE q[i] = q[i - 1] + s[m[i]] + HdrSize
    <2>1. CASE i = 1
      <3>1. q[1] = p[0] + on
        BY <1>1, <1>7
      <3> QED BY <1>1, <1>3, <1>4, <1>6, <2>1, <3>1 DEF on
    <2>2. CASE i # 1
      <3>1. PICK j \in 1 .. Len(l) : i = j + 1
        <4>1. i - 1 \in 1 .. Len(l) /\ i = (i - 1) + 1
          BY <1>1, <1>3, <2>2
        <4> QED BY <4>1
      <3>2. m[i] = l[j] /\ s[l[j]] \in Nat
        BY <1>1, <1>3, <3>1
      <3>3. q[i] = p[j] + on /\ q[i - 1] = p[j - 1] + on
        <4>1. i \in 1 .. Len(l) + 1 /\ i - 1 \in 1 .. Len(l) + 1 /\ i - 1 = j
          BY <1>1, <3>1
        <4> QED BY <1>7, <4>1
      <3>4. p[j] \in Int /\ p[j - 1] \in Int /\ p[j] = p[j - 1] + s[l[j]] + HdrSize
        <4>1. j \in 0 .. Len(l) /\ j - 1 \in 0 .. Len(l)
          BY <1>1
        <4> QED BY <1>4, <4>1
      <3> QED BY <1>1, <1>5, <3>2, <3>3, <3>4, Moved
    <2> QED BY <2>1, <2>2
  <1>9. q[Len(m)] = p[Len(l)] + on
    BY <1>1, <1>3, <1>7
  <1>10. Counts(m, s, q)
    BY <1>6, <1>8 DEF Counts
  <1> QED BY <1>9, <1>10 DEF m, on

(* The i-th block is taken out of the list: its bytes are taken off. *)
LEMMA CountTakenOut ==
  ASSUME NEW l \in Seq(Offsets), NEW s \in [Offsets -> 0 .. HeapSize],
         NEW p, Counts(l, s, p), NEW i \in 1 .. Len(l),
         NEW m, Without(l, i, m)
  PROVE  TakeUp(m, s, p[Len(l)] - (s[l[i]] + HdrSize))
  <1> DEFINE off == s[l[i]] + HdrSize
             q == [j \in 0 .. Len(l) - 1 |-> IF j < i THEN p[j] ELSE p[j + 1] - off]
  <1>1. /\ Len(m) = Len(l) - 1
        /\ \A j \in 1 .. Len(l) - 1 : m[j] = IF j < i THEN l[j] ELSE l[j + 1]
    BY DEF Without
  <1>2. Len(l) \in Nat /\ HdrSize \in Nat /\ i \in Nat
        /\ \A j \in 1 .. Len(l) : l[j] \in Offsets /\ s[l[j]] \in Nat
    BY ListSizes
  <1>3. p \in [0 .. Len(l) -> Int] /\ p[0] = 0
        /\ \A j \in 1 .. Len(l) : p[j] = p[j - 1] + s[l[j]] + HdrSize
    BY DEF Counts
  <1>4. off \in Int
    BY <1>2
  <1>5. q \in [0 .. Len(m) -> Int] /\ q[0] = 0
    <2> HIDE DEF off
    <2>1. \A j \in 0 .. Len(l) - 1 : j \in 0 .. Len(l) /\ j + 1 \in 0 .. Len(l)
      BY <1>2
    <2>2. \A j \in 0 .. Len(l) - 1 : p[j] \in Int /\ p[j + 1] - off \in Int
      <3>1. TAKE j \in 0 .. Len(l) - 1
      <3>2. p[j] \in Int /\ p[j + 1] \in Int
        BY <1>3, <2>1
      <3> QED BY <1>4, <3>2
    <2>3. 0 \in 0 .. Len(l) - 1 /\ 0 < i
      BY <1>2
    <2>4. \A j \in 0 .. Len(l) - 1 : (IF j < i THEN p[j] ELSE p[j + 1] - off) \in Int
      BY <2>2
    <2>5. q \in [0 .. Len(l) - 1 -> Int] /\ q[0] = p[0]
      BY <2>3, <2>4
    <2> QED BY <1>1, <1>3, <2>5
  <1>6. \A j \in 0 .. Len(l) - 1 : q[j] = IF j < i THEN p[j] ELSE p[j + 1] - off
    OBVIOUS
  <1>7. p[i] = p[i - 1] + off /\ p[i - 1] \in Int /\ p[i] \in Int
    <2>1. s[l[i]] \in Nat /\ i - 1 \in 0 .. Len(l) /\ i \in 0 .. Len(l)
      BY <1>2
    <2>2. p[i] = p[i - 1] + s[l[i]] + HdrSize /\ p[i - 1] \in Int
      BY <1>3, <2>1
    <2> QED BY <1>2, <1>3, <2>1, <2>2
  <1> HIDE DEF q, off
  <1>8. ASSUME NEW j \in 1 .. Len(m) PROVE q[j] = q[j - 1] + s[m[j]] + HdrSize
    <2>1. /\ j \in 1 .. Len(l) - 1 /\ j \in 0 .. Len(l) - 1 /\ j - 1 \in 0 .. Len(l) - 1
          /\ j \in 0 .. Len(l) /\ j - 1 \in 0 .. Len(l) /\ j + 1 \in 0 .. Len(l)
          /\ j \in 1 .. Len(l) /\ j + 1 \in 1 .. Len(l) /\ (j + 1) - 1 = j
          /\ (j - 1) + 1 = j
      <3>1. PICK n \in Nat : n = Len(l)
        BY <1>2
      <3>2. j \in 1 .. n - 1
        BY <1>1, <3>1
      <3>3. /\ j \in 0 .. n - 1 /\ j - 1 \in 0 .. n - 1 /\ j \in 0 .. n
            /\ j - 1 \in 0 .. n /\ j + 1 \in 0 .. n /\ j \in 1 .. n /\ j + 1 \in 1 .. n
            /\ (j + 1) - 1 = j /\ (j - 1) + 1 = j
        BY <3>2
      <3> QED BY <3>1, <3>2, <3>3
    <2>2. p[j] \in Int /\ p[j - 1] \in Int /\ p[j + 1] \in Int
      BY <1>3, <2>1
    <2>3. CASE j < i
      <3>1. q[j] = p[j] /\ q[j - 1] = p[j - 1] /\ m[j] = l[j]
        BY <1>1, <1>2, <1>6, <2>1, <2>3
      <3> QED BY <1>3, <2>1, <3>1
    <2>4. CASE j = i
      <3>1. q[j] = p[j + 1] - off /\ q[j - 1] = p[j - 1] /\ m[j] = l[j + 1]
        BY <1>1, <1>2, <1>6, <2>1, <2>4
      <3>2. p[j + 1] = p[j] + s[l[j + 1]] + HdrSize /\ s[l[j + 1]] \in Nat
        BY <1>2, <1>3, <2>1
      <3>3. p[j] = p[j - 1] + off
        BY <1>7, <2>4
      <3>4. p[j + 1] - off = (p[j] - off) + s[l[j + 1]] + HdrSize
        <4>1. /\ p[j + 1] \in Int /\ p[j] \in Int /\ s[l[j + 1]] \in Int
              /\ HdrSize \in Int /\ off \in Int
          BY <1>2, <1>4, <2>2, <3>2
        <4> QED BY <3>2, <4>1, Moved
      <3>5. p[j] - off = p[j - 1]
        BY <1>4, <2>2, <3>3
      <3> QED BY <3>1, <3>4, <3>5
    <2>5. CASE j > i
      <3>1. q[j] = p[j + 1] - off /\ q[j - 1] = p[j] - off /\ m[j] = l[j + 1]
        <4>1. ~(j < i) /\ ~(j - 1 < i)
          BY <1>2, <2>5
        <4> QED BY <1>1, <1>6, <2>1, <4>1
      <3>2. p[j + 1] = p[j] + s[l[j + 1]] + HdrSize /\ s[l[j + 1]] \in Nat
        BY <1>2, <1>3, <2>1
      <3>3. /\ p[j + 1] \in Int /\ p[j] \in Int /\ s[l[j + 1]] \in Int
            /\ HdrSize \in Int /\ off \in Int
        BY <1>2, <1>4, <2>2, <3>2
      <3>4. p[j + 1] - off = (p[j] - off) + s[l[j + 1]] + HdrSize
        BY <3>2, <3>3, Moved
      <3> QED BY <3>1, <3>4
    <2> QED BY <1>2, <2>1, <2>3, <2>4, <2>5
  <1>9. q[Len(m)] = p[Len(l)] - off
    <2>1. Len(m) \in 0 .. Len(l) - 1 /\ Len(m) + 1 = Len(l)
      BY <1>1, <1>2
    <2>2. CASE Len(m) < i
      <3>1. i = Len(l) /\ Len(m) = i - 1
        BY <1>2, <2>1, <2>2
      <3>2. q[Len(m)] = p[i - 1]
        BY <1>6, <2>1, <2>2, <3>1
      <3> QED BY <1>4, <1>7, <3>1, <3>2
    <2>3. CASE ~(Len(m) < i)
      BY <1>6, <2>1, <2>3
    <2> QED BY <2>2, <2>3
  <1>10. Counts(m, s, q)
    BY <1>5, <1>8 DEF Counts
  <1> QED BY <1>9, <1>10 DEF off, TakeUp

(* The i-th block is another one, of another size, and nothing else in the  *)
(* list changes: the difference is counted.                                 *)
LEMMA CountReplaced ==
  ASSUME NEW l \in Seq(Offsets), NEW s \in [Offsets -> 0 .. HeapSize],
         NEW p, Counts(l, s, p), NEW i \in 1 .. Len(l),
         NEW m \in Seq(Offsets), NEW t \in [Offsets -> 0 .. HeapSize],
         SameButOne(l, s, m, t, i)
  PROVE  TakeUp(m, t, p[Len(l)] + (t[m[i]] - s[l[i]]))
  <1> DEFINE d == t[m[i]] - s[l[i]]
             q == [j \in 0 .. Len(l) |-> IF j < i THEN p[j] ELSE p[j] + d]
  <1>1. Len(m) = Len(l) /\ \A j \in 1 .. Len(l) : j # i => t[m[j]] = s[l[j]]
    BY DEF SameButOne
  <1>2. Len(l) \in Nat /\ HdrSize \in Nat /\ i \in Nat
        /\ \A j \in 1 .. Len(l) : l[j] \in Offsets /\ s[l[j]] \in Nat
    BY ListSizes
  <1>3. \A j \in 1 .. Len(m) : m[j] \in Offsets /\ t[m[j]] \in Nat
    BY ListSizes
  <1>4. p \in [0 .. Len(l) -> Int] /\ p[0] = 0
        /\ \A j \in 1 .. Len(l) : p[j] = p[j - 1] + s[l[j]] + HdrSize
    BY DEF Counts
  <1>5. d \in Int /\ t[m[i]] = s[l[i]] + d
    BY <1>1, <1>2, <1>3
  <1>6. q \in [0 .. Len(m) -> Int] /\ q[0] = 0
    BY <1>1, <1>2, <1>4, <1>5
  <1>7. \A j \in 0 .. Len(l) : q[j] = IF j < i THEN p[j] ELSE p[j] + d
    OBVIOUS
  <1> HIDE DEF q, d
  <1>8. ASSUME NEW j \in 1 .. Len(m) PROVE q[j] = q[j - 1] + t[m[j]] + HdrSize
    <2>1. j \in 1 .. Len(l) /\ j \in 0 .. Len(l) /\ j - 1 \in 0 .. Len(l)
      BY <1>1, <1>2
    <2>2. p[j] \in Int /\ p[j - 1] \in Int /\ s[l[j]] \in Nat
          /\ p[j] = p[j - 1] + s[l[j]] + HdrSize
      BY <1>2, <1>4, <2>1
    <2>3. CASE j < i
      <3>1. q[j] = p[j] /\ q[j - 1] = p[j - 1] /\ t[m[j]] = s[l[j]]
        <4>1. j < i /\ j - 1 < i /\ j # i
          BY <1>2, <2>3
        <4> QED BY <1>1, <1>7, <2>1, <4>1
      <3> QED BY <2>2, <3>1
    <2>4. CASE j = i
      <3>1. q[j] = p[j] + d /\ q[j - 1] = p[j - 1] /\ t[m[j]] = s[l[j]] + d
        <4>1. ~(j < i) /\ j - 1 < i
          BY <1>2, <2>4
        <4> QED BY <1>5, <1>7, <2>1, <2>4, <4>1
      <3>2. p[j] + d = p[j - 1] + (s[l[j]] + d) + HdrSize
        <4>1. \A a, b, c, e, f \in Int : a = b + c + e => a + f = b + (c + f) + e
          OBVIOUS
        <4>2. /\ p[j] \in Int /\ p[j - 1] \in Int /\ s[l[j]] \in Int
              /\ HdrSize \in Int /\ d \in Int
          BY <1>2, <1>5, <2>2
        <4>3. PICK a \in Int, b \in Int, c \in Int, e \in Int, f \in Int :
                a = p[j] /\ b = p[j - 1] /\ c = s[l[j]] /\ e = HdrSize /\ f = d
          BY <4>2
        <4>4. a = b + c + e
          BY <2>2, <4>3
        <4>5. a + f = b + (c + f) + e
          BY <4>1, <4>4
        <4> QED BY <4>3, <4>5
      <3> QED BY <3>1, <3>2
    <2>5. CASE j > i
      <3>1. q[j] = p[j] + d /\ q[j - 1] = p[j - 1] + d /\ t[m[j]] = s[l[j]]
        <4>1. ~(j < i) /\ ~(j - 1 < i) /\ j # i
          BY <1>2, <2>5
        <4> QED BY <1>1, <1>7, <2>1, <4>1
      <3>2. /\ p[j] \in Int /\ p[j - 1] \in Int /\ s[l[j]] \in Int
            /\ HdrSize \in Int /\ d \in Int
        BY <1>2, <1>5, <2>2
      <3>3. p[j] + d = (p[j - 1] + d) + s[l[j]] + HdrSize
        <4>1. PICK a \in Int, b \in Int, c \in Int, e \in Int, f \in Int :
                a = p[j] /\ b = p[j - 1] /\ c = s[l[j]] /\ e = HdrSize /\ f = d
          BY <3>2
        <4>2. a = b + c + e
          BY <2>2, <4>1
        <4>3. a + f = (b + f) + c + e
          BY <4>2, Moved
        <4> QED BY <4>1, <4>3
      <3> QED BY <3>1, <3>3
    <2> QED BY <1>2, <2>1, <2>3, <2>4, <2>5
  <1>9. q[Len(m)] = p[Len(l)] + d
    <2>1. Len(l) \in 0 .. Len(l) /\ ~(Len(l) < i)
      BY <1>2
    <2> QED BY <1>1, <1>7, <2>1
  <1>10. Counts(m, t, q)
    BY <1>6, <1>8 DEF Counts
  <1> QED BY <1>9, <1>10 DEF d, TakeUp

(* Quotient and remainder, *)
LEMMA ModDef ==
  ASSUME NEW W \in Nat \ {0}, NEW x \in Int
  PROVE /\ x % W \in 0 .. W - 1 /\ x \div W \in Int /\ x = W * (x \div W) + (x % W)
  OBVIOUS

(* of which there is one, *)
LEMMA ModUnique ==
  ASSUME NEW W \in Nat \ {0}, NEW x \in Int, NEW q \in Int, NEW r \in 0 .. W - 1, x = W * q + r
  PROVE x % W = r
  <1>1. PICK a \in Int, b \in Int : a = x \div W /\ b = x % W /\ b \in 0 .. W - 1 /\ x = W * a + b
    BY ModDef
  <1>2. W * (q - a) = b - r
    BY <1>1
  <1>3. q - a < 1
    <2>1. SUFFICES ASSUME q - a >= 1 PROVE FALSE
      BY <1>1
    <2>2. W * (q - a) >= W
      BY <1>1, <2>1
    <2> QED BY <1>1, <1>2, <2>2
  <1>4. a - q < 1
    <2>1. SUFFICES ASSUME a - q >= 1 PROVE FALSE
      BY <1>1
    <2>2. W * (a - q) >= W
      BY <1>1, <2>1
    <2> QED BY <1>1, <1>2, <2>2
  <1>5. a = q
    BY <1>1, <1>3, <1>4
  <1> QED BY <1>1, <1>5

(* so that unsigned sums may wrap on the way. *)
LEMMA ModAdd ==
  ASSUME NEW W \in Nat \ {0}, NEW x \in Int, NEW k \in Int
  PROVE  ((x % W) + k) % W = (x + k) % W
  <1>1. PICK a \in Int, b \in Int : a = x \div W /\ b = x % W /\ b \in 0 .. W - 1 /\ x = W * a + b
    BY ModDef
  <1>2. PICK c \in Int, d \in Int : d = (b + k) % W /\ d \in 0 .. W - 1 /\ b + k = W * c + d
    <2>1. b + k \in Int
      BY <1>1
    <2> QED BY <2>1, ModDef
  <1>3. x + k = W * (a + c) + d
    <2>1. W * (a + c) = W * a + W * c
      BY <1>1, <1>2
    <2>2. PICK u \in Int, v \in Int : u = W * a /\ v = W * c
      BY <1>1, <1>2
    <2>3. W * (a + c) = u + v
      BY <2>1, <2>2
    <2>4. x = u + b /\ b + k = v + d
      BY <1>1, <1>2, <2>2
    <2>5. x + k = (u + v) + d
      BY <2>4
    <2> QED BY <2>3, <2>5
  <1>4. x + k \in Int /\ a + c \in Int
    BY <1>1
  <1>5. (x + k) % W = d
    BY <1>2, <1>3, <1>4, ModUnique
  <1> QED BY <1>1, <1>2, <1>5

(* uMemFree is what FreeBytes says, in the words of the counts. *)
Exact(h) ==
  \E p : Counts(h.pmbFree, h.uSize, p) /\ h.uMemFree = (p[Len(h.pmbFree)] - HdrSize) % Word

(* When the bytes of the list change by k and uMemFree by as much, it stays  *)
(* exact.                                                                    *)
LEMMA ExactMoves ==
  ASSUME NEW h, NEW w, Good(h, w), NEW g, NEW v, Good(g, v), NEW k \in Int,
         NEW p, Counts(h.pmbFree, h.uSize, p),
         h.uMemFree = (p[Len(h.pmbFree)] - HdrSize) % Word,
         NEW q, Counts(g.pmbFree, g.uSize, q),
         q[Len(g.pmbFree)] = p[Len(h.pmbFree)] + k,
         g.uMemFree = (h.uMemFree + k) % Word
  PROVE  Exact(g)
  <1>1. Word \in Nat \ {0} /\ HdrSize \in Int
    BY HeapAssumption
  <1>2. p[Len(h.pmbFree)] \in Int
    <2>1. h.pmbFree \in Seq(Offsets)
      BY HeapParts
    <2>2. Len(h.pmbFree) \in 0 .. Len(h.pmbFree)
      BY <2>1
    <2> QED BY <2>2 DEF Counts
  <1>3. PICK x \in Int : x = p[Len(h.pmbFree)]
    BY <1>2
  <1>4. PICK y \in Int : y = x - HdrSize
    BY <1>1
  <1>5. ((y % Word) + k) % Word = (y + k) % Word
    BY <1>1, ModAdd
  <1>6. y + k = (x + k) - HdrSize
    BY <1>1, <1>4
  <1>7. g.uMemFree = (q[Len(g.pmbFree)] - HdrSize) % Word
    BY <1>3, <1>4, <1>5, <1>6
  <1> QED BY <1>7 DEF Exact

(* Release. *)
LEMMA ReleaseExact ==
  ASSUME NEW h, NEW w, Good(h, w), NEW b \in h.pmbUsed, Exact(h),
         NEW h2, h2 = Release(h, b), NEW w2, Good(h2, w2)
  PROVE  Exact(h2)
  <1>1. /\ h.pmbFree \in Seq(Offsets) /\ b \in Offsets
        /\ h.uSize \in [Offsets -> 0 .. HeapSize] /\ h.uMemFree \in 0 .. Word - 1
        /\ h = [pmbFree |-> h.pmbFree, pmbUsed |-> h.pmbUsed, uSize |-> h.uSize,
                uMemFree |-> h.uMemFree]
        /\ HdrSize \in Nat /\ HeapSize \in Nat /\ Word \in Nat
    BY HeapParts, HeapAssumption
  <1>2. /\ h2.pmbFree = <<b>> \o h.pmbFree /\ h2.uSize = h.uSize
        /\ h2.uMemFree = (h.uMemFree + h.uSize[b] + HdrSize) % Word
    BY <1>1 DEF Release
  <1>3. PICK p : /\ Counts(h.pmbFree, h.uSize, p)
                 /\ h.uMemFree = (p[Len(h.pmbFree)] - HdrSize) % Word
    BY DEF Exact
  <1>4. PICK q : /\ Counts(<<b>> \o h.pmbFree, h.uSize, q)
                 /\ q[Len(<<b>> \o h.pmbFree)] = p[Len(h.pmbFree)] + (h.uSize[b] + HdrSize)
    BY <1>1, <1>3, CountInFront
  <1>5. PICK k \in Int : k = h.uSize[b] + HdrSize
    BY <1>1
  <1>6. h.uMemFree + h.uSize[b] + HdrSize = h.uMemFree + k
    BY <1>1, <1>5
  <1>7. Counts(h2.pmbFree, h2.uSize, q) /\ q[Len(h2.pmbFree)] = p[Len(h.pmbFree)] + k
    BY <1>2, <1>4, <1>5
  <1>8. h2.uMemFree = (h.uMemFree + k) % Word
    BY <1>2, <1>6
  <1> QED BY <1>3, <1>7, <1>8, ExactMoves

(* Where the blocks are in the list after RemoveAt. *)
LEMMA RemoveAtFacts ==
  ASSUME NEW S, NEW l \in Seq(S), NEW i \in DOMAIN l
  PROVE  RemoveAt(l, i) \in Seq(S) /\ Without(l, i, RemoveAt(l, i))
  <1>1. DOMAIN l = 1 .. Len(l) /\ Len(l) \in Nat /\ i \in 1 .. Len(l)
    OBVIOUS
  <1>2. RemoveAt(l, i) = SubSeq(l, 1, i - 1) \o SubSeq(l, i + 1, Len(l))
    BY DEF RemoveAt
  <1>3. /\ SubSeq(l, 1, i - 1) \in Seq(S)
        /\ SubSeq(l, i + 1, Len(l)) \in Seq(S)
        /\ Len(SubSeq(l, 1, i - 1)) = i - 1
        /\ Len(SubSeq(l, i + 1, Len(l))) = Len(l) - i
    BY <1>1
  <1>4. PICK P \in Seq(S), Q \in Seq(S) :
          /\ P = SubSeq(l, 1, i - 1) /\ Q = SubSeq(l, i + 1, Len(l))
          /\ Len(P) = i - 1 /\ Len(Q) = Len(l) - i
    BY <1>3
  <1>5. P \o Q \in Seq(S) /\ Len(P \o Q) = Len(P) + Len(Q)
    OBVIOUS
  <1>6. P \o Q \in Seq(S) /\ Len(P \o Q) = Len(l) - 1
    <2>1. PICK n \in Nat : n = Len(l)
      BY <1>1
    <2>2. Len(P \o Q) = (i - 1) + (n - i)
      BY <1>4, <1>5, <2>1
    <2>3. (i - 1) + (n - i) = n - 1
      BY <1>1
    <2> QED BY <1>5, <2>1, <2>2, <2>3
  <1>7. ASSUME NEW j \in 1 .. Len(l) - 1
        PROVE  (P \o Q)[j] = IF j < i THEN l[j] ELSE l[j + 1]
    <2>1. CASE j < i
      <3>1. (P \o Q)[j] = P[j]
        BY <1>1, <1>4, <2>1
      <3>2. P[j] = l[j]
        BY <1>1, <1>4, <2>1
      <3> QED BY <2>1, <3>1, <3>2
    <2>2. CASE ~(j < i)
      <3>1. j \in Int /\ Len(P) < j /\ j <= Len(P) + Len(Q)
        BY <1>1, <1>4, <2>2
      <3>2. (P \o Q)[j] = Q[j - Len(P)]
        BY <3>1, ConcatRight
      <3>3. Q[j - (i - 1)] = l[j + 1]
        BY <1>1, <1>4, <2>2
      <3> QED BY <1>4, <2>2, <3>2, <3>3
    <2> QED BY <2>1, <2>2
  <1> QED BY <1>2, <1>4, <1>6, <1>7 DEF Without

(* npvAllocateBlock. *)
LEMMA AllocateExact ==
  ASSUME NEW h, NEW w, Good(h, w), NEW i \in DOMAIN h.pmbFree, Exact(h),
         NEW r \in Nat, r % 4 = 0, r >= 4, h.uSize[h.pmbFree[i]] >= r,
         NEW h2, h2 = npvAllocateBlock(h, i, r), NEW w2, Good(h2, w2)
  PROVE  Exact(h2)
  <1> DEFINE b == h.pmbFree[i]
             new == b + HdrSize + r
             l == h.pmbFree
             s == h.uSize
             B == BlocksOf(h)
  <1>1. /\ l \in Seq(Offsets) /\ s \in [Offsets -> 0 .. HeapSize]
        /\ h.uMemFree \in 0 .. Word - 1 /\ Listed(l) \subseteq B
        /\ IsInjective(l) /\ Tile(B, s)
    BY HeapParts
  <1>2. /\ DOMAIN l = 1 .. Len(l) /\ Len(l) \in Nat /\ i \in 1 .. Len(l)
        /\ \A j \in DOMAIN l : l[j] \in Listed(l) /\ l[j] \in Offsets
    BY <1>1, ListedFacts
  <1>3. b \in Offsets /\ s[b] \in Nat /\ b \in B /\ b = l[i]
    BY <1>1, <1>2, ListSizes
  <1>4. HdrSize \in Nat \ {0} /\ HeapSize \in Nat /\ Word \in Nat
    BY HeapAssumption
  <1>5. PICK p : Counts(l, s, p) /\ h.uMemFree = (p[Len(l)] - HdrSize) % Word
    BY DEF Exact
  <1>6. p[Len(l)] \in Int
    <2>1. Len(l) \in 0 .. Len(l)
      BY <1>2
    <2> QED BY <1>5, <2>1 DEF Counts
  <1>7. CASE Leftover(h, b, r)
    <2> DEFINE s2 == make_new_free(h, b, r)
               l2 == [h.pmbFree EXCEPT ![i] = new]
    <2>1. r + HdrSize + 4 <= s[b]
      BY <1>4, <1>7 DEF Leftover, MIN_Leftover, MIN_FragSize
    <2>2. s2 = [s EXCEPT ![b] = r, ![new] = s[b] - (r + HdrSize)]
      BY DEF make_new_free
    <2>3. /\ h2.pmbFree = l2 /\ h2.uSize = s2
          /\ h2.uMemFree = (h.uMemFree - (s2[b] + HdrSize)) % Word
      BY <1>7 DEF npvAllocateBlock
    <2>4. l2 \in Seq(Offsets) /\ s2 \in [Offsets -> 0 .. HeapSize]
      <3>1. h2.pmbFree \in Seq(Offsets) /\ h2.uSize \in [Offsets -> 0 .. HeapSize]
        BY HeapParts
      <3> QED BY <2>3, <3>1
    <2>5. Len(l2) = Len(l) /\ l2[i] = new /\ \A j \in 1 .. Len(l) : j # i => l2[j] = l[j]
      BY <1>1, <1>2, <2>4
    <2> HIDE DEF s2, l2, new, b, l, s, B
    <2>6. new \in Offsets \ B /\ Tile(B \cup {new}, s2)
      <3>1. new = b + HdrSize + r
        BY DEF new
      <3>2. Tile(B, s) /\ b \in B /\ r \in Nat /\ r % 4 = 0 /\ r >= 4
        BY <1>1, <1>3
      <3> QED BY <2>1, <2>2, <3>1, <3>2, Split
    <2>7. new # b
      BY <1>3, <2>6
    <2>8. s2[b] = r /\ s2[new] = s[b] - (r + HdrSize)
          /\ \A c \in Offsets : c # b /\ c # new => s2[c] = s[c]
      BY <1>1, <1>3, <2>2, <2>6, <2>7
    <2>9. ASSUME NEW j \in 1 .. Len(l), j # i PROVE s2[l2[j]] = s[l[j]]
      <3>1. l[j] # b
        BY <1>1, <1>2, <1>3, <2>9 DEF IsInjective
      <3>2. l[j] # new
        BY <1>1, <1>2, <2>6
      <3> QED BY <1>2, <2>5, <2>8, <2>9, <3>1, <3>2
    <2>10. SameButOne(l, s, l2, s2, i)
      BY <2>5, <2>9 DEF SameButOne
    <2>11. PICK q : Counts(l2, s2, q) /\ q[Len(l2)] = p[Len(l)] + (s2[l2[i]] - s[l[i]])
      <3>1. l \in Seq(Offsets) /\ s \in [Offsets -> 0 .. HeapSize] /\ i \in 1 .. Len(l)
        BY <1>1, <1>2
      <3>2. TakeUp(l2, s2, p[Len(l)] + (s2[l2[i]] - s[l[i]]))
        BY <1>5, <2>4, <2>10, <3>1, CountReplaced
      <3> QED BY <3>2 DEF TakeUp
    <2>12. PICK k \in Int : k = 0 - (r + HdrSize)
      BY <1>4
    <2>13. s2[l2[i]] - s[l[i]] = k
      <3>1. s2[l2[i]] = s[b] - (r + HdrSize) /\ l[i] = b
        BY <1>3, <2>5, <2>8
      <3> QED BY <1>3, <1>4, <2>12, <3>1
    <2>14. h.uMemFree - (s2[b] + HdrSize) = h.uMemFree + k
      BY <1>1, <1>4, <2>8, <2>12
    <2>15. q[Len(l2)] = p[Len(l)] + k
      BY <2>11, <2>13
    <2>16. h2.uMemFree = (h.uMemFree + k) % Word
      BY <2>3, <2>14
    <2>17. /\ Counts(h.pmbFree, h.uSize, p) /\ Counts(h2.pmbFree, h2.uSize, q)
           /\ h.uMemFree = (p[Len(h.pmbFree)] - HdrSize) % Word
           /\ q[Len(h2.pmbFree)] = p[Len(h.pmbFree)] + k
      BY <1>5, <2>3, <2>11, <2>15 DEF l, s
    <2> QED BY <2>16, <2>17, ExactMoves
  <1>8. CASE ~Leftover(h, b, r)
    <2> DEFINE l2 == RemoveAt(h.pmbFree, i)
    <2>1. /\ h2.pmbFree = l2 /\ h2.uSize = s
          /\ h2.uMemFree = (h.uMemFree - (s[b] + HdrSize)) % Word
      BY <1>8 DEF npvAllocateBlock
    <2>2. Without(l, i, l2)
      BY <1>1, RemoveAtFacts
    <2> HIDE DEF l2, b, l, s, new
    <2>3. PICK q : Counts(l2, s, q) /\ q[Len(l2)] = p[Len(l)] - (s[l[i]] + HdrSize)
      <3>1. TakeUp(l2, s, p[Len(l)] - (s[l[i]] + HdrSize))
        BY <1>1, <1>2, <1>5, <2>2, CountTakenOut
      <3> QED BY <3>1 DEF TakeUp
    <2>4. PICK k \in Int : k = 0 - (s[b] + HdrSize)
      BY <1>3, <1>4
    <2>5. q[Len(l2)] = p[Len(l)] + k
      BY <1>3, <1>4, <1>6, <2>3, <2>4
    <2>6. h.uMemFree - (s[b] + HdrSize) = h.uMemFree + k
      BY <1>1, <1>3, <1>4, <2>4
    <2>7. h2.uMemFree = (h.uMemFree + k) % Word
      BY <2>1, <2>6
    <2>8. /\ Counts(h.pmbFree, h.uSize, p) /\ Counts(h2.pmbFree, h2.uSize, q)
          /\ h.uMemFree = (p[Len(h.pmbFree)] - HdrSize) % Word
          /\ q[Len(h2.pmbFree)] = p[Len(h.pmbFree)] + k
      BY <1>5, <2>1, <2>3, <2>5 DEF l, s
    <2> QED BY <2>7, <2>8, ExactMoves
  <1> QED BY <1>7, <1>8

(* compact: the k-th block c of the list becomes part of b. *)
LEMMA CoalesceExact ==
  ASSUME NEW h, NEW w, Good(h, w), Exact(h),
         NEW b \in Listed(h.pmbFree), NEW k \in DOMAIN h.pmbFree,
         NEW c, c = h.pmbFree[k], b # c,
         NEW l2 \in Seq(Offsets), Without(h.pmbFree, k, l2),
         IsInjective(l2), Listed(l2) = Listed(h.pmbFree) \ {c},
         NEW h2, h2 = Merged(h, b, c, l2), Good(h2, w)
  PROVE  Exact(h2)
  <1> DEFINE l == h.pmbFree
             s == h.uSize
             s2 == Join(h, b, c)
  <1>1. /\ l \in Seq(Offsets) /\ s \in [Offsets -> 0 .. HeapSize]
        /\ h = [pmbFree |-> h.pmbFree, pmbUsed |-> h.pmbUsed, uSize |-> h.uSize,
                uMemFree |-> h.uMemFree]
    BY HeapParts
  <1>2. /\ DOMAIN l = 1 .. Len(l) /\ Len(l) \in Nat /\ k \in 1 .. Len(l)
        /\ c \in Offsets /\ b \in Offsets /\ c = l[k]
    BY <1>1, ListedFacts
  <1>3. HdrSize \in Nat /\ HeapSize \in Nat /\ s[b] \in Nat /\ s[c] \in Nat
    BY <1>1, <1>2, HeapAssumption
  <1>4. h2.pmbFree = l2 /\ h2.uSize = s2 /\ h2.uMemFree = h.uMemFree
    BY <1>1 DEF Merged
  <1>5. s2[b] = s[b] + HdrSize + s[c] /\ \A d \in Offsets : d # b /\ d # c => s2[d] = s[d]
    BY <1>1, <1>2 DEF Join
  <1>6. s2 \in [Offsets -> 0 .. HeapSize]
    BY <1>4, HeapParts
  <1>7. PICK p : Counts(l, s, p) /\ h.uMemFree = (p[Len(l)] - HdrSize) % Word
    BY DEF Exact
  <1>8. p[Len(l)] \in Int
    <2>1. Len(l) \in 0 .. Len(l)
      BY <1>2
    <2> QED BY <1>7, <2>1 DEF Counts
  <1>9. Without(l, k, l2)
    OBVIOUS
  <1> HIDE DEF l, s, s2
  <1>10. PICK q : Counts(l2, s, q) /\ q[Len(l2)] = p[Len(l)] - (s[l[k]] + HdrSize)
    <2>1. l \in Seq(Offsets) /\ s \in [Offsets -> 0 .. HeapSize] /\ k \in 1 .. Len(l)
      BY <1>1, <1>2
    <2>2. TakeUp(l2, s, p[Len(l)] - (s[l[k]] + HdrSize))
      BY <1>7, <1>9, <2>1, CountTakenOut
    <2> QED BY <2>2 DEF TakeUp
  <1>11. /\ DOMAIN l2 = 1 .. Len(l2)
         /\ \A j \in DOMAIN l2 : l2[j] \in Listed(l2) /\ l2[j] \in Offsets
    BY ListedFacts
  <1>12. PICK i \in 1 .. Len(l2) : l2[i] = b
    <2>1. b \in Listed(l2)
      OBVIOUS
    <2> QED BY <1>11, <2>1 DEF Listed
  <1>13. ASSUME NEW j \in 1 .. Len(l2), j # i PROVE s2[l2[j]] = s[l2[j]]
    <2>1. l2[j] # b
      BY <1>11, <1>12, <1>13 DEF IsInjective
    <2>2. l2[j] # c
      BY <1>11
    <2> QED BY <1>5, <1>11, <2>1, <2>2
  <1>14. SameButOne(l2, s, l2, s2, i)
    BY <1>13 DEF SameButOne
  <1>15. PICK u : Counts(l2, s2, u) /\ u[Len(l2)] = q[Len(l2)] + (s2[l2[i]] - s[l2[i]])
    <2>1. s \in [Offsets -> 0 .. HeapSize] /\ i \in 1 .. Len(l2)
      BY <1>1
    <2>2. TakeUp(l2, s2, q[Len(l2)] + (s2[l2[i]] - s[l2[i]]))
      BY <1>6, <1>10, <1>14, <2>1, CountReplaced
    <2> QED BY <2>2 DEF TakeUp
  <1>16. u[Len(l2)] = p[Len(l)]
    <2>1. PICK x \in Int, y \in Int, z \in Int, t \in Int :
            x = p[Len(l)] /\ y = s[b] /\ z = s[c] /\ t = HdrSize
      BY <1>3, <1>8
    <2>2. q[Len(l2)] = x - (z + t)
      BY <1>2, <1>10, <2>1
    <2>3. s2[l2[i]] - s[l2[i]] = (y + t + z) - y
      BY <1>5, <1>12, <2>1
    <2>4. u[Len(l2)] = (x - (z + t)) + ((y + t + z) - y)
      BY <1>15, <2>2, <2>3
    <2>5. (x - (z + t)) + ((y + t + z) - y) = x
      OBVIOUS
    <2> QED BY <2>1, <2>4, <2>5
  <1>17. h2.uMemFree = (u[Len(h2.pmbFree)] - HdrSize) % Word
    BY <1>4, <1>7, <1>16
  <1>18. Counts(h2.pmbFree, h2.uSize, u)
    BY <1>4, <1>15
  <1> QED BY <1>17, <1>18 DEF Exact

(* HeapInit: one block. *)
LEMMA InitExact == Exact(HeapInit)
  <1>1. /\ HeapSize \in Nat /\ HdrSize \in Nat /\ HdrSize + 4 <= HeapSize
        /\ HeapSize < Word /\ Word \in Nat
    BY HeapAssumption
  <1>2. 0 \in Offsets
    BY HeapAssumption, OffsetFacts
  <1> DEFINE p == [i \in 0 .. 1 |-> IF i = 0 THEN 0 ELSE HeapSize]
  <1>3. /\ HeapInit.pmbFree = <<0>> /\ HeapInit.uMemFree = HeapSize - HdrSize
        /\ HeapInit.uSize[0] = HeapSize - HdrSize
    BY <1>2 DEF HeapInit, NoSizes
  <1>4. Len(<<0>>) = 1 /\ <<0>>[1] = 0
    OBVIOUS
  <1>5. p \in [0 .. 1 -> Int] /\ p[0] = 0 /\ p[1] = HeapSize
    BY <1>1
  <1> HIDE DEF p
  <1>6. p[1] = p[1 - 1] + HeapInit.uSize[<<0>>[1]] + HdrSize
    BY <1>1, <1>3, <1>4, <1>5
  <1>7. Counts(<<0>>, HeapInit.uSize, p)
    BY <1>4, <1>5, <1>6 DEF Counts
  <1>8. (HeapSize - HdrSize) % Word = HeapSize - HdrSize
    BY <1>1
  <1> QED BY <1>3, <1>4, <1>5, <1>7, <1>8 DEF Exact

(* Before the region is allocated there is nothing to count. *)
CInv == acHeap => Exact(heap)

(* malloc. *)
LEMMA MallocExact ==
  ASSUME IInv, CInv, NEW n \in Requests, NEW yes \in {TRUE, ~VmMayFail}, malloc(n, yes)
  PROVE  CInv'
  <1> DEFINE h == Region(yes)
             fit == FirstFit(h, Align(n))
  <1>1. yes \in BOOLEAN /\ n \in Nat /\ HeapSize \in Nat /\ acHeap \in BOOLEAN
    BY HeapAssumption DEF IInv
  <1>2. Good(h, want) /\ IInv'
    BY <1>1, RegionOK, MallocStep
  <1>3. acHeap' = (acHeap \/ yes)
    BY DEF malloc
  <1>4. acHeap' => Exact(h)
    <2>1. CASE ~acHeap /\ yes
      BY <2>1, InitExact DEF Region
    <2>2. CASE ~(~acHeap /\ yes)
      BY <1>1, <1>3, <2>2 DEF Region, CInv
    <2> QED BY <2>1, <2>2
  <1>5. \/ heap' = h
        \/ /\ n \in 1 .. HeapSize
           /\ \E i \in fit : heap' = npvAllocateBlock(h, i, Align(n))
    <2>1. CASE n = 0 \/ n > HeapSize
      BY <2>1 DEF malloc
    <2>2. CASE n \in 1 .. HeapSize /\ h.pmbFree = <<>>
      BY <1>1, <2>2 DEF malloc
    <2>3. CASE n \in 1 .. HeapSize /\ h.pmbFree # <<>>
      <3>1. ~(n = 0 \/ n > HeapSize) /\ ~(n \in 1 .. HeapSize /\ h.pmbFree = <<>>)
        BY <1>1, <2>3
      <3>2. IF fit = {} THEN heap' = h
            ELSE \E i \in fit : heap' = npvAllocateBlock(h, i, Align(n))
        BY <3>1 DEF malloc
      <3> QED BY <2>3, <3>2
    <2> QED BY <1>1, <2>1, <2>2, <2>3
  <1>6. CASE heap' = h
    BY <1>4, <1>6 DEF CInv
  <1> HIDE DEF h
  <1>7. CASE n \in 1 .. HeapSize /\ \E i \in fit : heap' = npvAllocateBlock(h, i, Align(n))
    <2>1. PICK i \in fit : heap' = npvAllocateBlock(h, i, Align(n))
      BY <1>7
    <2>2. i \in DOMAIN h.pmbFree /\ h.uSize[h.pmbFree[i]] >= Align(n)
      BY DEF FirstFit
    <2>3. PICK r \in Nat : r = Align(n) /\ r >= 4 /\ r % 4 = 0
      BY <1>1, <1>7, AlignFacts
    <2>4. Good(heap', want')
      BY <1>2 DEF IInv
    <2>5. PICK g, v : g = heap' /\ v = want'
      OBVIOUS
    <2>6. g = npvAllocateBlock(h, i, r) /\ Good(g, v) /\ h.uSize[h.pmbFree[i]] >= r
      BY <2>1, <2>2, <2>3, <2>4, <2>5
    <2>7. Exact(h) => Exact(g)
      BY <1>2, <2>2, <2>3, <2>6, AllocateExact
    <2> QED BY <1>4, <2>5, <2>7 DEF CInv
  <1> QED BY <1>5, <1>6, <1>7

(* free. *)
LEMMA FreeExact ==
  ASSUME IInv, CInv, NEW b \in Offsets, free(b)
  PROVE  CInv'
  <1>1. b \in heap.pmbUsed /\ heap' = Release(heap, b) /\ acHeap' = acHeap
    BY DEF free, Compact
  <1>2. Good(heap, want) /\ Good(heap', want')
    BY FreeStep DEF IInv
  <1>3. PICK g, v : g = heap' /\ v = want'
    OBVIOUS
  <1>4. Exact(heap) => Exact(g)
    BY <1>1, <1>2, <1>3, ReleaseExact
  <1> QED BY <1>1, <1>3, <1>4 DEF CInv

(* realloc. *)
LEMMA ReallocExact ==
  ASSUME IInv, CInv, NEW b \in Offsets, NEW n \in Requests, realloc(b, n)
  PROVE  CInv'
  <1>1. b \in heap.pmbUsed /\ n \in 1 .. HeapSize /\ acHeap' = acHeap
        /\ Good(heap, want) /\ HeapSize \in Nat
    BY HeapAssumption DEF realloc, IInv
  <1>2. CASE heap.pmbFree = <<>>
    <2>1. heap' = heap
      BY <1>2 DEF realloc
    <2> QED BY <1>1, <2>1 DEF CInv
  <1>3. CASE heap.pmbFree # <<>>
    <2>1. PICK i \in FirstFit(heap, Align(n)) :
            Compact(Release(npvAllocateBlock(heap, i, Align(n)), b), 2, 0)
      BY <1>3 DEF realloc
    <2>2. i \in DOMAIN heap.pmbFree /\ heap.uSize[heap.pmbFree[i]] >= Align(n)
      BY DEF FirstFit
    <2>3. PICK r \in Nat : r = Align(n) /\ r >= n /\ r >= 4 /\ r % 4 = 0
      BY <1>1, AlignFacts
    <2>4. PICK f : f = heap.pmbFree[i]
      OBVIOUS
    <2>5. f \in Offsets /\ want \in [Offsets -> 0 .. HeapSize]
      BY <1>1, <2>2, <2>4, HeapParts, ListedFacts
    <2>6. PICK w1 : /\ w1 \in [Offsets -> 0 .. HeapSize] /\ w1[f] = n
                    /\ \A c \in Offsets : c # f => w1[c] = want[c]
      <3>1. [want EXCEPT ![f] = n] \in [Offsets -> 0 .. HeapSize]
        BY <1>1, <2>5
      <3> QED BY <2>5, <3>1
    <2>7. PICK h1 : h1 = npvAllocateBlock(heap, i, r)
      OBVIOUS
    <2>8. Good(h1, w1) /\ b \in h1.pmbUsed
      <3>1. /\ heap.uSize[heap.pmbFree[i]] >= r /\ n <= r /\ w1[heap.pmbFree[i]] = n
            /\ \A c \in Offsets : c # heap.pmbFree[i] => w1[c] = want[c]
        BY <1>1, <2>2, <2>3, <2>4, <2>6
      <3>2. Good(h1, w1) /\ h1.pmbUsed = heap.pmbUsed \cup {heap.pmbFree[i]}
        BY <1>1, <2>2, <2>3, <2>6, <2>7, <3>1, Allocated
      <3> QED BY <1>1, <3>2
    <2>9. Exact(heap) => Exact(h1)
      <3>1. heap.uSize[heap.pmbFree[i]] >= r
        BY <2>2, <2>3
      <3> QED BY <1>1, <2>2, <2>3, <2>7, <2>8, <3>1, AllocateExact
    <2>10. PICK g, v : g = heap' /\ v = want'
      OBVIOUS
    <2>11. g = Release(h1, b)
      BY <2>1, <2>3, <2>7, <2>10 DEF Compact
    <2>12. Good(g, v)
      BY <2>10, ReallocStep DEF IInv
    <2>13. Exact(h1) => Exact(g)
      BY <2>8, <2>11, <2>12, ReleaseExact
    <2> QED BY <1>1, <2>9, <2>10, <2>13 DEF CInv
  <1> QED BY <1>2, <1>3

(* Tail leaves the first block out. *)
LEMMA TailFacts ==
  ASSUME NEW S, NEW l \in Seq(S), l # <<>>
  PROVE  Without(l, 1, Tail(l))
  <1>1. Len(l) \in Nat \ {0} /\ Len(Tail(l)) = Len(l) - 1
    OBVIOUS
  <1>2. \A j \in 1 .. Len(l) - 1 : Tail(l)[j] = l[j + 1]
    BY <1>1
  <1> QED BY <1>1, <1>2 DEF Without

(* compact. *)
LEMMA CompactExact ==
  ASSUME IInv, CInv, compact
  PROVE  CInv'
  <1> DEFINE head == heap.pmbFree[1]
             cur == heap.pmbFree[pmb]
  <1>1. pmb \in 2 .. Len(heap.pmbFree) /\ acHeap' = acHeap /\ want' = want
    BY DEF compact, IInv
  <1>2. /\ Good(heap, want) /\ heap.pmbFree \in Seq(Offsets)
        /\ IsInjective(heap.pmbFree)
    BY HeapParts DEF IInv
  <1>3. /\ pmb \in DOMAIN heap.pmbFree /\ 1 \in DOMAIN heap.pmbFree /\ pmb # 1
        /\ heap.pmbFree # <<>>
    BY <1>1, <1>2
  <1>4. /\ head \in Listed(heap.pmbFree) /\ cur \in Listed(heap.pmbFree) /\ head # cur
        /\ acHeap
    <2>1. acHeap
      BY <1>3 DEF IInv
    <2>2. head # cur
      BY <1>2, <1>3 DEF IsInjective
    <2> QED BY <1>2, <1>3, <2>1, <2>2, ListedFacts
  <1>5. Exact(heap)
    BY <1>4 DEF CInv
  <1>6. PICK g : g = heap' /\ Good(g, want)
    <2>1. Good(heap', want)
      BY <1>1, CompactStep DEF IInv
    <2> QED BY <2>1
  <1>7. CASE after(heap, cur) = head
    <2> DEFINE l2 == Tail(heap.pmbFree)
    <2>1. g = Merged(heap, cur, head, l2)
      BY <1>6, <1>7 DEF compact, Compact, Merged
    <2>2. /\ l2 \in Seq(Offsets) /\ IsInjective(l2)
          /\ Listed(l2) = Listed(heap.pmbFree) \ {head}
      BY <1>2, <1>3, HeadTaken
    <2>3. PICK k \in DOMAIN heap.pmbFree : k = 1
      BY <1>3
    <2>4. Without(heap.pmbFree, k, l2)
      BY <1>2, <1>3, <2>3, TailFacts
    <2> HIDE DEF l2
    <2>5. head = heap.pmbFree[k]
      BY <2>3
    <2> HIDE DEF head, cur
    <2>6. Exact(g)
      BY <1>2, <1>4, <1>5, <1>6, <2>1, <2>2, <2>4, <2>5, CoalesceExact
    <2> QED BY <1>6, <2>6 DEF CInv
  <1>8. CASE after(heap, cur) # head /\ after(heap, head) = cur
    <2> DEFINE l2 == RemoveAt(heap.pmbFree, pmb)
    <2>1. g = Merged(heap, head, cur, l2)
      BY <1>6, <1>8 DEF compact, Compact, Merged
    <2>2. /\ l2 \in Seq(Offsets) /\ IsInjective(l2)
          /\ Listed(l2) = Listed(heap.pmbFree) \ {cur}
      BY <1>2, <1>3, TakenOut
    <2>3. PICK k \in DOMAIN heap.pmbFree : k = pmb
      BY <1>3
    <2>4. Without(heap.pmbFree, k, l2)
      BY <1>2, <1>3, <2>3, RemoveAtFacts
    <2> HIDE DEF l2
    <2>5. cur = heap.pmbFree[k]
      BY <2>3
    <2> HIDE DEF head, cur
    <2>6. Exact(g)
      BY <1>2, <1>4, <1>5, <1>6, <2>1, <2>2, <2>4, <2>5, CoalesceExact
    <2> QED BY <1>6, <2>6 DEF CInv
  <1>9. CASE after(heap, cur) # head /\ after(heap, head) # cur
    <2>1. heap' = heap
      BY <1>9 DEF compact, Compact
    <2> QED BY <1>5, <2>1 DEF CInv
  <1> QED BY <1>7, <1>8, <1>9

(* MemFreeExact: uMemFree is the bytes of the free blocks, their headers    *)
(* included, less one header, through every split, release and join, and    *)
(* in the middle of compact.                                                *)
THEOREM FreeBytesAccounted == Spec => []MemFreeExact
  <1>1. Init => CInv
    BY DEF Init, CInv
  <1>2. IInv /\ CInv /\ [Next]_vars => CInv'
    <2> SUFFICES ASSUME IInv, CInv, [Next]_vars PROVE CInv'
      OBVIOUS
    <2>1. CASE \E n \in Requests, yes \in {TRUE, ~VmMayFail} : malloc(n, yes)
      BY <2>1, MallocExact
    <2>2. CASE \E b \in Offsets : free(b)
      BY <2>2, FreeExact
    <2>3. CASE \E b \in Offsets, n \in Requests : realloc(b, n)
      BY <2>3, ReallocExact
    <2>4. CASE compact
      BY <2>4, CompactExact
    <2>5. CASE UNCHANGED vars
      BY <2>5 DEF vars, CInv
    <2> QED BY <2>1, <2>2, <2>3, <2>4, <2>5 DEF Next
  <1>3. IInv /\ CInv => MemFreeExact
    <2> SUFFICES ASSUME IInv, CInv, acHeap
                 PROVE  heap.uMemFree
                          = (FreeBytes(heap.pmbFree, heap.uSize) - HdrSize) % Word
      BY DEF MemFreeExact
    <2>1. PICK p : /\ Counts(heap.pmbFree, heap.uSize, p)
                   /\ heap.uMemFree = (p[Len(heap.pmbFree)] - HdrSize) % Word
      BY DEF CInv, Exact
    <2>2. heap.pmbFree \in Seq(Offsets) /\ heap.uSize \in [Offsets -> 0 .. HeapSize]
      BY HeapParts DEF IInv
    <2>3. FreeBytes(heap.pmbFree, heap.uSize) = p[Len(heap.pmbFree)]
      BY <2>1, <2>2, FreeBytesCounted
    <2> QED BY <2>1, <2>3
  <1> QED BY <1>1, <1>2, <1>3, Invariance, PTL DEF Spec
=============================================================================
