--------------------------- MODULE HwParamsProofs ---------------------------
(***************************************************************************)
(* Proofs about the negotiation of the sizes (HwParams): what is installed *)
(* is a configuration of the card, and no rule, in whatever order the      *)
(* rules wake each other, takes one away.                                  *)
(*                                                                         *)
(* The argument: each of the interval operations of pcm_lib.c keeps every  *)
(* value its result ought to have, saturation and rounding included, and   *)
(* snd_interval_refine keeps what both its arguments have; so a rule keeps *)
(* the values of each configuration (Kept). What the call takes from the   *)
(* bounds, and HW_PARAMS from the values, rests on rules that have run     *)
(* since their arguments changed (Refined, Checked): the stamps say so.    *)
(*                                                                         *)
(* The third result is that the sizes the call asks for are accepted. When *)
(* all rules have run since their arguments changed the bounds of the      *)
(* sizes agree with each other (Settled), so the period and the number of  *)
(* periods taken from them make a configuration of the card (Offered):     *)
(* the rules keep it, or the list of period sizes crosses the bounds of    *)
(* the period and leaves one of its members, which the second attempt asks *)
(* for (Suggested). RInv says where in the call each of these holds.       *)
(***************************************************************************)
EXTENDS HwParams, TLAPS, NaturalsInduction, WellFoundedInduction

(* The intervals the sizes go through; one that became empty keeps bounds   *)
(* that crossed.                                                            *)
IntervalRec ==
  [min : 0 .. UINT_MAX + 1, openmin : BOOLEAN, max : -1 .. UINT_MAX,
   openmax : BOOLEAN, integer : BOOLEAN, empty : BOOLEAN]

(* Whole numbers have closed bounds, and bounds that crossed are marked. *)
Good(i) ==
  /\ i \in IntervalRec
  /\ i.integer => ~i.openmin /\ ~i.openmax
  /\ ~i.empty => ~snd_interval_checkempty(i)

(* The intervals the rules cut to. *)
Cutter ==
  [min : 0 .. UINT_MAX, openmin : BOOLEAN, max : Nat,
   openmax : BOOLEAN, integer : BOOLEAN, empty : {FALSE}]

(* Whether cutting i to v moves a bound. *)
Lo(i, v) == i.min < v.min \/ (i.min = v.min /\ ~i.openmin /\ v.openmin)
Hi(i, v) == i.max > v.max \/ (i.max = v.max /\ ~i.openmax /\ v.openmax)

(* What cutting makes of each part of an interval. *)
LEMMA CutFields ==
  ASSUME NEW i \in IntervalRec, NEW v \in Cutter
  PROVE  /\ Cut(i, v).i.min = IF Lo(i, v) THEN v.min ELSE i.min
         /\ Cut(i, v).i.max = IF Hi(i, v) THEN v.max ELSE i.max
         /\ Cut(i, v).i.openmin = IF Lo(i, v) THEN v.openmin ELSE i.openmin
         /\ Cut(i, v).i.openmax = IF Hi(i, v) THEN v.openmax ELSE i.openmax
         /\ Cut(i, v).i.integer = (i.integer \/ v.integer)
         /\ Cut(i, v).i.empty = i.empty
         /\ Cut(i, v).changed = (Lo(i, v) \/ Hi(i, v) \/ (v.integer /\ ~i.integer))
  <1>1. Cut(i, v).i.min = IF Lo(i, v) THEN v.min ELSE i.min
    BY DEF Cut, Lo, Hi, IntervalRec
  <1>2. Cut(i, v).i.max = IF Hi(i, v) THEN v.max ELSE i.max
    BY DEF Cut, Lo, Hi, IntervalRec
  <1>3. Cut(i, v).i.openmin = IF Lo(i, v) THEN v.openmin ELSE i.openmin
    BY DEF Cut, Lo, Hi, IntervalRec
  <1>4. Cut(i, v).i.openmax = IF Hi(i, v) THEN v.openmax ELSE i.openmax
    BY DEF Cut, Lo, Hi, IntervalRec
  <1>5. Cut(i, v).i.integer = (i.integer \/ v.integer)
    BY DEF Cut, Lo, Hi, IntervalRec
  <1>6. Cut(i, v).i.empty = i.empty
    BY DEF Cut, Lo, Hi, IntervalRec
  <1>7. Cut(i, v).changed = (Lo(i, v) \/ Hi(i, v) \/ (v.integer /\ ~i.integer))
    BY DEF Cut, Lo, Hi, IntervalRec
  <1> QED BY <1>1, <1>2, <1>3, <1>4, <1>5, <1>6, <1>7

(* What Whole makes of each part of an interval. *)
LEMMA WholeFields ==
  ASSUME NEW i,
         i \in [min : Int, openmin : BOOLEAN, max : Int,
                openmax : BOOLEAN, integer : BOOLEAN, empty : BOOLEAN]
  PROVE  /\ Whole(i).min = IF i.integer /\ i.openmin THEN i.min + 1 ELSE i.min
         /\ Whole(i).max = IF i.integer /\ i.openmax THEN i.max - 1 ELSE i.max
         /\ Whole(i).openmin = (~i.integer /\ i.openmin)
         /\ Whole(i).openmax = (~i.integer /\ i.openmax)
         /\ Whole(i).integer = (i.integer \/ (i.min = i.max /\ ~i.openmin /\ ~i.openmax))
         /\ Whole(i) \in [min : Int, openmin : BOOLEAN, max : Int,
                openmax : BOOLEAN, integer : BOOLEAN, empty : BOOLEAN]
  <1>1. CASE i.integer
    <2>1. Whole(i).min = IF i.openmin THEN i.min + 1 ELSE i.min
      BY <1>1 DEF Whole
    <2>2. Whole(i).max = IF i.openmax THEN i.max - 1 ELSE i.max
      BY <1>1 DEF Whole
    <2>3. Whole(i).openmin = FALSE /\ Whole(i).openmax = FALSE
      BY <1>1 DEF Whole
    <2>4. Whole(i).integer = i.integer
      BY <1>1 DEF Whole
    <2>5. i.integer = TRUE
      BY <1>1
    <2>6. Whole(i) \in [min : Int, openmin : BOOLEAN, max : Int,
                openmax : BOOLEAN, integer : BOOLEAN, empty : BOOLEAN]
      <3> DEFINE a == IF i.openmin THEN i.min + 1 ELSE i.min
                 b == IF i.openmax THEN i.max - 1 ELSE i.max
      <3>1. a \in Int /\ b \in Int
        OBVIOUS
      <3>2. Whole(i) = [i EXCEPT !.min = a, !.openmin = FALSE, !.max = b, !.openmax = FALSE]
        BY <1>1 DEF Whole
      <3> HIDE DEF a, b
      <3> QED BY <3>1, <3>2
    <2> QED BY <2>1, <2>2, <2>3, <2>4, <2>5, <2>6
  <1>2. CASE ~i.integer
    <2>1. Whole(i).min = i.min /\ Whole(i).max = i.max
      BY <1>2 DEF Whole
    <2>2. Whole(i).openmin = i.openmin /\ Whole(i).openmax = i.openmax
      BY <1>2 DEF Whole
    <2>3. Whole(i).integer = (i.min = i.max /\ ~i.openmin /\ ~i.openmax)
      BY <1>2 DEF Whole
    <2>4. i.integer = FALSE
      BY <1>2
    <2>6. Whole(i) \in [min : Int, openmin : BOOLEAN, max : Int,
                openmax : BOOLEAN, integer : BOOLEAN, empty : BOOLEAN]
      BY <1>2 DEF Whole
    <2> QED BY <2>1, <2>2, <2>3, <2>4, <2>6
  <1> QED BY <1>1, <1>2

(* An interval with any bounds. *)
AnyInterval ==
  [min : Int, openmin : BOOLEAN, max : Int,
   openmax : BOOLEAN, integer : BOOLEAN, empty : BOOLEAN]

(* A cut interval is an interval. *)
LEMMA CutType ==
  ASSUME NEW i \in IntervalRec, NEW v \in Cutter
  PROVE  Cut(i, v).i \in AnyInterval
  <1> DEFINE a == IF Lo(i, v) THEN v.min ELSE i.min
             b == IF Hi(i, v) THEN v.max ELSE i.max
             c == IF Lo(i, v) THEN v.openmin ELSE i.openmin
             d == IF Hi(i, v) THEN v.openmax ELSE i.openmax
             e == i.integer \/ v.integer
  <1>1. a \in Int /\ b \in Int /\ c \in BOOLEAN /\ d \in BOOLEAN /\ e \in BOOLEAN
    BY HwParamsAssumption DEF IntervalRec, Cutter
  <1>2. Cut(i, v).i = [i EXCEPT !.min = a, !.openmin = c, !.max = b, !.openmax = d, !.integer = e]
    BY DEF Cut, Lo, Hi
  <1>3. i \in AnyInterval
    BY HwParamsAssumption DEF IntervalRec, AnyInterval
  <1> HIDE DEF a, b, c, d, e
  <1> QED BY <1>1, <1>2, <1>3 DEF AnyInterval

(* What snd_interval_refine makes of each part of an interval. *)
LEMMA RefineFields ==
  ASSUME NEW i \in IntervalRec, NEW v \in Cutter,
         NEW lo \in BOOLEAN, NEW hi \in BOOLEAN, NEW whole \in BOOLEAN,
         lo <=> Lo(i, v), hi <=> Hi(i, v), whole <=> (i.integer \/ v.integer),
         NEW om \in BOOLEAN, NEW oM \in BOOLEAN, 
         om = (IF lo THEN v.openmin ELSE i.openmin),
         oM = (IF hi THEN v.openmax ELSE i.openmax)
  PROVE  LET r == snd_interval_refine(i, v).i
         IN  /\ r \in AnyInterval
             /\ r.min = (IF lo THEN v.min ELSE i.min) + (IF whole /\ om THEN 1 ELSE 0)
             /\ r.max = (IF hi THEN v.max ELSE i.max) - (IF whole /\ oM THEN 1 ELSE 0)
             /\ r.openmin = (~whole /\ om)
             /\ r.openmax = (~whole /\ oM)
             /\ r.integer => (whole \/ (~om /\ ~oM))
             /\ whole => r.integer
             /\ r.empty <=> snd_interval_checkempty(r)
             /\ snd_interval_refine(i, v).changed <=> (lo \/ hi \/ (v.integer /\ ~i.integer))
  <1> DEFINE c == Cut(i, v).i
             w == Whole(c)
             r == snd_interval_refine(i, v).i
  <1>1. c \in AnyInterval
    BY CutType
  <1>2. /\ c.min = IF lo THEN v.min ELSE i.min
        /\ c.max = IF hi THEN v.max ELSE i.max
        /\ c.openmin = om /\ c.openmax = oM
        /\ c.integer = whole
    BY CutFields
  <1>3. /\ w \in AnyInterval
        /\ w.min = IF c.integer /\ c.openmin THEN c.min + 1 ELSE c.min
        /\ w.max = IF c.integer /\ c.openmax THEN c.max - 1 ELSE c.max
        /\ w.openmin = (~c.integer /\ c.openmin)
        /\ w.openmax = (~c.integer /\ c.openmax)
        /\ w.integer = (c.integer \/ (c.min = c.max /\ ~c.openmin /\ ~c.openmax))
    BY <1>1, WholeFields DEF AnyInterval
  <1>4. r = [w EXCEPT !.empty = snd_interval_checkempty(w)]
    BY DEF snd_interval_refine, Emptied
  <1>5. snd_interval_refine(i, v).changed = Cut(i, v).changed
    BY DEF snd_interval_refine
  <1>6. snd_interval_refine(i, v).changed <=> (lo \/ hi \/ (v.integer /\ ~i.integer))
    BY <1>5, CutFields
  <1> HIDE DEF c, w, r
  <1>7. PICK e \in BOOLEAN : e = snd_interval_checkempty(w)
    BY Zenon DEF snd_interval_checkempty
  <1>8. r = [w EXCEPT !.empty = e]
    BY <1>4, <1>7
  <1>9. /\ r \in AnyInterval /\ r.min = w.min /\ r.max = w.max /\ r.openmin = w.openmin
        /\ r.openmax = w.openmax /\ r.integer = w.integer /\ r.empty = e
    BY <1>3, <1>8 DEF AnyInterval
  <1>10. e <=> snd_interval_checkempty(r)
    BY <1>7, <1>9 DEF snd_interval_checkempty
  <1>11. /\ r.min = (IF lo THEN v.min ELSE i.min) + (IF whole /\ om THEN 1 ELSE 0)
         /\ r.max = (IF hi THEN v.max ELSE i.max) - (IF whole /\ oM THEN 1 ELSE 0)
    BY <1>1, <1>2, <1>3, <1>9 DEF AnyInterval
  <1>12. r.openmin = (~whole /\ om) /\ r.openmax = (~whole /\ oM)
    BY <1>2, <1>3, <1>9
  <1>13. (r.integer => (whole \/ (~om /\ ~oM))) /\ (whole => r.integer)
    BY <1>2, <1>3, <1>9
  <1> QED BY <1>6, <1>9, <1>10, <1>11, <1>12, <1>13 DEF r

(* The largest whole number of an interval. *)
Upper(i) == IF i.openmax THEN i.max - 1 ELSE i.max

(* snd_interval_refine narrows to within both of its arguments. *)
LEMMA RefineBounds ==
  ASSUME NEW i, Good(i), NEW v \in Cutter
  PROVE  LET r == snd_interval_refine(i, v).i
         IN  /\ ~i.empty => Good(r)
             /\ r.min \in Int /\ i.min <= r.min /\ v.min <= r.min
             /\ r.max \in Int /\ r.max <= i.max /\ r.max <= v.max
             /\ Upper(r) <= Upper(i) /\ Upper(r) <= Upper(v)
             /\ i.integer \/ v.integer => r.integer
             /\ ~snd_interval_refine(i, v).changed => r.min = i.min /\ r.max = i.max
             /\ i.integer /\ 0 <= i.max /\ (v.openmax => 0 < v.max) => 0 <= r.max
  <1> DEFINE r == snd_interval_refine(i, v).i
  <1>0. i \in IntervalRec /\ UINT_MAX \in Nat
    BY HwParamsAssumption DEF Good
  <1>1. PICK lo \in BOOLEAN : lo <=> Lo(i, v)
    BY Zenon
  <1>2. PICK hi \in BOOLEAN : hi <=> Hi(i, v)
    BY Zenon
  <1>3. PICK whole \in BOOLEAN : whole <=> (i.integer \/ v.integer)
    BY Zenon
  <1>4. PICK om \in BOOLEAN : om = (IF lo THEN v.openmin ELSE i.openmin)
    BY <1>0 DEF IntervalRec, Cutter
  <1>5. PICK oM \in BOOLEAN : oM = (IF hi THEN v.openmax ELSE i.openmax)
    BY <1>0 DEF IntervalRec, Cutter
  <1>6. /\ r \in AnyInterval
        /\ r.min = (IF lo THEN v.min ELSE i.min) + (IF whole /\ om THEN 1 ELSE 0)
        /\ r.max = (IF hi THEN v.max ELSE i.max) - (IF whole /\ oM THEN 1 ELSE 0)
        /\ r.openmin = (~whole /\ om)
        /\ r.openmax = (~whole /\ oM)
        /\ r.integer => (whole \/ (~om /\ ~oM))
        /\ whole => r.integer
        /\ r.empty <=> snd_interval_checkempty(r)
        /\ snd_interval_refine(i, v).changed <=> (lo \/ hi \/ (v.integer /\ ~i.integer))
    BY <1>0, <1>1, <1>2, <1>3, <1>4, <1>5, RefineFields
  <1>7. /\ i.min \in 0 .. UINT_MAX + 1 /\ i.max \in -1 .. UINT_MAX
        /\ i.openmin \in BOOLEAN /\ i.openmax \in BOOLEAN /\ i.integer \in BOOLEAN
        /\ v.min \in 0 .. UINT_MAX /\ v.max \in Nat
        /\ v.openmin \in BOOLEAN /\ v.openmax \in BOOLEAN /\ v.integer \in BOOLEAN
        /\ i.empty \in BOOLEAN
    BY <1>0 DEF IntervalRec, Cutter
  <1>8. /\ i.integer => ~i.openmin /\ ~i.openmax
        /\ ~i.empty => (i.min <= i.max)
    BY <1>7 DEF Good, snd_interval_checkempty
  <1> HIDE DEF r
  <1>9. r.min \in Int /\ r.max \in Int
    BY <1>6 DEF AnyInterval
  <1>10. i.min <= r.min /\ v.min <= r.min
    BY <1>1, <1>6, <1>7, <1>9 DEF Lo
  <1>11. r.max <= i.max /\ r.max <= v.max
    BY <1>2, <1>6, <1>7, <1>9 DEF Hi
  <1>12. Upper(r) <= Upper(i) /\ Upper(r) <= Upper(v)
    BY <1>2, <1>5, <1>6, <1>7, <1>9 DEF Hi, Upper
  <1>13. i.integer \/ v.integer => r.integer
    BY <1>3, <1>6
  <1>14. ~snd_interval_refine(i, v).changed => r.min = i.min /\ r.max = i.max
    <2>1. HAVE ~snd_interval_refine(i, v).changed
    <2>2. ~lo /\ ~hi /\ (v.integer => i.integer)
      BY <1>6, <2>1
    <2>3. om = i.openmin /\ oM = i.openmax /\ (whole => i.integer)
      BY <1>3, <1>4, <1>5, <2>2
    <2>4. (whole => ~om) /\ (whole => ~oM)
      BY <1>8, <2>3
    <2> QED BY <1>6, <1>7, <2>2, <2>4
  <1>15. i.integer /\ 0 <= i.max /\ (v.openmax => 0 < v.max) => 0 <= r.max
    BY <1>2, <1>5, <1>6, <1>7, <1>8, <1>9 DEF Hi
  <1>16. ~i.empty => Good(r)
    <2>1. HAVE ~i.empty
    <2>2. r.min <= UINT_MAX + 1 /\ 0 <= r.min
      BY <1>6, <1>7, <1>8, <2>1, <1>0
    <2>3. r.max <= UINT_MAX /\ -1 <= r.max
      BY <1>6, <1>7, <1>8, <2>1, <1>0, <1>11, <1>9
    <2>4. r \in IntervalRec
      BY <1>6, <1>9, <1>0, <2>2, <2>3 DEF AnyInterval, IntervalRec
    <2>5. r.integer => ~r.openmin /\ ~r.openmax
      BY <1>6
    <2> QED BY <1>6, <2>4, <2>5 DEF Good
  <1> QED BY <1>9, <1>10, <1>11, <1>12, <1>13, <1>14, <1>15, <1>16 DEF r

(* snd_interval_refine keeps every value that both its arguments have. *)
LEMMA RefineHas ==
  ASSUME NEW i, Good(i), NEW v \in Cutter, NEW x \in Int, Has(i, x), Has(v, x)
  PROVE  Has(snd_interval_refine(i, v).i, x)
  <1> DEFINE r == snd_interval_refine(i, v).i
  <1>0. i \in IntervalRec /\ UINT_MAX \in Nat
    BY HwParamsAssumption DEF Good
  <1>1. PICK lo \in BOOLEAN : lo <=> Lo(i, v)
    BY Zenon
  <1>2. PICK hi \in BOOLEAN : hi <=> Hi(i, v)
    BY Zenon
  <1>3. PICK whole \in BOOLEAN : whole <=> (i.integer \/ v.integer)
    BY Zenon
  <1>4. PICK om \in BOOLEAN : om = (IF lo THEN v.openmin ELSE i.openmin)
    BY <1>0 DEF IntervalRec, Cutter
  <1>5. PICK oM \in BOOLEAN : oM = (IF hi THEN v.openmax ELSE i.openmax)
    BY <1>0 DEF IntervalRec, Cutter
  <1>6. /\ r \in AnyInterval
        /\ r.min = (IF lo THEN v.min ELSE i.min) + (IF whole /\ om THEN 1 ELSE 0)
        /\ r.max = (IF hi THEN v.max ELSE i.max) - (IF whole /\ oM THEN 1 ELSE 0)
        /\ r.openmin = (~whole /\ om)
        /\ r.openmax = (~whole /\ oM)
        /\ r.empty <=> snd_interval_checkempty(r)
    BY <1>0, <1>1, <1>2, <1>3, <1>4, <1>5, RefineFields
  <1>7. /\ i.min \in Int /\ i.max \in Int /\ v.min \in Int /\ v.max \in Int
        /\ i.openmin \in BOOLEAN /\ i.openmax \in BOOLEAN
        /\ v.openmin \in BOOLEAN /\ v.openmax \in BOOLEAN
    BY <1>0 DEF IntervalRec, Cutter
  <1>8. /\ i.min < x \/ (i.min = x /\ ~i.openmin)
        /\ i.max > x \/ (i.max = x /\ ~i.openmax)
        /\ v.min < x \/ (v.min = x /\ ~v.openmin)
        /\ v.max > x \/ (v.max = x /\ ~v.openmax)
    BY DEF Has
  <1> HIDE DEF r
  <1>9. r.min \in Int /\ r.max \in Int
    BY <1>6 DEF AnyInterval
  <1>10. r.min < x \/ (r.min = x /\ ~r.openmin)
    <2>1. PICK m \in Int : m = IF lo THEN v.min ELSE i.min
      BY <1>7
    <2>2. m < x \/ (m = x /\ ~om)
      BY <1>4, <1>7, <1>8, <2>1
    <2>3. r.min = m + (IF whole /\ om THEN 1 ELSE 0)
      BY <1>6, <2>1
    <2>4. (om /\ ~whole) <=> r.openmin
      BY <1>6
    <2> QED BY <1>9, <2>2, <2>3, <2>4
  <1>11. r.max > x \/ (r.max = x /\ ~r.openmax)
    <2>1. PICK m \in Int : m = IF hi THEN v.max ELSE i.max
      BY <1>7
    <2>2. m > x \/ (m = x /\ ~oM)
      BY <1>5, <1>7, <1>8, <2>1
    <2>3. r.max = m - (IF whole /\ oM THEN 1 ELSE 0)
      BY <1>6, <2>1
    <2>4. (oM /\ ~whole) <=> r.openmax
      BY <1>6
    <2> QED BY <1>9, <2>2, <2>3, <2>4
  <1>12. ~r.empty
    BY <1>6, <1>9, <1>10, <1>11 DEF snd_interval_checkempty
  <1> QED BY <1>10, <1>11, <1>12 DEF Has, r

(***************************************************************************)
(* Arithmetic.                                                             *)
(***************************************************************************)
(* Products grow with their factors. *)
LEMMA ProductGrows ==
  ASSUME NEW m \in Nat, NEW l \in Nat, NEW x \in Nat, NEW y \in Nat, m <= x, l <= y
  PROVE  /\ m * l <= x * y
         /\ m < x /\ 0 < y => m * l < x * y
         /\ l < y /\ 0 < x => m * l < x * y
  <1>1. m * l <= m * y /\ m * y <= x * y /\ m * l \in Nat /\ m * y \in Nat /\ x * y \in Nat
    OBVIOUS
  <1>2. m < x /\ 0 < y => m * y < x * y
    OBVIOUS
  <1>3. m * l <= x * l /\ x * l <= x * y /\ x * l \in Nat
    OBVIOUS
  <1>4. l < y /\ 0 < x => x * l < x * y
    OBVIOUS
  <1> QED BY <1>1, <1>2, <1>3, <1>4

(* A common factor is dropped. *)
LEMMA FactorDropped ==
  ASSUME NEW u \in Nat, NEW w \in Nat, NEW n \in Nat, 0 < n
  PROVE  /\ u * n <= w * n => u <= w
         /\ u * n < w * n => u < w
  <1>1. w < u => w * n < u * n
    OBVIOUS
  <1>2. w <= u => w * n <= u * n
    OBVIOUS
  <1>3. u * n \in Nat /\ w * n \in Nat
    OBVIOUS
  <1> QED BY <1>1, <1>2, <1>3

(* A quotient and its remainder. *)
LEMMA Quotient ==
  ASSUME NEW a \in Nat, NEW c \in Nat, c # 0
  PROVE  /\ a \div c \in Nat /\ a % c \in Nat
         /\ (a \div c) * c + (a % c) = a /\ a % c < c
  OBVIOUS

(* muldiv32 rounds down and says so, unless it saturates. *)
LEMMA Muldiv ==
  ASSUME NEW a \in Nat, NEW b \in Nat, NEW c \in Nat
  PROVE  LET d == muldiv32(a, b, c)
         IN  /\ d.q \in 0 .. UINT_MAX /\ d.r \in BOOLEAN /\ (d.r => d.q < UINT_MAX)
             /\ c # 0 => /\ d.q * c <= a * b
                         /\ d.r => d.q * c < a * b /\ a * b < (d.q + 1) * c
                         /\ ~d.r => d.q = UINT_MAX \/ d.q * c = a * b
  <1> DEFINE d == muldiv32(a, b, c)
  <1>0. PICK p \in Nat : p = a * b
    OBVIOUS
  <1>1. UINT_MAX \in Nat
    BY HwParamsAssumption
  <1>2. CASE c = 0
    <2>1. d = [q |-> UINT_MAX, r |-> FALSE]
      BY <1>2 DEF muldiv32
    <2>2. d.q = UINT_MAX /\ ~d.r /\ d.r \in BOOLEAN
      BY <2>1
    <2> HIDE DEF d
    <2> QED BY <1>1, <1>2, <2>2 DEF d
  <1>3. CASE c # 0 /\ p \div c >= UINT_MAX
    <2>1. d = [q |-> UINT_MAX, r |-> FALSE]
      BY <1>0, <1>3 DEF muldiv32
    <2>2. p \div c \in Nat /\ p % c \in Nat /\ (p \div c) * c + (p % c) = p
      BY <1>3, Quotient
    <2>3. UINT_MAX * c <= (p \div c) * c
      BY <1>1, <1>3, <2>2, ProductGrows
    <2>4. UINT_MAX * c <= p
      BY <1>1, <2>2, <2>3
    <2>5. d.q = UINT_MAX /\ ~d.r /\ d.r \in BOOLEAN
      BY <2>1
    <2> HIDE DEF d
    <2> QED BY <1>0, <1>1, <1>3, <2>4, <2>5 DEF d
  <1>4. CASE c # 0 /\ ~(p \div c >= UINT_MAX)
    <2>1. d = [q |-> p \div c, r |-> p % c # 0]
      BY <1>0, <1>4 DEF muldiv32
    <2>2. PICK q \in Nat, s \in Nat : q = p \div c /\ s = p % c
      BY <1>4, Quotient
    <2>3. q * c + s = p /\ s < c /\ q < UINT_MAX
      BY <1>4, <1>1, <2>2, Quotient
    <2>4. d.q = q /\ (d.r <=> s # 0) /\ d.r \in BOOLEAN
      <3>1. PICK e \in BOOLEAN : e = (s # 0)
        BY Zenon
      <3>2. d = [q |-> q, r |-> e]
        BY <2>1, <2>2, <3>1
      <3> HIDE DEF d
      <3>3. d.q = q
        BY <3>2
      <3>4. d.r = e
        BY <3>2
      <3> QED BY <3>1, <3>3, <3>4
    <2>5. (q + 1) * c = q * c + c /\ q * c \in Nat
      OBVIOUS
    <2> HIDE DEF d
    <2>6. d.r => d.q * c < a * b /\ a * b < (d.q + 1) * c
      BY <1>0, <2>3, <2>4, <2>5
    <2>7. (~d.r => d.q * c = a * b) /\ d.q * c <= a * b
      BY <1>0, <2>3, <2>4, <2>5
    <2>8. d.q \in 0 .. UINT_MAX /\ (d.r => d.q < UINT_MAX)
      BY <1>1, <2>3, <2>4
    <2> QED BY <2>4, <2>6, <2>7, <2>8 DEF d
  <1> QED BY <1>2, <1>3, <1>4

(***************************************************************************)
(* The interval a rule cuts to.                                            *)
(***************************************************************************)
(* The bounds of an interval that has a value. *)
LEMMA Bounds ==
  ASSUME NEW i, Good(i), ~i.empty
  PROVE  /\ i.min \in 0 .. UINT_MAX /\ i.max \in 0 .. UINT_MAX /\ i.min <= i.max
         /\ i.openmin \in BOOLEAN /\ i.openmax \in BOOLEAN /\ i.integer \in BOOLEAN
         /\ UINT_MAX \in Nat
  BY HwParamsAssumption DEF Good, IntervalRec, snd_interval_checkempty

(* A rounded bound is in range. *)
LEMMA AboveType ==
  ASSUME NEW a \in Nat, NEW b \in Nat, NEW c \in Nat, NEW open \in BOOLEAN
  PROVE  LET h == Above(muldiv32(a, b, c), open)
         IN  /\ h.max \in Nat /\ h.openmax \in BOOLEAN
             /\ h.openmax /\ ~open => 0 < h.max
             /\ h.max = IF muldiv32(a, b, c).r THEN muldiv32(a, b, c).q + 1
                                               ELSE muldiv32(a, b, c).q
             /\ h.openmax <=> (muldiv32(a, b, c).r \/ open)
  <1> DEFINE d == muldiv32(a, b, c)
             h == Above(d, open)
  <1>1. d.q \in 0 .. UINT_MAX /\ d.r \in BOOLEAN /\ UINT_MAX \in Nat
    BY Muldiv, HwParamsAssumption
  <1> HIDE DEF d
  <1>2. PICK o \in BOOLEAN : o = (d.r \/ open)
    BY Zenon
  <1>3. PICK m \in Nat : m = IF d.r THEN d.q + 1 ELSE d.q
    BY <1>1
  <1>4. h = [max |-> m, openmax |-> o]
    BY <1>2, <1>3 DEF Above
  <1>5. h.max = m /\ h.openmax = o
    BY <1>4
  <1> HIDE DEF h
  <1>6. o /\ ~open => 0 < m
    BY <1>1, <1>2, <1>3
  <1> QED BY <1>2, <1>3, <1>5, <1>6 DEF h, d

(* A product can be cut to. *)
LEMMA MulCutter ==
  ASSUME NEW a, Good(a), ~a.empty, NEW b, Good(b), ~b.empty
  PROVE  LET v == snd_interval_mul(a, b)
         IN  v \in Cutter /\ (a.integer /\ b.integer => ~v.openmax)
  <1>0. UINT_MAX \in Nat
    BY HwParamsAssumption
  <1>1. /\ a.min \in Nat /\ a.max \in Nat /\ b.min \in Nat /\ b.max \in Nat
        /\ a.openmin \in BOOLEAN /\ b.openmin \in BOOLEAN
        /\ a.openmax \in BOOLEAN /\ b.openmax \in BOOLEAN
        /\ a.integer \in BOOLEAN /\ b.integer \in BOOLEAN
    BY Bounds, <1>0
  <1>2. \A x, y \in Nat : mul(x, y) \in 0 .. UINT_MAX
    <2>1. TAKE x, y \in Nat
    <2>2. x * y \in Nat
      OBVIOUS
    <2> QED BY <1>0, <2>2 DEF mul
  <1>3. PICK p \in 0 .. UINT_MAX, q \in 0 .. UINT_MAX :
          p = mul(a.min, b.min) /\ q = mul(a.max, b.max)
    BY <1>1, <1>2
  <1>4. PICK o \in BOOLEAN, O \in BOOLEAN, w \in BOOLEAN :
          /\ o = (a.openmin \/ b.openmin) /\ O = (a.openmax \/ b.openmax)
          /\ w = (a.integer /\ b.integer)
    BY Zenon
  <1>5. snd_interval_mul(a, b) = [min |-> p, openmin |-> o, max |-> q, openmax |-> O,
                                  integer |-> w, empty |-> FALSE]
    BY <1>3, <1>4 DEF snd_interval_mul
  <1>6. snd_interval_mul(a, b) \in Cutter /\ snd_interval_mul(a, b).openmax = O
    BY <1>0, <1>5 DEF Cutter
  <1>7. a.integer /\ b.integer => ~O
    BY <1>4 DEF Good
  <1> QED BY <1>6, <1>7

(* So can a product divided by a number, *)
LEMMA MuldivkCutter ==
  ASSUME NEW a, Good(a), ~a.empty, NEW b, Good(b), ~b.empty, NEW n \in Nat
  PROVE  LET v == snd_interval_muldivk(a, b, n)
         IN  v \in Cutter /\ (a.integer /\ b.integer /\ v.openmax => 0 < v.max)
  <1> DEFINE lo == muldiv32(a.min, b.min, n)
             open == a.openmax \/ b.openmax
             h == Above(muldiv32(a.max, b.max, n), open)
             v == snd_interval_muldivk(a, b, n)
  <1>0. UINT_MAX \in Nat
    BY HwParamsAssumption
  <1>1. /\ a.min \in Nat /\ a.max \in Nat /\ b.min \in Nat /\ b.max \in Nat
    BY Bounds, <1>0
  <1>2. lo.q \in 0 .. UINT_MAX
    BY <1>1, Muldiv
  <1>3. PICK op \in BOOLEAN : op = open
    BY Zenon
  <1>4. h.max \in Nat /\ h.openmax \in BOOLEAN /\ (h.openmax /\ ~op => 0 < h.max)
    BY <1>1, <1>3, AboveType
  <1>5. PICK o \in BOOLEAN : o = (lo.r \/ a.openmin \/ b.openmin)
    BY Zenon
  <1>6. v = [min |-> lo.q, openmin |-> o, max |-> h.max, openmax |-> h.openmax,
             integer |-> FALSE, empty |-> FALSE]
    BY <1>5 DEF snd_interval_muldivk
  <1>7. a.integer /\ b.integer => ~op
    BY <1>3 DEF Good
  <1> HIDE DEF lo, h, v
  <1>8. v \in Cutter /\ v.openmax = h.openmax /\ v.max = h.max
    BY <1>0, <1>2, <1>4, <1>6 DEF Cutter
  <1> QED BY <1>4, <1>7, <1>8 DEF v

(* and a quotient. *)
LEMMA MulkdivCutter ==
  ASSUME NEW a, Good(a), ~a.empty, NEW b, Good(b), ~b.empty, NEW n \in Nat
  PROVE  LET v == snd_interval_mulkdiv(a, n, b)
         IN  v \in Cutter /\ (a.integer /\ b.integer /\ v.openmax => 0 < v.max)
  <1> DEFINE lo == muldiv32(a.min, n, b.max)
             open == a.openmax \/ b.openmin
             h == IF b.min > 0 THEN Above(muldiv32(a.max, n, b.min), open)
                               ELSE [max |-> UINT_MAX, openmax |-> FALSE]
             v == snd_interval_mulkdiv(a, n, b)
  <1>0. UINT_MAX \in Nat
    BY HwParamsAssumption
  <1>1. /\ a.min \in Nat /\ a.max \in Nat /\ b.min \in Nat /\ b.max \in Nat
    BY Bounds, <1>0
  <1>2. lo.q \in 0 .. UINT_MAX
    BY <1>1, Muldiv
  <1>3. PICK op \in BOOLEAN : op = open
    BY Zenon
  <1>4. h.max \in Nat /\ h.openmax \in BOOLEAN /\ (h.openmax /\ ~op => 0 < h.max)
    <2>1. CASE b.min > 0
      <3>1. h = Above(muldiv32(a.max, n, b.min), op)
        BY <1>3, <2>1
      <3> HIDE DEF h
      <3> QED BY <1>1, <3>1, AboveType
    <2>2. CASE ~(b.min > 0)
      <3>1. h = [max |-> UINT_MAX, openmax |-> FALSE]
        BY <2>2
      <3> HIDE DEF h
      <3> QED BY <1>0, <3>1
    <2> QED BY <2>1, <2>2
  <1>5. PICK o \in BOOLEAN : o = (lo.r \/ a.openmin \/ b.openmax)
    BY Zenon
  <1>6. v = [min |-> lo.q, openmin |-> o, max |-> h.max, openmax |-> h.openmax,
             integer |-> FALSE, empty |-> FALSE]
    BY <1>5 DEF snd_interval_mulkdiv
  <1>7. a.integer /\ b.integer => ~op
    BY <1>3 DEF Good
  <1> HIDE DEF lo, h, v
  <1>8. v \in Cutter /\ v.openmax = h.openmax /\ v.max = h.max
    BY <1>0, <1>2, <1>4, <1>6 DEF Cutter
  <1> QED BY <1>4, <1>7, <1>8 DEF v

(***************************************************************************)
(* No rule takes a value away that its arguments explain.                  *)
(***************************************************************************)
(* What it means to have a value, bound by bound. *)
LEMMA HasBounds ==
  ASSUME NEW i, Good(i), NEW x \in Nat, Has(i, x)
  PROVE  /\ i.min \in Nat /\ i.max \in Nat /\ ~i.empty
         /\ i.min <= x /\ (i.openmin => i.min < x)
         /\ x <= i.max /\ (i.openmax => x < i.max)
         /\ i.openmin \in BOOLEAN /\ i.openmax \in BOOLEAN
  <1>1. /\ i.min \in Nat /\ i.max \in Int /\ i.openmin \in BOOLEAN /\ i.openmax \in BOOLEAN
    BY HwParamsAssumption DEF Good, IntervalRec
  <1> QED BY <1>1 DEF Has

(* The product of two intervals has the product of their values. *)
LEMMA MulHas ==
  ASSUME NEW a, Good(a), NEW b, Good(b), NEW x \in Nat \ {0}, NEW y \in Nat \ {0},
         Has(a, x), Has(b, y), x * y < UINT_MAX
  PROVE  Has(snd_interval_mul(a, b), x * y)
  <1> DEFINE v == snd_interval_mul(a, b)
  <1>0. UINT_MAX \in Nat /\ x * y \in Nat
    BY HwParamsAssumption
  <1>1. /\ a.min \in Nat /\ a.max \in Nat /\ a.min <= x /\ (a.openmin => a.min < x)
        /\ x <= a.max /\ (a.openmax => x < a.max)
        /\ a.openmin \in BOOLEAN /\ a.openmax \in BOOLEAN
    BY HasBounds
  <1>2. /\ b.min \in Nat /\ b.max \in Nat /\ b.min <= y /\ (b.openmin => b.min < y)
        /\ y <= b.max /\ (b.openmax => y < b.max)
        /\ b.openmin \in BOOLEAN /\ b.openmax \in BOOLEAN
    BY HasBounds
  <1>3. PICK p \in Nat, q \in Nat : p = a.min * b.min /\ q = a.max * b.max
    BY <1>1, <1>2
  <1>4. p <= x * y /\ (a.openmin \/ b.openmin => p < x * y)
    BY <1>1, <1>2, <1>3, ProductGrows
  <1>5. x * y <= q /\ (a.openmax \/ b.openmax => x * y < q)
    BY <1>1, <1>2, <1>3, ProductGrows
  <1>6. /\ v.min = p /\ v.max = (IF q > UINT_MAX THEN UINT_MAX ELSE q)
    BY <1>0, <1>3, <1>4 DEF snd_interval_mul, mul
  <1>7. v.openmin <=> (a.openmin \/ b.openmin)
    BY DEF snd_interval_mul
  <1>8. v.openmax <=> (a.openmax \/ b.openmax)
    BY DEF snd_interval_mul
  <1>9. ~v.empty
    BY DEF snd_interval_mul
  <1> HIDE DEF v
  <1>10. v.min < x * y \/ (v.min = x * y /\ ~v.openmin)
    BY <1>0, <1>4, <1>6, <1>7
  <1>11. v.max > x * y \/ (v.max = x * y /\ ~v.openmax)
    BY <1>0, <1>5, <1>6, <1>8
  <1> QED BY <1>9, <1>10, <1>11 DEF Has, v

(* The result of muldiv32 by its parts. *)
LEMMA MuldivAt ==
  ASSUME NEW a \in Nat, NEW b \in Nat, NEW c \in Nat, c # 0, NEW open \in BOOLEAN
  PROVE  \E q \in Nat : \E r \in BOOLEAN :
           /\ q = muldiv32(a, b, c).q /\ r = muldiv32(a, b, c).r
           /\ q * c <= a * b
           /\ r => q * c < a * b /\ a * b < (q + 1) * c
           /\ ~r => q = UINT_MAX \/ q * c = a * b
           /\ Above(muldiv32(a, b, c), open).max = (IF r THEN q + 1 ELSE q)
           /\ Above(muldiv32(a, b, c), open).openmax <=> (r \/ open)
  <1> DEFINE d == muldiv32(a, b, c)
             h == Above(d, open)
  <1>1. /\ d.q \in 0 .. UINT_MAX /\ d.r \in BOOLEAN
        /\ d.q * c <= a * b
        /\ d.r => d.q * c < a * b /\ a * b < (d.q + 1) * c
        /\ ~d.r => d.q = UINT_MAX \/ d.q * c = a * b
    BY Muldiv
  <1>2. h.max = (IF d.r THEN d.q + 1 ELSE d.q)
    BY AboveType, SMT
  <1>3. h.openmax <=> (d.r \/ open)
    BY AboveType, Zenon
  <1>4. d.q \in Nat
    BY <1>1, HwParamsAssumption
  <1> HIDE DEF d, h
  <1> QED BY <1>1, <1>2, <1>3, <1>4, Zenon DEF d, h

(* A lower bound that is rounded down. *)
LEMMA LowerRounded ==
  ASSUME NEW a \in Nat, NEW b \in Nat, NEW c \in Nat, c # 0, NEW z \in Nat,
         NEW open \in BOOLEAN,
         a * b <= z * c, open => a * b < z * c
  PROVE  LET d == muldiv32(a, b, c)
         IN  d.q < z \/ (d.q = z /\ ~(d.r \/ open))
  <1>1. PICK q \in Nat : \E r \in BOOLEAN :
          /\ q = muldiv32(a, b, c).q /\ r = muldiv32(a, b, c).r
          /\ q * c <= a * b /\ (r => q * c < a * b)
    BY MuldivAt, Zenon
  <1>2. PICK r \in BOOLEAN :
          /\ q = muldiv32(a, b, c).q /\ r = muldiv32(a, b, c).r
          /\ q * c <= a * b /\ (r => q * c < a * b)
    BY <1>1, Zenon
  <1>3. PICK p \in Nat, w \in Nat, s \in Nat : p = a * b /\ w = z * c /\ s = q * c
    OBVIOUS
  <1>4. s <= p /\ (r => s < p)
    BY <1>2, <1>3, Zenon
  <1>5. p <= w /\ (open => p < w)
    BY <1>3, Zenon
  <1>6. s <= w /\ (r \/ open => s < w)
    BY <1>4, <1>5
  <1>7. q * c <= z * c /\ (r \/ open => q * c < z * c)
    BY <1>3, <1>6, Zenon
  <1>8. c \in Nat /\ 0 < c
    OBVIOUS
  <1>9. q <= z /\ (r \/ open => q < z)
    BY <1>7, <1>8, FactorDropped
  <1>10. q < z \/ (q = z /\ ~(r \/ open))
    BY <1>9
  <1> QED BY <1>2, <1>10, Zenon

(* An upper bound that is rounded up. *)
LEMMA UpperRounded ==
  ASSUME NEW a \in Nat, NEW b \in Nat, NEW c \in Nat, c # 0, NEW z \in Nat,
         NEW open \in BOOLEAN, z < UINT_MAX,
         z * c <= a * b, open => z * c < a * b
  PROVE  LET h == Above(muldiv32(a, b, c), open)
         IN  h.max > z \/ (h.max = z /\ ~h.openmax)
  <1> DEFINE h == Above(muldiv32(a, b, c), open)
  <1>1. PICK q \in Nat : \E r \in BOOLEAN :
          /\ q = muldiv32(a, b, c).q /\ r = muldiv32(a, b, c).r
          /\ q * c <= a * b
          /\ r => q * c < a * b /\ a * b < (q + 1) * c
          /\ ~r => q = UINT_MAX \/ q * c = a * b
          /\ h.max = (IF r THEN q + 1 ELSE q)
          /\ h.openmax <=> (r \/ open)
    BY MuldivAt, Zenon
  <1>2. PICK r \in BOOLEAN :
          /\ r => a * b < (q + 1) * c
          /\ ~r => q = UINT_MAX \/ q * c = a * b
          /\ h.max = (IF r THEN q + 1 ELSE q)
          /\ h.openmax <=> (r \/ open)
    BY <1>1, Zenon
  <1> HIDE DEF h
  <1>3. PICK p \in Nat, w \in Nat, s \in Nat, t \in Nat :
          p = a * b /\ w = z * c /\ s = q * c /\ t = (q + 1) * c
    OBVIOUS
  <1>4. (r => p < t) /\ (~r => q = UINT_MAX \/ s = p)
    BY <1>2, <1>3, Zenon
  <1>5. w <= p /\ (open => w < p)
    BY <1>3, Zenon
  <1>6. c \in Nat /\ 0 < c
    OBVIOUS
  <1>7. CASE r
    <2>1. w < t
      BY <1>4, <1>5, <1>7
    <2>2. z * c < (q + 1) * c
      BY <1>3, <2>1, Zenon
    <2>3. z < q + 1
      BY <1>6, <2>2, FactorDropped
    <2>4. h.max > z
      BY <1>2, <1>7, <2>3
    <2> QED BY <2>4 DEF h
  <1>8. CASE ~r /\ q = UINT_MAX
    <2>1. h.max > z
      BY <1>2, <1>8
    <2> QED BY <2>1 DEF h
  <1>9. CASE ~r /\ s = p
    <2>1. w <= s /\ (open => w < s)
      BY <1>5, <1>9
    <2>2. z * c <= q * c /\ (open => z * c < q * c)
      BY <1>3, <2>1, Zenon
    <2>3. z <= q /\ (open => z < q)
      BY <1>6, <2>2, FactorDropped
    <2>4. h.max > z \/ (h.max = z /\ ~h.openmax)
      BY <1>2, <1>9, <2>3
    <2> QED BY <2>4 DEF h
  <1> QED BY <1>4, <1>7, <1>8, <1>9

(* A product divided by a number has the exact quotients. *)
LEMMA MuldivkHas ==
  ASSUME NEW a, Good(a), NEW b, Good(b), NEW n \in Nat, n # 0,
         NEW x \in Nat \ {0}, NEW y \in Nat \ {0}, NEW z \in Nat,
         Has(a, x), Has(b, y), z * n = x * y, z < UINT_MAX
  PROVE  Has(snd_interval_muldivk(a, b, n), z)
  <1> DEFINE lo == muldiv32(a.min, b.min, n)
             h == Above(muldiv32(a.max, b.max, n), a.openmax \/ b.openmax)
             v == snd_interval_muldivk(a, b, n)
  <1>1. /\ a.min \in Nat /\ a.max \in Nat /\ a.min <= x /\ (a.openmin => a.min < x)
        /\ x <= a.max /\ (a.openmax => x < a.max)
        /\ a.openmin \in BOOLEAN /\ a.openmax \in BOOLEAN
    BY HasBounds
  <1>2. /\ b.min \in Nat /\ b.max \in Nat /\ b.min <= y /\ (b.openmin => b.min < y)
        /\ y <= b.max /\ (b.openmax => y < b.max)
        /\ b.openmin \in BOOLEAN /\ b.openmax \in BOOLEAN
    BY HasBounds
  <1>3. PICK o \in BOOLEAN : o = (a.openmin \/ b.openmin)
    BY Zenon
  <1>4. PICK O \in BOOLEAN : O = (a.openmax \/ b.openmax)
    BY Zenon
  <1>5. a.min * b.min <= z * n /\ (o => a.min * b.min < z * n)
    <2>1. /\ a.min * b.min <= x * y
          /\ a.min < x /\ 0 < y => a.min * b.min < x * y
          /\ b.min < y /\ 0 < x => a.min * b.min < x * y
      BY <1>1, <1>2, ProductGrows
    <2> QED BY <1>1, <1>2, <1>3, <2>1
  <1>6. z * n <= a.max * b.max /\ (O => z * n < a.max * b.max)
    <2>1. /\ x * y <= a.max * b.max
          /\ x < a.max /\ 0 < b.max => x * y < a.max * b.max
          /\ y < b.max /\ 0 < a.max => x * y < a.max * b.max
      BY <1>1, <1>2, ProductGrows
    <2> QED BY <1>1, <1>2, <1>4, <2>1
  <1>7. lo.q < z \/ (lo.q = z /\ ~(lo.r \/ o))
    BY <1>1, <1>2, <1>5, LowerRounded
  <1>8. h.max > z \/ (h.max = z /\ ~h.openmax)
    <2>1. PICK am \in Nat, bm \in Nat : am = a.max /\ bm = b.max
      BY <1>1, <1>2
    <2>2. h = Above(muldiv32(am, bm, n), O)
      BY <1>4, <2>1, Zenon
    <2>3. z * n <= am * bm /\ (O => z * n < am * bm)
      BY <1>6, <2>1, Zenon
    <2> HIDE DEF h
    <2> QED BY <2>2, <2>3, UpperRounded
  <1> HIDE DEF lo, h
  <1>9. v.min = lo.q /\ v.max = h.max
    BY DEF snd_interval_muldivk, lo, h
  <1>10. v.openmin <=> (lo.r \/ o)
    BY <1>3, Zenon DEF snd_interval_muldivk, lo, h
  <1>11. (v.openmax <=> h.openmax) /\ ~v.empty
    BY Zenon DEF snd_interval_muldivk, lo, h
  <1> HIDE DEF v
  <1> QED BY <1>7, <1>8, <1>9, <1>10, <1>11 DEF Has, v

(* A quotient of two intervals has the exact quotients of their values. *)
LEMMA MulkdivHas ==
  ASSUME NEW a, Good(a), NEW b, Good(b), NEW n \in Nat, n # 0,
         NEW x \in Nat \ {0}, NEW y \in Nat \ {0}, NEW z \in Nat \ {0},
         Has(a, x), Has(b, y), z * y = x * n, z < UINT_MAX
  PROVE  Has(snd_interval_mulkdiv(a, n, b), z)
  <1> DEFINE lo == muldiv32(a.min, n, b.max)
             up == Above(muldiv32(a.max, n, b.min), a.openmax \/ b.openmin)
             h == IF b.min > 0 THEN up ELSE [max |-> UINT_MAX, openmax |-> FALSE]
             v == snd_interval_mulkdiv(a, n, b)
  <1>1. /\ a.min \in Nat /\ a.max \in Nat /\ a.min <= x /\ (a.openmin => a.min < x)
        /\ x <= a.max /\ (a.openmax => x < a.max)
        /\ a.openmin \in BOOLEAN /\ a.openmax \in BOOLEAN
    BY HasBounds
  <1>2. /\ b.min \in Nat /\ b.max \in Nat /\ b.min <= y /\ (b.openmin => b.min < y)
        /\ y <= b.max /\ (b.openmax => y < b.max)
        /\ b.openmin \in BOOLEAN /\ b.openmax \in BOOLEAN
    BY HasBounds
  <1>3. PICK o \in BOOLEAN : o = (a.openmin \/ b.openmax)
    BY Zenon
  <1>4. PICK O \in BOOLEAN : O = (a.openmax \/ b.openmin)
    BY Zenon
  <1>0. PICK w \in Nat : w = z * y /\ w = x * n
    OBVIOUS
  <1>5. a.min * n <= z * b.max /\ (o => a.min * n < z * b.max)
    <2>1. PICK p \in Nat, q \in Nat : p = a.min * n /\ q = z * b.max
      BY <1>1, <1>2
    <2>2. p <= w /\ (a.min < x => p < w)
      <3>1. a.min * n <= x * n /\ (a.min < x /\ 0 < n => a.min * n < x * n)
        BY <1>1, ProductGrows
      <3> QED BY <1>0, <2>1, <3>1
    <2>3. w <= q /\ (y < b.max => w < q)
      <3>1. z * y <= z * b.max /\ (y < b.max /\ 0 < z => z * y < z * b.max)
        BY <1>2, ProductGrows
      <3> QED BY <1>0, <2>1, <3>1
    <2>4. p <= q /\ (o => p < q)
      BY <1>1, <1>2, <1>3, <2>2, <2>3
    <2> QED BY <2>1, <2>4, Zenon
  <1>6. z * b.min <= a.max * n /\ (O => z * b.min < a.max * n)
    <2>1. PICK p \in Nat, q \in Nat : p = z * b.min /\ q = a.max * n
      BY <1>1, <1>2
    <2>2. p <= w /\ (b.min < y => p < w)
      <3>1. z * b.min <= z * y /\ (b.min < y /\ 0 < z => z * b.min < z * y)
        BY <1>2, ProductGrows
      <3> QED BY <1>0, <2>1, <3>1
    <2>3. w <= q /\ (x < a.max => w < q)
      <3>1. x * n <= a.max * n /\ (x < a.max /\ 0 < n => x * n < a.max * n)
        BY <1>1, ProductGrows
      <3> QED BY <1>0, <2>1, <3>1
    <2>4. p <= q /\ (O => p < q)
      BY <1>1, <1>2, <1>4, <2>2, <2>3
    <2> QED BY <2>1, <2>4, Zenon
  <1>7. lo.q < z \/ (lo.q = z /\ ~(lo.r \/ o))
    <2>1. PICK am \in Nat, bm \in Nat : am = a.min /\ bm = b.max /\ bm # 0
      BY <1>1, <1>2
    <2>2. am * n <= z * bm /\ (o => am * n < z * bm)
      BY <1>5, <2>1, Zenon
    <2>3. lo = muldiv32(am, n, bm)
      BY <2>1
    <2> HIDE DEF lo
    <2> QED BY <2>1, <2>2, <2>3, LowerRounded
  <1>8. h.max > z \/ (h.max = z /\ ~h.openmax)
    <2>1. CASE b.min > 0
      <3>1. up.max > z \/ (up.max = z /\ ~up.openmax)
        <4>1. PICK am \in Nat, bm \in Nat : am = a.max /\ bm = b.min /\ bm # 0
          BY <1>1, <1>2, <2>1
        <4>2. up = Above(muldiv32(am, n, bm), O)
          BY <1>4, <4>1, Zenon
        <4>3. z * bm <= am * n /\ (O => z * bm < am * n)
          BY <1>6, <4>1, Zenon
        <4>4. z \in Nat
          OBVIOUS
        <4>5. \/ Above(muldiv32(am, n, bm), O).max > z
              \/ /\ Above(muldiv32(am, n, bm), O).max = z
                 /\ ~Above(muldiv32(am, n, bm), O).openmax
          BY <4>1, <4>3, <4>4, UpperRounded, SMTT(90)
        <4> QED BY <4>2, <4>5, Zenon
      <3> HIDE DEF up
      <3> QED BY <2>1, <3>1
    <2>2. CASE ~(b.min > 0)
      BY <2>2, HwParamsAssumption
    <2> QED BY <2>1, <2>2
  <1> HIDE DEF lo, h
  <1>9. v.min = lo.q /\ v.max = h.max
    BY DEF snd_interval_mulkdiv, lo, h, up
  <1>10. v.openmin <=> (lo.r \/ o)
    BY <1>3, Zenon DEF snd_interval_mulkdiv, lo, h
  <1>11. (v.openmax <=> h.openmax) /\ ~v.empty
    BY Zenon DEF snd_interval_mulkdiv, lo, h, up
  <1> HIDE DEF v
  <1> QED BY <1>7, <1>8, <1>9, <1>10, <1>11 DEF Has, v

(***************************************************************************)
(* The rule of a list of sizes.                                            *)
(***************************************************************************)
(* A set of naturals that is not empty has a least element. *)
LEMMA LeastOf ==
  ASSUME NEW S \in SUBSET Nat, S # {}
  PROVE  Min(S) \in S /\ \A m \in S : Min(S) <= m
  <1>1. PICK n \in S : \A m \in S : ~ (<<m, n>> \in OpToRel(<, Nat))
    BY NatLessThanWellFounded, WFMin, Zenon
  <1>2. \A m \in S : ~ (m < n)
    BY <1>1 DEF OpToRel
  <1>3. \A m \in S : n <= m
    BY <1>2
  <1> QED BY <1>3 DEF Min

(* One that is bounded has a greatest. *)
LEMMA GreatestOf ==
  ASSUME NEW S \in SUBSET Nat, S # {}, NEW b \in Nat, \A m \in S : m <= b
  PROVE  Max(S) \in S /\ \A m \in S : m <= Max(S)
  <1> DEFINE T == {b - m : m \in S}
  <1>0. \A m \in S : m \in Nat /\ b - m \in Nat /\ b - m \in T
    OBVIOUS
  <1>1. T \in SUBSET Nat /\ T # {}
    BY <1>0
  <1>2. PICK t \in T : \A u \in T : t <= u
    BY <1>1, LeastOf
  <1>3. PICK n \in S : t = b - n
    BY <1>2
  <1> HIDE DEF T
  <1>4. \A m \in S : n >= m
    <2>1. TAKE m \in S
    <2>2. b - n <= b - m
      BY <1>0, <1>2, <1>3
    <2> QED BY <1>0, <2>2
  <1>5. Max(S) \in S /\ \A m \in S : Max(S) >= m
    BY <1>4 DEF Max
  <1> QED BY <1>5

(* An interval with other bounds. *)
LEMMA NewMin ==
  ASSUME NEW i \in IntervalRec, NEW m \in 0 .. UINT_MAX + 1
  PROVE  LET l == [i EXCEPT !.min = m, !.openmin = FALSE]
         IN  /\ l \in IntervalRec /\ l.min = m /\ l.max = i.max
             /\ l.openmin = FALSE /\ l.openmax = i.openmax /\ l.integer = i.integer
  BY DEF IntervalRec

(* The same for the upper bound. *)
LEMMA NewMax ==
  ASSUME NEW i \in IntervalRec, NEW m \in -1 .. UINT_MAX
  PROVE  LET l == [i EXCEPT !.max = m, !.openmax = FALSE]
         IN  /\ l \in IntervalRec /\ l.min = i.min /\ l.max = m
             /\ l.openmin = i.openmin /\ l.openmax = FALSE /\ l.integer = i.integer
  BY DEF IntervalRec

(* What the list makes of an interval. *)
LEMMA ListBounds ==
  ASSUME NEW i, Good(i), ~i.empty, NEW list, list \subseteq 0 .. UINT_MAX
  PROVE  LET r == snd_interval_list(i, list).i
         IN  /\ Good(r)
             /\ i.min <= r.min /\ r.max <= i.max /\ Upper(r) <= Upper(i) /\ 0 <= r.max
             /\ i.integer => r.integer
             /\ ~snd_interval_list(i, list).changed => r.min = i.min /\ r.max = i.max
             /\ i.min = i.max /\ ~r.empty => i.min \in list
             /\ \A x \in list : Has(i, x) => Has(r, x)
  <1> DEFINE ups == {x \in list : x > i.min \/ (x = i.min /\ ~i.openmin)}
             downs == {x \in list : x < i.max \/ (x = i.max /\ ~i.openmax)}
             up == Min(ups)
             down == Max(downs)
             low == [i EXCEPT !.min = up, !.openmin = FALSE]
             z == snd_interval_list(i, list)
             r == z.i
  <1>0. /\ i.min \in 0 .. UINT_MAX /\ i.max \in 0 .. UINT_MAX /\ i.min <= i.max
        /\ i.openmin \in BOOLEAN /\ i.openmax \in BOOLEAN /\ i.integer \in BOOLEAN
        /\ UINT_MAX \in Nat /\ i \in IntervalRec
        /\ (i.integer => ~i.openmin /\ ~i.openmax)
    BY Bounds DEF Good
  <1>4. \A m \in list : m \in Nat
    BY <1>0
  <1>1. CASE ups = {}
    <2>1. z = [i |-> [i EXCEPT !.empty = TRUE], changed |-> TRUE]
      BY <1>1 DEF snd_interval_list
    <2>2. r = [i EXCEPT !.empty = TRUE] /\ z.changed = TRUE
      BY <2>1
    <2> HIDE DEF ups, z, r
    <2>3. /\ r \in IntervalRec /\ r.min = i.min /\ r.max = i.max /\ r.empty = TRUE
          /\ r.openmin = i.openmin /\ r.openmax = i.openmax /\ r.integer = i.integer
      BY <1>0, <2>2 DEF IntervalRec
    <2>4. Good(r)
      BY <1>0, <2>3 DEF Good
    <2>5. \A x \in list : ~Has(i, x)
      BY <1>0, <1>1 DEF Has, ups
    <2>6. Upper(r) = Upper(i)
      BY <1>0, <2>3 DEF Upper
    <2>7. Upper(i) \in Int
      BY <1>0 DEF Upper
    <2> QED BY <1>0, <2>2, <2>3, <2>4, <2>5, <2>6, <2>7 DEF r, z
  <1>2. CASE ups # {} /\ downs = {}
    <2>0. up \in ups
      <3>1. ups \in SUBSET Nat
        BY <1>4, Zenon
      <3> HIDE DEF ups
      <3> QED BY <1>2, <3>1, LeastOf
    <2>1. z = [i |-> [low EXCEPT !.empty = TRUE], changed |-> TRUE]
      BY <1>2 DEF snd_interval_list
    <2>2. r = [low EXCEPT !.empty = TRUE] /\ z.changed = TRUE
      BY <2>1
    <2> HIDE DEF up
    <2>3. up \in 0 .. UINT_MAX /\ i.min <= up
      BY <1>0, <2>0
    <2>4. \A x \in list : ~Has(i, x)
      BY <1>0, <1>2 DEF Has
    <2> HIDE DEF ups, downs, z, r
    <2>9. /\ low \in IntervalRec /\ low.min = up /\ low.max = i.max
          /\ low.openmin = FALSE /\ low.openmax = i.openmax /\ low.integer = i.integer
      <3>1. up \in 0 .. UINT_MAX + 1
        BY <1>0, <2>3
      <3> QED BY <1>0, <3>1, NewMin
    <2> HIDE DEF low
    <2>5. /\ r \in IntervalRec /\ r.min = up /\ r.max = i.max /\ r.empty = TRUE
          /\ r.openmin = FALSE /\ r.openmax = i.openmax /\ r.integer = i.integer
      BY <1>0, <2>2, <2>9 DEF IntervalRec
    <2>6. Good(r)
      BY <1>0, <2>5 DEF Good
    <2>7. Upper(r) = Upper(i)
      BY <1>0, <2>5 DEF Upper
    <2>8. Upper(i) \in Int
      BY <1>0 DEF Upper
    <2> QED BY <1>0, <2>2, <2>3, <2>4, <2>5, <2>6, <2>7, <2>8 DEF r, z
  <1>3. CASE ups # {} /\ downs # {}
    <2>0. up \in ups /\ \A m \in ups : up <= m
      <3>1. ups \in SUBSET Nat
        BY <1>4, Zenon
      <3> HIDE DEF ups
      <3> QED BY <1>3, <3>1, LeastOf
    <2>1. down \in downs /\ \A m \in downs : m <= down
      <3>1. downs \in SUBSET Nat
        BY <1>4, Zenon
      <3>2. i.max \in Nat /\ \A m \in downs : m <= i.max
        BY <1>0, <1>4
      <3> HIDE DEF downs
      <3> QED BY <1>3, <3>1, <3>2, GreatestOf
    <2> DEFINE full == [low EXCEPT !.max = down, !.openmax = FALSE]
    <2>2. /\ z.i = Emptied(full)
          /\ z.changed <=> (up # i.min \/ down # i.max \/ i.openmin \/ i.openmax)
      <3>1. z = [i |-> Emptied(full),
                 changed |-> up # i.min \/ down # i.max \/ i.openmin \/ i.openmax]
        BY <1>3, Zenon DEF snd_interval_list
      <3> HIDE DEF z, full, up, down
      <3> QED BY <3>1, Zenon
    <2> HIDE DEF up, down, z, r
    <2>3. /\ up \in 0 .. UINT_MAX /\ i.min <= up /\ down \in 0 .. UINT_MAX /\ down <= i.max
          /\ up \in list /\ down \in list /\ (down = i.max => ~i.openmax)
          /\ (up = i.min => ~i.openmin)
      BY <1>0, <2>0, <2>1
    <2>4. \A x \in list : Has(i, x) => x \in ups /\ x \in downs
      BY <1>0 DEF Has
    <2> HIDE DEF ups, downs
    <2>5. /\ full \in IntervalRec /\ full.min = up /\ full.max = down
          /\ full.openmin = FALSE /\ full.openmax = FALSE /\ full.integer = i.integer
      <3>1. /\ low \in IntervalRec /\ low.min = up /\ low.max = i.max
            /\ low.openmin = FALSE /\ low.openmax = i.openmax /\ low.integer = i.integer
        <4>1. up \in 0 .. UINT_MAX + 1
          BY <1>0, <2>3
        <4> QED BY <1>0, <4>1, NewMin
      <3> HIDE DEF low
      <3>2. down \in -1 .. UINT_MAX
        BY <1>0, <2>3
      <3> QED BY <3>1, <3>2, NewMax
    <2>6. PICK e \in BOOLEAN : e = snd_interval_checkempty(full)
      BY Zenon DEF snd_interval_checkempty
    <2> HIDE DEF full
    <2>7. r = [full EXCEPT !.empty = e]
      BY <2>2, <2>6 DEF r, Emptied
    <2>8. /\ r \in IntervalRec /\ r.min = up /\ r.max = down /\ r.empty = e
          /\ r.openmin = FALSE /\ r.openmax = FALSE /\ r.integer = i.integer
      BY <2>5, <2>7 DEF IntervalRec
    <2>9. e <=> up > down
      <3>1. full.min = up /\ full.max = down /\ ~full.openmin /\ ~full.openmax
        BY <2>5
      <3> QED BY <2>3, <2>6, <3>1 DEF snd_interval_checkempty
    <2>10. Good(r)
      <3>1. ~r.empty => ~snd_interval_checkempty(r)
        BY <2>3, <2>8, <2>9 DEF snd_interval_checkempty
      <3> QED BY <2>8, <3>1 DEF Good
    <2>11. Upper(r) <= Upper(i)
      BY <1>0, <2>3, <2>8 DEF Upper
    <2>12. ~z.changed => r.min = i.min /\ r.max = i.max
      BY <2>2, <2>8
    <2>13. i.min = i.max /\ ~r.empty => i.min \in list
      BY <1>0, <2>3, <2>8, <2>9
    <2>14. \A x \in list : Has(i, x) => Has(r, x)
      <3>1. TAKE x \in list
      <3>2. HAVE Has(i, x)
      <3>3. up <= x /\ x <= down /\ x \in Nat
        BY <1>0, <2>0, <2>1, <2>4, <3>2
      <3> QED BY <2>3, <2>8, <2>9, <3>3 DEF Has
    <2> QED BY <1>0, <2>3, <2>8, <2>10, <2>11, <2>12, <2>13, <2>14 DEF r, z
  <1> QED BY <1>1, <1>2, <1>3

(***************************************************************************)
(* The inductive invariant.                                                *)
(***************************************************************************)
(* The values of pc. *)
Phases == {"refine", "params", "sw", "done"}

(* While rules are due no interval is empty: the one that empties its       *)
(* interval is the last.                                                    *)
Ordered ==
  /\ card \in Cards /\ req \in Requests /\ fTryAgain \in BOOLEAN /\ pc \in Phases
  /\ size \in [frames : Nat, bytes : Nat, periods : Nat]
  /\ stamps \subseteq RulesOf(card) /\ k \in 0 .. 17
  /\ params \in [Sizes -> IntervalRec]
  /\ \A v \in Sizes : Good(params[v]) /\ (stamps # {} => ~params[v].empty)
  /\ ~params["FRAME_BITS"].empty =>
       params["FRAME_BITS"].min = 8 * req.frame /\ params["FRAME_BITS"].max = 8 * req.frame

(* What the rules have done to the bounds ChooseSizes reads, if they are    *)
(* not due.                                                                 *)
Refined ==
  /\ 2 \notin stamps => params["PERIOD_SIZE"].integer
  /\ 3 \notin stamps => params["PERIOD_BYTES"].max <= card.period_bytes_max
  /\ 4 \notin stamps => params["PERIODS"].max <= card.periods_max
  /\ 11 \notin stamps =>
       Upper(params["PERIOD_SIZE"]) * req.frame <= params["PERIOD_BYTES"].max

(* The value that was asked for of each size. *)
Asked(v) ==
  CASE v = "FRAME_BITS" -> 8 * req.frame
    [] v = "PERIOD_SIZE" -> size.frames
    [] v = "PERIOD_BYTES" -> size.bytes
    [] v = "PERIODS" -> size.periods
    [] v = "BUFFER_SIZE" -> size.frames * size.periods
    [] v = "BUFFER_BYTES" -> size.bytes * size.periods

(* An interval that was set to a value x, and what is left of it. *)
Fixed(i, x) == i.integer /\ 0 <= i.max /\ i.max <= x /\ x <= i.min

(* What the call knows of the sizes it asks for. *)
SizesOK ==
  /\ size.frames * req.frame <= size.bytes /\ size.bytes <= card.period_bytes_max
  /\ size.periods <= card.periods_max /\ size.periods <= UINT_MAX /\ size.periods % 2 = 0

(* What the rules that are not due have found of the values. *)
Checked ==
  /\ 3 \notin stamps => size.bytes \in card.period_bytes_min .. card.period_bytes_max
  /\ 4 \notin stamps => size.periods \in card.periods_min .. card.periods_max
  /\ 5 \notin stamps => size.frames * size.periods <= card.buffer_size_max
  /\ 6 \notin stamps => size.bytes * size.periods <= card.buffer_bytes_max
  /\ 14 \notin stamps => size.bytes = size.frames * req.frame
  /\ 16 \notin stamps /\ card.period_sizes # {} => size.frames \in card.period_sizes
  /\ 17 \notin stamps => size.bytes * size.periods <= card.dma_max

(* The configurations that a phase may still end with, and that they are    *)
(* there.                                                                   *)
Wanted(p, n) ==
  Legal(req.frame, p, n) /\ (pc = "params" => p = size.frames /\ n = size.periods)
Kept ==
  pc \in {"refine", "params"} =>
    \A p \in 1 .. card.period_bytes_max, n \in Periods :
      Wanted(p, n) => \A v \in Sizes : Has(params[v], Value(v, p, n))

(* What HW_PARAMS installs. *)
RuntimeType ==
  [frame : Nat, period_size : Nat, periods : Nat, buffer_size : Nat, boundary : Nat,
   silence_size : Nat]

(* The invariant. *)
IInv ==
  /\ Ordered /\ Kept /\ InstalledFits /\ runtime \in RuntimeType
  /\ pc = "refine" => size.frames = size.bytes \div req.frame
  /\ pc = "refine" /\ ~Empty => Refined
  /\ pc = "params" => SizesOK /\ \A v \in Sizes : Fixed(params[v], Asked(v))
  /\ pc = "params" /\ ~Empty => Checked

(***************************************************************************)
(* The rules.                                                              *)
(***************************************************************************)
(* The table, entry by entry. *)
LEMMA RuleTable ==
  /\ DOMAIN Rules = 1 .. 17
  /\ Rules[1] = Limit("FRAME_BITS") /\ Rules[2] = Limit("PERIOD_SIZE")
  /\ Rules[3] = Limit("PERIOD_BYTES") /\ Rules[4] = Limit("PERIODS")
  /\ Rules[5] = Limit("BUFFER_SIZE") /\ Rules[6] = Limit("BUFFER_BYTES")
  /\ Rules[7] = Rule("FRAME_BITS", "mulkdiv", "PERIOD_BYTES", "PERIOD_SIZE")
  /\ Rules[8] = Rule("FRAME_BITS", "mulkdiv", "BUFFER_BYTES", "BUFFER_SIZE")
  /\ Rules[9] = Rule("PERIODS", "div", "BUFFER_SIZE", "PERIOD_SIZE")
  /\ Rules[10] = Rule("PERIOD_SIZE", "div", "BUFFER_SIZE", "PERIODS")
  /\ Rules[11] = Rule("PERIOD_SIZE", "mulkdiv", "PERIOD_BYTES", "FRAME_BITS")
  /\ Rules[12] = Rule("BUFFER_SIZE", "mul", "PERIOD_SIZE", "PERIODS")
  /\ Rules[13] = Rule("BUFFER_SIZE", "mulkdiv", "BUFFER_BYTES", "FRAME_BITS")
  /\ Rules[14] = Rule("PERIOD_BYTES", "muldivk", "PERIOD_SIZE", "FRAME_BITS")
  /\ Rules[15] = Rule("BUFFER_BYTES", "muldivk", "BUFFER_SIZE", "FRAME_BITS")
  /\ Rules[16] = Rule("PERIOD_SIZE", "list", "PERIOD_SIZE", "PERIOD_SIZE")
  /\ Rules[17] = Rule("BUFFER_BYTES", "max", "BUFFER_BYTES", "BUFFER_BYTES")
  BY DEF Rules

(* The parts of a rule, *)
LEMMA RuleParts ==
  ASSUME NEW v, NEW f, NEW a, NEW b
  PROVE  /\ Rule(v, f, a, b).var = v /\ Rule(v, f, a, b).f = f
         /\ Rule(v, f, a, b).a = a /\ Rule(v, f, a, b).b = b
  BY DEF Rule

(* and of a constraint. *)
LEMMA LimitParts ==
  ASSUME NEW v
  PROVE  Limit(v).var = v /\ Limit(v).f = "constraint"
  BY DEF Limit, Rule

(* Which size a rule narrows, and from which. *)
LEMMA RuleShape ==
  /\ \A j \in 1 .. 6 : Rules[j].f = "constraint" /\ Rules[j].a = "" /\ Rules[j].b = ""
  /\ \A j \in {7, 8, 11, 13} : Rules[j].f = "mulkdiv"
  /\ \A j \in {9, 10} : Rules[j].f = "div"
  /\ \A j \in {14, 15} : Rules[j].f = "muldivk"
  /\ Rules[12].f = "mul" /\ Rules[16].f = "list" /\ Rules[17].f = "max"
  /\ \A j \in 1 .. 17 : Rules[j].var \in Sizes
  /\ \A j \in 7 .. 17 : Rules[j].a \in Sizes /\ Rules[j].b \in Sizes
  <1>1. \A j \in 1 .. 6 : Rules[j].f = "constraint" /\ Rules[j].a = "" /\ Rules[j].b = ""
                          /\ Rules[j].var \in Sizes
    <2>1. \A v : Limit(v).f = "constraint" /\ Limit(v).a = "" /\ Limit(v).b = ""
                 /\ Limit(v).var = v
      BY DEF Limit, Rule
    <2>2. TAKE j \in 1 .. 6
    <2>3. j = 1 \/ j = 2 \/ j = 3 \/ j = 4 \/ j = 5 \/ j = 6
      OBVIOUS
    <2>4. \E v \in Sizes : Rules[j] = Limit(v)
      BY <2>3, RuleTable DEF Sizes
    <2> QED BY <2>1, <2>4
  <1>2. (\A j \in {7, 8, 11, 13} : Rules[j].f = "mulkdiv") /\ (\A j \in {9, 10} : Rules[j].f = "div")
        /\ (\A j \in {14, 15} : Rules[j].f = "muldivk") /\ Rules[12].f = "mul"
        /\ Rules[16].f = "list" /\ Rules[17].f = "max"
    BY RuleTable, RuleParts
  <1>3. \A j \in 7 .. 17 : Rules[j].var \in Sizes /\ Rules[j].a \in Sizes /\ Rules[j].b \in Sizes
    <2>1. TAKE j \in 7 .. 17
    <2>2. \E v, a, b \in Sizes, f \in {"mulkdiv", "div", "mul", "muldivk", "list", "max"} :
            Rules[j] = Rule(v, f, a, b)
      <3>1. j \in {7, 8, 9, 10, 11, 12, 13, 14, 15, 16, 17}
        OBVIOUS
      <3> QED BY <3>1, RuleTable DEF Sizes
    <2> QED BY <2>2, RuleParts
  <1>4. \A j \in 1 .. 17 : j \in 1 .. 6 \/ j \in 7 .. 17
    OBVIOUS
  <1> QED BY <1>1, <1>2, <1>3, <1>4

(* The interval a rule other than the list cuts to. *)
CutterOf(r) ==
  CASE r.f = "constraint" -> Constraint(r.var)
    [] r.f = "max" -> Interval(0, card.dma_max, TRUE)
    [] r.f = "mul" -> snd_interval_mul(params[r.a], params[r.b])
    [] r.f = "div" -> snd_interval_div(params[r.a], params[r.b])
    [] r.f = "muldivk" -> snd_interval_muldivk(params[r.a], params[r.b], 8)
    [] r.f = "mulkdiv" -> snd_interval_mulkdiv(params[r.a], 8, params[r.b])

(* Every rule but the list refines its interval. *)
LEMMA RunsByCutting ==
  ASSUME NEW j \in 1 .. 17, j # 16
  PROVE  RunRule(Rules[j]) = snd_interval_refine(params[Rules[j].var], CutterOf(Rules[j]))
  <1>1. PICK r : r = Rules[j]
    OBVIOUS
  <1>2. r.f \in {"constraint", "max", "mul", "div", "muldivk", "mulkdiv"}
    <2>1. j \in 1 .. 6 \/ j \in {7, 8, 9, 10, 11, 12, 13, 14, 15, 17}
      OBVIOUS
    <2> QED BY <1>1, <2>1, RuleShape
  <1>3. RunRule(r) = snd_interval_refine(params[r.var], CutterOf(r))
    <2>1. CASE r.f = "constraint"
      BY <2>1 DEF RunRule, CutterOf
    <2>2. CASE r.f = "max"
      BY <2>2 DEF RunRule, CutterOf
    <2>3. CASE r.f = "mul"
      BY <2>3 DEF RunRule, CutterOf
    <2>4. CASE r.f = "div"
      BY <2>4 DEF RunRule, CutterOf
    <2>5. CASE r.f = "muldivk"
      BY <2>5 DEF RunRule, CutterOf
    <2>6. CASE r.f = "mulkdiv"
      BY <2>6 DEF RunRule, CutterOf
    <2> QED BY <1>2, <2>1, <2>2, <2>3, <2>4, <2>5, <2>6
  <1> QED BY <1>1, <1>3

(* The rule of the list. *)
LEMMA RunsByList ==
  RunRule(Rules[16]) = snd_interval_list(params["PERIOD_SIZE"], card.period_sizes)
  <1>1. PICK r : r = Rules[16]
    OBVIOUS
  <1>2. r.f = "list" /\ r.var = "PERIOD_SIZE"
    BY <1>1, RuleTable, RuleParts
  <1>3. RunRule(r) = snd_interval_list(params[r.var], card.period_sizes)
    BY <1>2 DEF RunRule
  <1> QED BY <1>1, <1>2, <1>3

(* The limits of a card. *)
LEMMA CardLimits ==
  ASSUME NEW c \in Cards
  PROVE  /\ c.period_bytes_min \in 1 .. UINT_MAX /\ c.periods_min \in 1 .. UINT_MAX
         /\ c.period_bytes_max \in Nat /\ c.periods_max \in Nat /\ c.buffer_bytes_max \in Nat
         /\ c.dma_max \in Nat /\ c.buffer_size_max \in Nat /\ c.whole \in BOOLEAN
         /\ c.period_sizes \subseteq 0 .. UINT_MAX
         /\ c.period_bytes_max < UINT_MAX /\ c.buffer_bytes_max < UINT_MAX
         /\ c.period_bytes_max * c.periods_max <= UINT_MAX
         /\ 3 * c.buffer_bytes_max <= LONG_MAX
         /\ UINT_MAX \in Nat /\ LONG_MAX \in Nat
  <1>1. c \in CardType
    BY HwParamsAssumption
  <1>2. /\ c.period_bytes_max \in Nat /\ c.periods_max \in Nat /\ c.buffer_bytes_max \in Nat
        /\ c.dma_max \in Nat /\ c.buffer_size_max \in Nat
    BY <1>1 DEF CardType
  <1>3. c.whole \in BOOLEAN
    BY <1>1 DEF CardType
  <1> QED BY <1>2, <1>3, HwParamsAssumption

(* An interval with closed bounds can be cut to. *)
LEMMA IntervalCutter ==
  ASSUME NEW lo \in 0 .. UINT_MAX, NEW hi \in Nat, NEW whole \in BOOLEAN
  PROVE  LET i == Interval(lo, hi, whole)
         IN  /\ i \in Cutter /\ i.min = lo /\ i.max = hi /\ i.integer = whole
             /\ ~i.openmin /\ ~i.openmax /\ ~i.empty
  BY DEF Interval, Cutter

(* The constraints of the card. *)
LEMMA Constraints ==
  ASSUME card \in Cards, NEW v \in Sizes
  PROVE  /\ Constraint(v) \in Cutter /\ ~Constraint(v).openmin /\ ~Constraint(v).openmax
         /\ ~Constraint(v).empty
         /\ v = "PERIOD_SIZE" => Constraint(v).integer
         /\ v = "PERIOD_BYTES" => Constraint(v).min = card.period_bytes_min
                                  /\ Constraint(v).max = card.period_bytes_max
         /\ v = "PERIODS" => Constraint(v).min = card.periods_min
                             /\ Constraint(v).max = card.periods_max
         /\ v = "BUFFER_SIZE" => Constraint(v).min = 0
                                 /\ Constraint(v).max = card.buffer_size_max
         /\ v = "BUFFER_BYTES" => Constraint(v).min = card.period_bytes_min
                                  /\ Constraint(v).max = card.buffer_bytes_max
         /\ v \in {"FRAME_BITS", "PERIOD_SIZE"} => Constraint(v).min = 0
                                                   /\ Constraint(v).max = UINT_MAX
  <1>0. PICK c \in Cards : c = card
    OBVIOUS
  <1>1. /\ c.period_bytes_min \in 0 .. UINT_MAX /\ c.periods_min \in 0 .. UINT_MAX
        /\ c.period_bytes_max \in Nat /\ c.periods_max \in Nat /\ c.buffer_bytes_max \in Nat
        /\ c.buffer_size_max \in Nat /\ c.whole \in BOOLEAN /\ UINT_MAX \in Nat
        /\ 0 \in 0 .. UINT_MAX
    BY CardLimits
  <1>7. PICK no \in BOOLEAN, yes \in BOOLEAN : no = FALSE /\ yes = TRUE
    OBVIOUS
  <1>2. CASE v = "PERIOD_BYTES"
    <2>1. Constraint(v) = Interval(c.period_bytes_min, c.period_bytes_max, no)
      BY <1>7, <1>0, <1>2 DEF Constraint
    <2> QED BY <1>0, <1>1, <1>2, <2>1, IntervalCutter
  <1>3. CASE v = "PERIODS"
    <2>1. Constraint(v) = Interval(c.periods_min, c.periods_max, c.whole)
      BY <1>0, <1>3 DEF Constraint
    <2> QED BY <1>0, <1>1, <1>3, <2>1, IntervalCutter
  <1>4. CASE v = "BUFFER_SIZE"
    <2>1. Constraint(v) = Interval(0, c.buffer_size_max, yes)
      BY <1>7, <1>0, <1>4 DEF Constraint
    <2> QED BY <1>0, <1>1, <1>4, <2>1, IntervalCutter
  <1>5. CASE v = "BUFFER_BYTES"
    <2>1. Constraint(v) = Interval(c.period_bytes_min, c.buffer_bytes_max, yes)
      BY <1>7, <1>0, <1>5 DEF Constraint
    <2> QED BY <1>0, <1>1, <1>5, <2>1, IntervalCutter
  <1>6. CASE v \in {"FRAME_BITS", "PERIOD_SIZE"}
    <2>1. Constraint(v) = Interval(0, UINT_MAX, yes)
      BY <1>7, <1>6 DEF Constraint
    <2>2. UINT_MAX \in Nat /\ 0 \in 0 .. UINT_MAX
      BY <1>1
    <2>3. /\ Constraint(v) \in Cutter /\ Constraint(v).min = 0 /\ Constraint(v).max = UINT_MAX
          /\ Constraint(v).integer = yes /\ ~Constraint(v).openmin
          /\ ~Constraint(v).openmax /\ ~Constraint(v).empty
      BY <2>1, <2>2, IntervalCutter
    <2> QED BY <1>6, <1>7, <2>3
  <1> QED BY <1>2, <1>3, <1>4, <1>5, <1>6 DEF Sizes

(* What a rule cuts to is an interval of whole numbers or fractions. *)
LEMMA CutterType ==
  ASSUME card \in Cards, NEW j \in 1 .. 17, j # 16,
         \A v \in Sizes : Good(params[v]) /\ ~params[v].empty
  PROVE  /\ CutterOf(Rules[j]) \in Cutter
         /\ (\A v \in Sizes : params[v].integer) /\ CutterOf(Rules[j]).openmax
              => 0 < CutterOf(Rules[j]).max
  <1>1. PICK r : r = Rules[j]
    OBVIOUS
  <1>2. CASE j \in 1 .. 6
    <2>1. r.f = "constraint" /\ r.var \in Sizes
      BY <1>1, <1>2, RuleShape
    <2>2. CutterOf(r) = Constraint(r.var)
      BY <2>1 DEF CutterOf
    <2>3. Constraint(r.var) \in Cutter /\ ~Constraint(r.var).openmax
      BY <2>1, Constraints
    <2> QED BY <1>1, <2>2, <2>3, Zenon
  <1>3. CASE j = 17
    <2>1. r.f = "max"
      BY <1>1, <1>3, RuleShape
    <2>2. PICK yes \in BOOLEAN : yes = TRUE
      OBVIOUS
    <2>3. CutterOf(r) = Interval(0, card.dma_max, yes)
      BY <2>1, <2>2 DEF CutterOf
    <2>4. PICK c \in Cards : c = card
      OBVIOUS
    <2>7. c.dma_max \in Nat
      BY CardLimits
    <2>5. card.dma_max \in Nat
      BY <2>4, <2>7
    <2>6. 0 \in 0 .. UINT_MAX
      BY HwParamsAssumption
    <2> QED BY <1>1, <2>3, <2>5, <2>6, IntervalCutter
  <1>4. CASE j \in 7 .. 15
    <2>1. PICK a, b : a = params[r.a] /\ b = params[r.b]
      OBVIOUS
    <2>2. r.a \in Sizes /\ r.b \in Sizes
      <3>1. j \in 7 .. 17
        BY <1>4
      <3>2. \A i \in 7 .. 17 : Rules[i].a \in Sizes /\ Rules[i].b \in Sizes
        BY RuleShape
      <3> QED BY <1>1, <3>1, <3>2, Zenon
    <2>3. /\ Good(a) /\ ~a.empty /\ Good(b) /\ ~b.empty
          /\ (\A v \in Sizes : params[v].integer) => a.integer /\ b.integer
      BY <2>1, <2>2
    <2>4. CASE j = 12
      <3>1. r.f = "mul"
        BY <1>1, <2>4, RuleShape
      <3>2. CutterOf(r) = snd_interval_mul(a, b)
        BY <2>1, <3>1 DEF CutterOf
      <3> QED BY <1>1, <2>3, <3>2, MulCutter
    <2>5. CASE j \in {14, 15}
      <3>1. r.f = "muldivk"
        BY <1>1, <2>5, RuleShape
      <3>2. CutterOf(r) = snd_interval_muldivk(a, b, 8)
        BY <2>1, <3>1 DEF CutterOf
      <3> QED BY <1>1, <2>3, <3>2, MuldivkCutter
    <2>6. CASE j \in {7, 8, 11, 13}
      <3>1. r.f = "mulkdiv"
        BY <1>1, <2>6, RuleShape
      <3>2. CutterOf(r) = snd_interval_mulkdiv(a, 8, b)
        BY <2>1, <3>1 DEF CutterOf
      <3> QED BY <1>1, <2>3, <3>2, MulkdivCutter
    <2>7. CASE j \in {9, 10}
      <3>1. r.f = "div"
        BY <1>1, <2>7, RuleShape
      <3>2. CutterOf(r) = snd_interval_mulkdiv(a, 1, b)
        BY <2>1, <3>1 DEF CutterOf, snd_interval_div
      <3> QED BY <1>1, <2>3, <3>2, MulkdivCutter
    <2>8. j = 12 \/ j \in {14, 15} \/ j \in {7, 8, 11, 13} \/ j \in {9, 10}
      BY <1>4
    <2> QED BY <2>4, <2>5, <2>6, <2>7, <2>8
  <1>5. j \in 1 .. 6 \/ j = 17 \/ j \in 7 .. 15
    OBVIOUS
  <1> QED BY <1>2, <1>3, <1>4, <1>5

(* A rule is given sizes that all have a value. *)
Ready ==
  card \in Cards /\ req \in Requests /\ \A v \in Sizes : Good(params[v]) /\ ~params[v].empty

(* A rule narrows its interval, and says so. *)
LEMMA RunNarrows ==
  ASSUME Ready, NEW j \in 1 .. 17
  PROVE  LET i == params[Rules[j].var]
             x == RunRule(Rules[j])
         IN  /\ Good(x.i) /\ i.min <= x.i.min /\ x.i.max <= i.max /\ Upper(x.i) <= Upper(i)
             /\ i.integer => x.i.integer
             /\ ~x.changed => x.i.min = i.min /\ x.i.max = i.max
             /\ (\A v \in Sizes : params[v].integer) => 0 <= x.i.max
  <1> DEFINE i == params[Rules[j].var]
             x == RunRule(Rules[j])
  <1>1. Rules[j].var \in Sizes
    BY RuleShape
  <1>2. Good(i) /\ ~i.empty
    BY <1>1 DEF Ready
  <1>3. CASE j = 16
    <2>1. x = snd_interval_list(i, card.period_sizes)
      <3>1. Rules[16].var = "PERIOD_SIZE"
        BY RuleTable, RuleParts
      <3> QED BY <1>3, <3>1, RunsByList
    <2>2. PICK list : list = card.period_sizes /\ list \subseteq 0 .. UINT_MAX
      BY CardLimits DEF Ready
    <2>3. PICK h : h = i
      OBVIOUS
    <2> HIDE DEF i, x
    <2>4. x = snd_interval_list(h, list) /\ Good(h) /\ ~h.empty
      BY <1>2, <2>1, <2>2, <2>3
    <2>5. /\ Good(x.i) /\ h.min <= x.i.min /\ x.i.max <= h.max /\ Upper(x.i) <= Upper(h)
          /\ h.integer => x.i.integer
          /\ ~x.changed => x.i.min = h.min /\ x.i.max = h.max
          /\ 0 <= x.i.max
      BY <2>2, <2>4, ListBounds
    <2> QED BY <2>3, <2>5 DEF i, x
  <1>4. CASE j # 16
    <2>1. PICK c : /\ c = CutterOf(Rules[j]) /\ c \in Cutter
                   /\ (\A v \in Sizes : params[v].integer) /\ c.openmax => 0 < c.max
      BY <1>4, CutterType DEF Ready
    <2>2. PICK h : h = i
      OBVIOUS
    <2>3. x = snd_interval_refine(h, c) /\ Good(h) /\ ~h.empty
      BY <1>2, <1>4, <2>1, <2>2, RunsByCutting
    <2>4. (\A v \in Sizes : params[v].integer) => h.integer
      BY <1>1, <2>2
    <2> HIDE DEF i, x
    <2>5. /\ Good(x.i) /\ h.min <= x.i.min /\ x.i.max <= h.max /\ Upper(x.i) <= Upper(h)
          /\ h.integer => x.i.integer
          /\ ~x.changed => x.i.min = h.min /\ x.i.max = h.max
          /\ h.integer /\ 0 <= h.max /\ (c.openmax => 0 < c.max) => 0 <= x.i.max
      BY <2>1, <2>3, RefineBounds
    <2>6. 0 <= h.max
      BY <2>3, Bounds
    <2> QED BY <2>1, <2>2, <2>4, <2>5, <2>6 DEF i, x
  <1> QED BY <1>3, <1>4

(* The lesser of two numbers. *)
LEMMA MinOfTwo ==
  ASSUME NEW a \in Int, NEW b \in Int
  PROVE  Min({a, b}) = IF a <= b THEN a ELSE b
  <1>1. \E x \in {a, b} : \A y \in {a, b} : x <= y
    OBVIOUS
  <1>2. Min({a, b}) \in {a, b} /\ \A y \in {a, b} : Min({a, b}) <= y
    BY <1>1 DEF Min
  <1> QED BY <1>2

(* A configuration that keeps to the limits of the card, whether or not the *)
(* period is in its list.                                                   *)
Fits(f, p, n) ==
  /\ n \in card.periods_min .. card.periods_max
  /\ p * f \in card.period_bytes_min .. card.period_bytes_max
  /\ p * n <= card.buffer_size_max
  /\ p * n * f <= Min({card.buffer_bytes_max, card.dma_max})

(* The list is all that is missing. *)
LEMMA LegalFits ==
  ASSUME NEW f, NEW p, NEW n
  PROVE  Legal(f, p, n) <=> /\ Fits(f, p, n)
                            /\ card.period_sizes # {} => p \in card.period_sizes
  BY DEF Legal, Fits

(* The six sizes of a configuration that keeps to the limits of the card,   *)
(* and how they are tied together.                                          *)
LEMMA FitValues ==
  ASSUME card \in Cards, req \in Requests,
         NEW p \in 1 .. card.period_bytes_max, NEW n \in Periods, Fits(req.frame, p, n)
  PROVE  LET U == {u \in Nat \ {0} : u < UINT_MAX}
             V(v) == Value(v, p, n)
         IN  /\ \A v \in Sizes : V(v) \in U
             /\ V("FRAME_BITS") * V("PERIOD_SIZE") = V("PERIOD_BYTES") * 8
             /\ V("FRAME_BITS") * V("BUFFER_SIZE") = V("BUFFER_BYTES") * 8
             /\ V("PERIODS") * V("PERIOD_SIZE") = V("BUFFER_SIZE") * 1
             /\ V("PERIOD_SIZE") * V("PERIODS") = V("BUFFER_SIZE") * 1
             /\ V("PERIOD_SIZE") * V("FRAME_BITS") = V("PERIOD_BYTES") * 8
             /\ V("PERIOD_SIZE") * V("PERIODS") = V("BUFFER_SIZE")
             /\ V("BUFFER_SIZE") * V("FRAME_BITS") = V("BUFFER_BYTES") * 8
             /\ V("PERIOD_BYTES") * 8 = V("PERIOD_SIZE") * V("FRAME_BITS")
             /\ V("BUFFER_BYTES") * 8 = V("BUFFER_SIZE") * V("FRAME_BITS")
             /\ V("PERIODS") \in card.periods_min .. card.periods_max
             /\ V("PERIOD_BYTES") \in card.period_bytes_min .. card.period_bytes_max
             /\ V("BUFFER_SIZE") <= card.buffer_size_max
             /\ V("BUFFER_BYTES") \in card.period_bytes_min .. card.buffer_bytes_max
             /\ V("BUFFER_BYTES") <= card.dma_max
  <1> DEFINE V(v) == Value(v, p, n)
  <1>1. PICK c \in Cards : c = card
    OBVIOUS
  <1>2. PICK f \in Nat \ {0} : f = req.frame /\ 8 * f < UINT_MAX
    BY HwParamsAssumption
  <1>3. /\ c.period_bytes_min \in 1 .. UINT_MAX /\ c.periods_min \in 1 .. UINT_MAX
        /\ c.period_bytes_max \in Nat /\ c.periods_max \in Nat /\ c.buffer_bytes_max \in Nat
        /\ c.dma_max \in Nat /\ c.buffer_size_max \in Nat
        /\ c.period_bytes_max < UINT_MAX /\ c.buffer_bytes_max < UINT_MAX
        /\ UINT_MAX \in Nat
    BY CardLimits
  <1>4. p \in Nat \ {0} /\ n \in Nat \ {0} /\ n \in c.periods_min .. c.periods_max
    BY <1>1, <1>3 DEF Periods
  <1>5. PICK B \in Nat, S \in Nat, T \in Nat : B = p * f /\ S = p * n /\ T = S * f
    BY <1>4
  <1>6. /\ V("FRAME_BITS") = 8 * f /\ V("PERIOD_SIZE") = p /\ V("PERIOD_BYTES") = B
        /\ V("PERIODS") = n /\ V("BUFFER_SIZE") = S /\ V("BUFFER_BYTES") = T
    BY <1>2, <1>5 DEF Value
  <1>7. /\ B \in c.period_bytes_min .. c.period_bytes_max /\ S <= c.buffer_size_max
        /\ T <= Min({c.buffer_bytes_max, c.dma_max})
    BY <1>1, <1>2, <1>5 DEF Fits
  <1>8. T <= c.buffer_bytes_max /\ T <= c.dma_max
    BY <1>3, <1>7, MinOfTwo
  <1>9. p <= B /\ S <= T /\ n <= S /\ B <= T
    <2>1. p * 1 <= p * f /\ S * 1 <= S * f /\ 1 * n <= p * n
      BY <1>4, ProductGrows
    <2>2. T = B * n
      BY <1>4, <1>5
    <2>3. B * 1 <= B * n
      BY <1>4, ProductGrows
    <2> QED BY <1>4, <1>5, <2>1, <2>2, <2>3
  <1>10. /\ 8 * f * p = B * 8 /\ 8 * f * S = T * 8 /\ n * p = S * 1 /\ p * n = S * 1
         /\ p * (8 * f) = B * 8 /\ S * (8 * f) = T * 8
    BY <1>4, <1>5
  <1>11. /\ 8 * f \in Nat \ {0} /\ 8 * f < UINT_MAX
         /\ p < UINT_MAX /\ B \in Nat \ {0} /\ B < UINT_MAX /\ n < UINT_MAX
         /\ S \in Nat \ {0} /\ S < UINT_MAX /\ T \in Nat \ {0} /\ T < UINT_MAX
         /\ T \in c.period_bytes_min .. c.buffer_bytes_max
    BY <1>2, <1>3, <1>4, <1>7, <1>8, <1>9
  <1>12. \A v \in Sizes : V(v) \in {u \in Nat \ {0} : u < UINT_MAX}
    BY <1>4, <1>6, <1>11 DEF Sizes
  <1> HIDE DEF V
  <1> QED BY <1>1, <1>4, <1>5, <1>6, <1>7, <1>8, <1>10, <1>11, <1>12 DEF V

(* A value between closed bounds. *)
LEMMA HasClosed ==
  ASSUME NEW v, ~v.empty, ~v.openmin, ~v.openmax, NEW x \in Int,
         v.min \in Int, v.max \in Int, v.min <= x, x <= v.max
  PROVE  Has(v, x)
  BY DEF Has

(* What a rule cuts to has the value of each configuration that is left. *)
LEMMA CutterKeeps ==
  ASSUME Ready, NEW j \in 1 .. 17, j # 16,
         NEW p \in 1 .. card.period_bytes_max, NEW n \in Periods, Fits(req.frame, p, n),
         \A v \in Sizes : Has(params[v], Value(v, p, n))
  PROVE  Has(CutterOf(Rules[j]), Value(Rules[j].var, p, n))
  <1> DEFINE U == {u \in Nat \ {0} : u < UINT_MAX}
             V(v) == Value(v, p, n)
  <1>0. card \in Cards /\ req \in Requests
    BY DEF Ready
  <1>1. /\ \A v \in Sizes : V(v) \in U
        /\ V("FRAME_BITS") * V("PERIOD_SIZE") = V("PERIOD_BYTES") * 8
        /\ V("FRAME_BITS") * V("BUFFER_SIZE") = V("BUFFER_BYTES") * 8
        /\ V("PERIODS") * V("PERIOD_SIZE") = V("BUFFER_SIZE") * 1
        /\ V("PERIOD_SIZE") * V("PERIODS") = V("BUFFER_SIZE") * 1
        /\ V("PERIOD_SIZE") * V("FRAME_BITS") = V("PERIOD_BYTES") * 8
        /\ V("PERIOD_SIZE") * V("PERIODS") = V("BUFFER_SIZE")
        /\ V("BUFFER_SIZE") * V("FRAME_BITS") = V("BUFFER_BYTES") * 8
        /\ V("PERIOD_BYTES") * 8 = V("PERIOD_SIZE") * V("FRAME_BITS")
        /\ V("BUFFER_BYTES") * 8 = V("BUFFER_SIZE") * V("FRAME_BITS")
    BY <1>0, FitValues
  <1>2. /\ V("PERIODS") \in card.periods_min .. card.periods_max
        /\ V("PERIOD_BYTES") \in card.period_bytes_min .. card.period_bytes_max
        /\ V("BUFFER_SIZE") <= card.buffer_size_max
        /\ V("BUFFER_BYTES") \in card.period_bytes_min .. card.buffer_bytes_max
        /\ V("BUFFER_BYTES") <= card.dma_max
    BY <1>0, FitValues
  <1>3. \A v \in Sizes : Has(params[v], V(v)) /\ Good(params[v])
    BY DEF Ready
  <1> HIDE DEF V
  <1>4. ASSUME NEW v \in Sizes, NEW a \in Sizes, NEW b \in Sizes, NEW f,
               Rules[j] = Rule(v, f, a, b), f = "mulkdiv", V(v) * V(b) = V(a) * 8
        PROVE  Has(CutterOf(Rules[j]), V(Rules[j].var))
    <2>1. PICK r : r = Rules[j]
      OBVIOUS
    <2>2. r.var = v /\ r.f = "mulkdiv" /\ r.a = a /\ r.b = b
      BY <1>4, <2>1, RuleParts
    <2>3. CutterOf(r) = snd_interval_mulkdiv(params[a], 8, params[b])
      BY <2>2 DEF CutterOf
    <2>4. PICK x, y, z \in U : x = V(a) /\ y = V(b) /\ z = V(v)
      BY <1>1
    <2>5. Has(snd_interval_mulkdiv(params[a], 8, params[b]), z)
      <3>1. z * y = x * 8
        BY <1>4, <2>4
      <3>2. PICK s, t : s = params[a] /\ t = params[b] /\ Good(s) /\ Good(t) /\ Has(s, x) /\ Has(t, y)
        BY <1>3, <2>4
      <3>3. Has(snd_interval_mulkdiv(s, 8, t), z)
        BY <3>1, <3>2, MulkdivHas
      <3> QED BY <3>2, <3>3
    <2> QED BY <2>1, <2>2, <2>3, <2>4, <2>5
  <1>5. ASSUME NEW v \in Sizes, NEW a \in Sizes, NEW b \in Sizes, NEW f,
               Rules[j] = Rule(v, f, a, b), f = "div", V(v) * V(b) = V(a) * 1
        PROVE  Has(CutterOf(Rules[j]), V(Rules[j].var))
    <2>1. PICK r : r = Rules[j]
      OBVIOUS
    <2>2. r.var = v /\ r.f = "div" /\ r.a = a /\ r.b = b
      BY <1>5, <2>1, RuleParts
    <2>3. CutterOf(r) = snd_interval_mulkdiv(params[a], 1, params[b])
      BY <2>2 DEF CutterOf, snd_interval_div
    <2>4. PICK x, y, z \in U : x = V(a) /\ y = V(b) /\ z = V(v)
      BY <1>1
    <2>5. Has(snd_interval_mulkdiv(params[a], 1, params[b]), z)
      <3>1. z * y = x * 1
        BY <1>5, <2>4
      <3>2. PICK s, t : s = params[a] /\ t = params[b] /\ Good(s) /\ Good(t) /\ Has(s, x) /\ Has(t, y)
        BY <1>3, <2>4
      <3>3. Has(snd_interval_mulkdiv(s, 1, t), z)
        BY <3>1, <3>2, MulkdivHas
      <3> QED BY <3>2, <3>3
    <2> QED BY <2>1, <2>2, <2>3, <2>4, <2>5
  <1>6. ASSUME NEW v \in Sizes, NEW a \in Sizes, NEW b \in Sizes, NEW f,
               Rules[j] = Rule(v, f, a, b), f = "muldivk", V(v) * 8 = V(a) * V(b)
        PROVE  Has(CutterOf(Rules[j]), V(Rules[j].var))
    <2>1. PICK r : r = Rules[j]
      OBVIOUS
    <2>2. r.var = v /\ r.f = "muldivk" /\ r.a = a /\ r.b = b
      BY <1>6, <2>1, RuleParts
    <2>3. CutterOf(r) = snd_interval_muldivk(params[a], params[b], 8)
      BY <2>2 DEF CutterOf
    <2>4. PICK x, y, z \in U : x = V(a) /\ y = V(b) /\ z = V(v)
      BY <1>1
    <2>5. Has(snd_interval_muldivk(params[a], params[b], 8), z)
      <3>1. z * 8 = x * y
        BY <1>6, <2>4
      <3>2. PICK s, t : s = params[a] /\ t = params[b] /\ Good(s) /\ Good(t) /\ Has(s, x) /\ Has(t, y)
        BY <1>3, <2>4
      <3>3. Has(snd_interval_muldivk(s, t, 8), z)
        BY <3>1, <3>2, MuldivkHas
      <3> QED BY <3>2, <3>3
    <2> QED BY <2>1, <2>2, <2>3, <2>4, <2>5
  <1>7. CASE j = 12
    <2>1. PICK r : r = Rules[j]
      OBVIOUS
    <2>2. r.var = "BUFFER_SIZE" /\ r.f = "mul" /\ r.a = "PERIOD_SIZE" /\ r.b = "PERIODS"
      BY <1>7, <2>1, RuleTable, RuleParts
    <2>3. CutterOf(r) = snd_interval_mul(params["PERIOD_SIZE"], params["PERIODS"])
      BY <2>2 DEF CutterOf
    <2>4. PICK x, y, z \in U : x = V("PERIOD_SIZE") /\ y = V("PERIODS") /\ z = V("BUFFER_SIZE")
      BY <1>1 DEF Sizes
    <2>5. Has(snd_interval_mul(params["PERIOD_SIZE"], params["PERIODS"]), z)
      <3>1. z = x * y
        BY <1>1, <2>4
      <3>2. PICK s, t : /\ s = params["PERIOD_SIZE"] /\ t = params["PERIODS"]
                        /\ Good(s) /\ Good(t) /\ Has(s, x) /\ Has(t, y)
        BY <1>3, <2>4 DEF Sizes
      <3>3. Has(snd_interval_mul(s, t), z)
        BY <3>1, <3>2, MulHas
      <3> QED BY <3>2, <3>3
    <2> QED BY <2>1, <2>2, <2>3, <2>4, <2>5 DEF V
  <1>8. CASE j \in 1 .. 6
    <2>1. PICK r : r = Rules[j]
      OBVIOUS
    <2>2. PICK v \in Sizes : v = r.var
      BY <1>8, <2>1, RuleShape
    <2>3. r.f = "constraint"
      BY <1>8, <2>1, RuleShape
    <2>4. CutterOf(r) = Constraint(v)
      BY <2>2, <2>3 DEF CutterOf
    <2>5. PICK c : c = Constraint(v)
      OBVIOUS
    <2>6. c \in Cutter /\ ~c.openmin /\ ~c.openmax /\ ~c.empty
      BY <1>0, <2>5, Constraints
    <2>7. V(v) \in U
      BY <1>1
    <2>8. c.min <= V(v) /\ V(v) <= c.max
      <3>1. /\ v = "PERIOD_BYTES" => c.min = card.period_bytes_min
                                  /\ c.max = card.period_bytes_max
            /\ v = "PERIODS" => c.min = card.periods_min
                             /\ c.max = card.periods_max
            /\ v = "BUFFER_SIZE" => c.min = 0
                                 /\ c.max = card.buffer_size_max
            /\ v = "BUFFER_BYTES" => c.min = card.period_bytes_min
                                  /\ c.max = card.buffer_bytes_max
            /\ v \in {"FRAME_BITS", "PERIOD_SIZE"} => c.min = 0
                                                   /\ c.max = UINT_MAX
        BY <1>0, <2>5, Constraints
      <3>2. c.min \in Int /\ c.max \in Int
        BY <2>6 DEF Cutter
      <3>3. UINT_MAX \in Nat
        BY HwParamsAssumption
      <3>4. CASE v = "PERIOD_BYTES"
        BY <1>2, <2>7, <3>1, <3>2, <3>4
      <3>5. CASE v = "PERIODS"
        BY <1>2, <2>7, <3>1, <3>2, <3>5
      <3>6. CASE v = "BUFFER_SIZE"
        BY <1>2, <2>7, <3>1, <3>2, <3>6
      <3>7. CASE v = "BUFFER_BYTES"
        BY <1>2, <2>7, <3>1, <3>2, <3>7
      <3>8. CASE v \in {"FRAME_BITS", "PERIOD_SIZE"}
        BY <2>7, <3>1, <3>2, <3>3, <3>8
      <3> QED BY <3>4, <3>5, <3>6, <3>7, <3>8 DEF Sizes
    <2>9. V(v) \in Int /\ c.min \in Int /\ c.max \in Int
      BY <2>6, <2>7 DEF Cutter
    <2>10. Has(c, V(v))
      BY <2>6, <2>8, <2>9, HasClosed
    <2> QED BY <2>1, <2>2, <2>4, <2>5, <2>10 DEF V
  <1>9. CASE j = 17
    <2>1. PICK r : r = Rules[j]
      OBVIOUS
    <2>2. r.f = "max" /\ r.var = "BUFFER_BYTES"
      BY <1>9, <2>1, RuleTable, RuleParts
    <2>3. PICK yes \in BOOLEAN : yes = TRUE
      OBVIOUS
    <2>4. CutterOf(r) = Interval(0, card.dma_max, yes)
      BY <2>2, <2>3 DEF CutterOf
    <2>5. card.dma_max \in Nat /\ 0 \in 0 .. UINT_MAX
      <3>1. PICK c \in Cards : c = card
        BY <1>0
      <3>2. c.dma_max \in Nat
        BY CardLimits
      <3> QED BY <3>1, <3>2, HwParamsAssumption
    <2>6. V("BUFFER_BYTES") \in Nat
      BY <1>1 DEF Sizes
    <2>7. PICK c : c = Interval(0, card.dma_max, yes)
      OBVIOUS
    <2>8. ~c.openmin /\ ~c.openmax /\ ~c.empty /\ c.min = 0 /\ c.max = card.dma_max
      BY <2>5, <2>7, IntervalCutter
    <2>9. Has(c, V("BUFFER_BYTES"))
      BY <1>2, <2>5, <2>6, <2>8, HasClosed
    <2> QED BY <2>1, <2>2, <2>4, <2>7, <2>9 DEF V
  <1>10. CASE j \in {7, 8, 11, 13}
    <2>1. PICK v \in Sizes, a \in Sizes, b \in Sizes :
            Rules[j] = Rule(v, "mulkdiv", a, b) /\ V(v) * V(b) = V(a) * 8
      BY <1>1, <1>10, RuleTable DEF Sizes
    <2> QED BY <1>4, <2>1 DEF V
  <1>11. CASE j \in {9, 10}
    <2>1. PICK v \in Sizes, a \in Sizes, b \in Sizes :
            Rules[j] = Rule(v, "div", a, b) /\ V(v) * V(b) = V(a) * 1
      BY <1>1, <1>11, RuleTable DEF Sizes
    <2> QED BY <1>5, <2>1 DEF V
  <1>12. CASE j \in {14, 15}
    <2>1. PICK v \in Sizes, a \in Sizes, b \in Sizes :
            Rules[j] = Rule(v, "muldivk", a, b) /\ V(v) * 8 = V(a) * V(b)
      BY <1>1, <1>12, RuleTable DEF Sizes
    <2> QED BY <1>6, <2>1 DEF V
  <1>13. \/ j \in 1 .. 6 \/ j \in {7, 8, 11, 13} \/ j \in {9, 10} \/ j \in {14, 15}
         \/ j = 12 \/ j = 17
    OBVIOUS
  <1> QED BY <1>7, <1>8, <1>9, <1>10, <1>11, <1>12, <1>13

(* No rule takes a configuration away. *)
LEMMA RunKeeps ==
  ASSUME Ready, NEW j \in 1 .. 17, j = 16 => card.period_sizes # {},
         NEW p \in 1 .. card.period_bytes_max, NEW n \in Periods, Legal(req.frame, p, n),
         \A v \in Sizes : Has(params[v], Value(v, p, n))
  PROVE  Has(RunRule(Rules[j]).i, Value(Rules[j].var, p, n))
  <1>0. card \in Cards /\ req \in Requests
    BY DEF Ready
  <1>6. Fits(req.frame, p, n) /\ (card.period_sizes # {} => p \in card.period_sizes)
    BY LegalFits
  <1>1. PICK v \in Sizes : v = Rules[j].var
    BY RuleShape
  <1>2. PICK x \in Nat : x = Value(v, p, n)
    BY <1>0, <1>1, <1>6, FitValues
  <1>3. PICK i : i = params[v] /\ Good(i) /\ ~i.empty /\ Has(i, x)
    BY <1>1, <1>2 DEF Ready
  <1>4. CASE j # 16
    <2>1. PICK c : c = CutterOf(Rules[j]) /\ c \in Cutter
      BY <1>4, CutterType DEF Ready
    <2>2. Has(c, x)
      BY <1>1, <1>2, <1>4, <1>6, <2>1, CutterKeeps
    <2>3. Has(snd_interval_refine(i, c).i, x)
      BY <1>3, <2>1, <2>2, RefineHas
    <2>4. RunRule(Rules[j]) = snd_interval_refine(i, c)
      BY <1>1, <1>3, <1>4, <2>1, RunsByCutting
    <2> QED BY <1>1, <1>2, <2>3, <2>4
  <1>5. CASE j = 16
    <2>1. v = "PERIOD_SIZE"
      BY <1>1, <1>5, RuleTable, RuleParts
    <2>2. PICK list : list = card.period_sizes /\ list \subseteq 0 .. UINT_MAX
      BY <1>0, CardLimits
    <2>3. x \in list
      BY <1>2, <1>5, <1>6, <2>1, <2>2 DEF Value
    <2>4. RunRule(Rules[j]) = snd_interval_list(i, list)
      BY <1>3, <1>5, <2>1, <2>2, RunsByList
    <2>5. Has(snd_interval_list(i, list).i, x)
      BY <1>3, <2>2, <2>3, ListBounds
    <2> QED BY <1>1, <1>2, <2>4, <2>5
  <1> QED BY <1>4, <1>5

(* The rule that runs next is due. *)
LEMMA NextDue ==
  ASSUME Ordered, stamps # {}
  PROVE  /\ NextRule \in stamps /\ NextRule \in 1 .. 17
         /\ NextRule = 16 => card.period_sizes # {}
  <1>1. stamps \in SUBSET Nat /\ stamps \subseteq 1 .. 17 /\ stamps \subseteq RulesOf(card)
    <2>1. stamps \subseteq 1 .. 17
      BY RuleTable DEF Ordered, RulesOf
    <2> QED BY <2>1 DEF Ordered
  <1>2. NextRule \in stamps
    <2>1. PICK later : later = {j \in stamps : j > k}
      OBVIOUS
    <2>2. later \in SUBSET Nat /\ later \subseteq stamps
      BY <1>1, <2>1, Zenon
    <2>3. NextRule = IF later # {} THEN Min(later) ELSE Min(stamps)
      BY <2>1 DEF NextRule
    <2>4. CASE later # {}
      BY <2>2, <2>3, <2>4, LeastOf
    <2>5. CASE later = {}
      BY <1>1, <2>3, <2>5, LeastOf
    <2> QED BY <2>4, <2>5
  <1>3. \A j \in RulesOf(card) : j = 16 => card.period_sizes # {}
    BY RuleTable, RuleParts DEF RulesOf
  <1> QED BY <1>1, <1>2, <1>3

(* A turn of the loop: what it does to one interval and to the stamps. *)
LEMMA Turn ==
  ASSUME Ordered, snd_pcm_hw_refine
  PROVE  \E j \in 1 .. 17 : \E w \in Sizes : \E x :
           /\ j \in stamps /\ Ready /\ w = Rules[j].var /\ x = RunRule(Rules[j])
           /\ j = 16 => card.period_sizes # {}
           /\ k' = j /\ params' = [params EXCEPT ![w] = x.i]
           /\ x.i.empty => stamps' = {}
           /\ ~x.i.empty => stamps' = (stamps \ {j}) \cup (IF x.changed THEN Woken(j) ELSE {})
  <1>1. stamps # {} /\ pc \in {"refine", "params"}
    BY DEF snd_pcm_hw_refine
  <1>2. PICK j \in 1 .. 17 : j = NextRule /\ j \in stamps /\ (j = 16 => card.period_sizes # {})
    BY <1>1, NextDue
  <1>3. PICK x : x = RunRule(Rules[j])
    OBVIOUS
  <1>4. Rules[j].var \in Sizes
    BY RuleShape
  <1>5. /\ k' = j /\ params' = [params EXCEPT ![Rules[j].var] = x.i]
        /\ stamps' = IF x.i.empty THEN {}
                     ELSE (stamps \ {j}) \cup (IF x.changed THEN Woken(j) ELSE {})
    BY <1>2, <1>3 DEF snd_pcm_hw_refine
  <1>6. Ready
    BY <1>1 DEF Ready, Ordered
  <1> QED BY <1>2, <1>3, <1>4, <1>5, <1>6

(* Every interval is narrowed or left alone. *)
LEMMA TurnNarrows ==
  ASSUME Ordered, snd_pcm_hw_refine
  PROVE  \A v \in Sizes :
           /\ Good(params'[v]) /\ params[v].min <= params'[v].min
           /\ params'[v].max <= params[v].max /\ Upper(params'[v]) <= Upper(params[v])
           /\ params[v].integer => params'[v].integer
           /\ (\A u \in Sizes : params[u].integer) => 0 <= params'[v].max
  <1>1. PICK j \in 1 .. 17 : \E w \in Sizes : \E x :
           /\ j \in stamps /\ Ready /\ w = Rules[j].var /\ x = RunRule(Rules[j])
           /\ k' = j /\ params' = [params EXCEPT ![w] = x.i]
    BY Turn
  <1>2. PICK w, x :
           /\ w \in Sizes
           /\ Ready /\ w = Rules[j].var /\ x = RunRule(Rules[j])
           /\ params' = [params EXCEPT ![w] = x.i]
    BY <1>1
  <1> w \in Sizes
    BY <1>2
  <1>3. /\ Good(x.i) /\ params[w].min <= x.i.min /\ x.i.max <= params[w].max
        /\ Upper(x.i) <= Upper(params[w])
        /\ params[w].integer => x.i.integer
        /\ (\A v \in Sizes : params[v].integer) => 0 <= x.i.max
    BY <1>2, RunNarrows
  <1>4. TAKE v \in Sizes
  <1>5. CASE v = w
    <2>1. params'[v] = x.i
      BY <1>2, <1>5 DEF Ordered
    <2> QED BY <1>3, <1>5, <2>1
  <1>6. CASE v # w
    <2>1. params'[v] = params[v]
      BY <1>2, <1>6 DEF Ordered
    <2>2. PICK i : i = params[v] /\ Good(i) /\ ~i.empty
      BY <1>2 DEF Ready
    <2>3. /\ i.min \in 0 .. UINT_MAX /\ i.max \in 0 .. UINT_MAX
          /\ i.openmax \in BOOLEAN /\ UINT_MAX \in Nat
      BY <2>2, Bounds
    <2>4. i.min <= i.min /\ i.max <= i.max /\ 0 <= i.max /\ Upper(i) <= Upper(i)
      BY <2>3 DEF Upper
    <2> QED BY <2>1, <2>2, <2>4
  <1> QED BY <1>5, <1>6

(* A turn of the loop leaves the intervals well formed. *)
LEMMA TurnOrdered ==
  ASSUME Ordered, snd_pcm_hw_refine
  PROVE  Ordered'
  <1>1. PICK j \in 1 .. 17 : \E w \in Sizes : \E x :
           /\ Ready
           /\ k' = j /\ params' = [params EXCEPT ![w] = x.i]
           /\ x.i.empty => stamps' = {}
           /\ ~x.i.empty => stamps' = (stamps \ {j}) \cup (IF x.changed THEN Woken(j) ELSE {})
    BY Turn
  <1>2. PICK w, x :
           /\ w \in Sizes
           /\ Ready
           /\ k' = j /\ params' = [params EXCEPT ![w] = x.i]
           /\ x.i.empty => stamps' = {}
           /\ ~x.i.empty => stamps' = (stamps \ {j}) \cup (IF x.changed THEN Woken(j) ELSE {})
    BY <1>1
  <1> w \in Sizes
    BY <1>2
  <1>3. UNCHANGED <<card, req, pc, size, fTryAgain>>
    BY DEF snd_pcm_hw_refine
  <1>4. stamps' \subseteq RulesOf(card)
    BY <1>2 DEF Ordered, Woken
  <1>5. \A v \in Sizes : Good(params'[v])
    BY TurnNarrows
  <1>6. params' \in [Sizes -> IntervalRec]
    <2>1. \A v \in Sizes : params'[v] \in IntervalRec
      BY <1>5 DEF Good
    <2>2. DOMAIN params' = Sizes /\ params' = [v \in Sizes |-> params'[v]]
      BY <1>2 DEF Ordered
    <2> QED BY <2>1, <2>2
  <1>7. \A v \in Sizes : stamps' # {} => ~params'[v].empty
    <2>1. TAKE v \in Sizes
    <2>2. HAVE stamps' # {}
    <2>3. ~x.i.empty
      BY <1>2, <2>2
    <2>4. params'[v] = IF v = w THEN x.i ELSE params[v]
      BY <1>2 DEF Ordered
    <2> QED BY <1>2, <2>3, <2>4 DEF Ready
  <1>8. ~params'["FRAME_BITS"].empty =>
          params'["FRAME_BITS"].min = 8 * req.frame /\ params'["FRAME_BITS"].max = 8 * req.frame
    <2>1. HAVE ~params'["FRAME_BITS"].empty
    <2>2. PICK i, h : /\ i = params["FRAME_BITS"] /\ h = params'["FRAME_BITS"]
                      /\ Good(i) /\ ~i.empty /\ Good(h) /\ ~h.empty
                      /\ i.min <= h.min /\ h.max <= i.max
      BY <1>2, <2>1, TurnNarrows DEF Ready, Sizes
    <2>3. i.min = 8 * req.frame /\ i.max = 8 * req.frame
      BY <2>2 DEF Ordered
    <2>4. i.min \in Int /\ i.max \in Int /\ h.min \in Int /\ h.max \in Int /\ h.min <= h.max
      BY <2>2, Bounds
    <2>5. h.min = i.min /\ h.max = i.min
      BY <2>2, <2>3, <2>4
    <2> QED BY <2>2, <2>3, <2>5
  <1> QED BY <1>2, <1>3, <1>4, <1>5, <1>6, <1>7, <1>8 DEF Ordered

(* A turn of the loop takes no configuration away. *)
LEMMA TurnKept ==
  ASSUME Ordered, Kept, snd_pcm_hw_refine
  PROVE  Kept'
  <1>1. PICK j \in 1 .. 17 : \E w \in Sizes : \E x :
           /\ Ready /\ w = Rules[j].var /\ x = RunRule(Rules[j])
           /\ j = 16 => card.period_sizes # {}
           /\ params' = [params EXCEPT ![w] = x.i]
    BY Turn
  <1>2. PICK w, x :
           /\ w \in Sizes
           /\ Ready /\ w = Rules[j].var /\ x = RunRule(Rules[j])
           /\ j = 16 => card.period_sizes # {}
           /\ params' = [params EXCEPT ![w] = x.i]
    BY <1>1
  <1> w \in Sizes
    BY <1>2
  <1>3. UNCHANGED <<card, req, pc, size>> /\ pc \in {"refine", "params"}
    BY DEF snd_pcm_hw_refine
  <1>4. ASSUME NEW p \in 1 .. card.period_bytes_max, NEW n \in Periods, Wanted(p, n),
               NEW v \in Sizes
        PROVE  Has(params'[v], Value(v, p, n))
    <2>1. \A u \in Sizes : Has(params[u], Value(u, p, n))
      BY <1>3, <1>4 DEF Kept
    <2>2. Legal(req.frame, p, n)
      BY <1>4 DEF Wanted
    <2>3. Has(x.i, Value(w, p, n))
      BY <1>2, <2>1, <2>2, RunKeeps
    <2>4. params'[v] = IF v = w THEN x.i ELSE params[v]
      BY <1>2 DEF Ordered
    <2> QED BY <2>1, <2>3, <2>4
  <1>5. /\ Periods' = Periods /\ (card.period_bytes_max)' = card.period_bytes_max
        /\ \A p, n : Wanted(p, n)' = Wanted(p, n)
        /\ \A v, p, n : Value(v, p, n)' = Value(v, p, n)
    BY <1>3 DEF Periods, Wanted, Legal, Value
  <1> QED BY <1>4, <1>5 DEF Kept

(* The largest period the rule of PERIOD_SIZE leaves fits into the largest  *)
(* number of bytes.                                                         *)
LEMMA PeriodFits ==
  ASSUME NEW a, Good(a), ~a.empty, NEW b, Good(b), ~b.empty, NEW f \in Nat \ {0},
         b.min = 8 * f
  PROVE  LET v == snd_interval_mulkdiv(a, 8, b)
         IN  \A u \in Int : u <= Upper(v) => u * f <= a.max
  <1> DEFINE v == snd_interval_mulkdiv(a, 8, b)
             open == a.openmax \/ b.openmin
  <1>1. PICK m \in Nat, c \in Nat : m = a.max /\ c = b.min /\ c = 8 * f /\ c # 0
    BY Bounds
  <1>2. PICK o \in BOOLEAN : o = open
    BY Zenon
  <1>0. PICK e \in Nat : e = 8
    OBVIOUS
  <1>3. PICK q \in Nat : \E r \in BOOLEAN :
           /\ q = muldiv32(m, e, c).q /\ r = muldiv32(m, e, c).r
           /\ q * c <= m * e
           /\ r => q * c < m * e /\ m * e < (q + 1) * c
           /\ ~r => q = UINT_MAX \/ q * c = m * e
           /\ Above(muldiv32(m, e, c), o).max = (IF r THEN q + 1 ELSE q)
           /\ Above(muldiv32(m, e, c), o).openmax <=> (r \/ o)
    <2>1. c # 0
      BY <1>1
    <2> QED BY <2>1, MuldivAt, Zenon
  <1>4. PICK r \in BOOLEAN :
           /\ q * c <= m * 8
           /\ Above(muldiv32(m, 8, c), o).max = (IF r THEN q + 1 ELSE q)
           /\ Above(muldiv32(m, 8, c), o).openmax <=> (r \/ o)
    BY <1>0, <1>3
  <1>5. v.max = Above(muldiv32(m, 8, c), o).max
    <2>1. b.min > 0
      BY <1>1
    <2> QED BY <1>1, <1>2, <2>1 DEF snd_interval_mulkdiv
  <1>6. v.openmax <=> (r \/ o)
    <2>1. b.min > 0
      BY <1>1
    <2>2. v.openmax <=> Above(muldiv32(a.max, 8, b.min), open).openmax
      BY <2>1, Zenon DEF snd_interval_mulkdiv
    <2> QED BY <1>1, <1>2, <1>4, <2>2
  <1> HIDE DEF v
  <1>7. Upper(v) \in Int /\ Upper(v) <= q
    BY <1>4, <1>5, <1>6 DEF Upper
  <1>8. q * f <= m
    <2>1. PICK w \in Nat : w = q * f
      OBVIOUS
    <2>2. q * c = w * 8
      BY <1>1, <2>1
    <2> QED BY <1>4, <2>1, <2>2
  <1>9. ASSUME NEW u \in Int, u <= Upper(v) PROVE u * f <= m
    <2>1. u <= q
      BY <1>7, <1>9
    <2>2. u * f <= q * f /\ u * f \in Int /\ q * f \in Int
      BY <2>1
    <2> QED BY <1>8, <2>2
  <1> QED BY <1>1, <1>9 DEF v

(* What holds of the bounds once the rules have run is kept up by the stamps. *)
LEMMA TurnRefined ==
  ASSUME Ordered, Refined, snd_pcm_hw_refine, ~Empty'
  PROVE  Refined'
  <1>1. PICK j \in 1 .. 17 : \E w \in Sizes : \E x :
           /\ j \in stamps /\ Ready /\ w = Rules[j].var /\ x = RunRule(Rules[j])
           /\ j = 16 => card.period_sizes # {}
           /\ k' = j /\ params' = [params EXCEPT ![w] = x.i]
           /\ x.i.empty => stamps' = {}
           /\ ~x.i.empty => stamps' = (stamps \ {j}) \cup (IF x.changed THEN Woken(j) ELSE {})
    BY Turn
  <1>2. PICK w, x :
           /\ w \in Sizes
           /\ Ready /\ w = Rules[j].var /\ x = RunRule(Rules[j])
           /\ params' = [params EXCEPT ![w] = x.i]
           /\ ~x.i.empty => stamps' = (stamps \ {j}) \cup (IF x.changed THEN Woken(j) ELSE {})
    BY <1>1
  <1> w \in Sizes
    BY <1>2
  <1>3. UNCHANGED <<card, req>>
    BY DEF snd_pcm_hw_refine
  <1>4. \A v \in Sizes : params'[v] = IF v = w THEN x.i ELSE params[v]
    BY <1>2 DEF Ordered
  <1>5. stamps' = (stamps \ {j}) \cup (IF x.changed THEN Woken(j) ELSE {})
    BY <1>2, <1>4 DEF Empty
  <1>6. \A v \in Sizes :
           /\ Good(params[v]) /\ ~params[v].empty /\ Good(params'[v])
           /\ params'[v].max <= params[v].max /\ Upper(params'[v]) <= Upper(params[v])
           /\ params[v].integer => params'[v].integer
    BY <1>2, TurnNarrows DEF Ready
  <1>7. \A v \in Sizes : params[v].max \in Int /\ params'[v].max \in Int
    BY <1>6 DEF Good, IntervalRec
  <1>8. PICK f \in Nat \ {0} : f = req.frame
    BY <1>2, HwParamsAssumption DEF Ready
  <1>9. card.period_bytes_max \in Int /\ card.periods_max \in Int /\ card \in Cards
    BY <1>2, CardLimits DEF Ready
  <1>10. ASSUME NEW v \in Sizes, w = v, j # 16
         PROVE  /\ CutterOf(Rules[j]).integer => params'[v].integer
                /\ params'[v].max <= CutterOf(Rules[j]).max
                /\ Upper(params'[v]) <= Upper(CutterOf(Rules[j]))
    <2>1. PICK c : c = CutterOf(Rules[j]) /\ c \in Cutter
      BY <1>2, <1>10, CutterType DEF Ready
    <2>2. PICK i : i = params[v] /\ Good(i)
      BY <1>6
    <2>3. x = snd_interval_refine(i, c)
      BY <1>2, <1>10, <2>1, <2>2, RunsByCutting
    <2>4. params'[v] = snd_interval_refine(i, c).i
      BY <1>4, <1>10, <2>3
    <2> QED BY <2>1, <2>2, <2>4, RefineBounds
  <1>11. 2 \notin stamps' => params'["PERIOD_SIZE"].integer
    <2>1. HAVE 2 \notin stamps'
    <2>2. CASE 2 \notin stamps
      BY <1>6, <2>2 DEF Refined, Sizes
    <2>3. CASE j = 2
      <3>1. w = "PERIOD_SIZE" /\ Rules[j].f = "constraint" /\ Rules[j].var = "PERIOD_SIZE"
        BY <1>2, <2>3, RuleTable, LimitParts
      <3>2. CutterOf(Rules[j]) = Constraint("PERIOD_SIZE")
        BY <3>1 DEF CutterOf
      <3>3. Constraint("PERIOD_SIZE").integer
        BY <1>9, Constraints DEF Sizes
      <3> QED BY <1>10, <2>3, <3>1, <3>2, <3>3
    <2> QED BY <1>5, <2>1, <2>2, <2>3
  <1>12. 3 \notin stamps' => params'["PERIOD_BYTES"].max <= card.period_bytes_max
    <2>1. HAVE 3 \notin stamps'
    <2>2. CASE 3 \notin stamps
      BY <1>6, <1>7, <1>9, <2>2 DEF Refined, Sizes
    <2>3. CASE j = 3
      <3>1. w = "PERIOD_BYTES" /\ Rules[j].f = "constraint" /\ Rules[j].var = "PERIOD_BYTES"
        BY <1>2, <2>3, RuleTable, LimitParts
      <3>2. CutterOf(Rules[j]) = Constraint("PERIOD_BYTES")
        BY <3>1 DEF CutterOf
      <3>3. Constraint("PERIOD_BYTES").max = card.period_bytes_max
        BY <1>9, Constraints DEF Sizes
      <3> QED BY <1>10, <2>3, <3>1, <3>2, <3>3
    <2> QED BY <1>5, <2>1, <2>2, <2>3
  <1>13. 4 \notin stamps' => params'["PERIODS"].max <= card.periods_max
    <2>1. HAVE 4 \notin stamps'
    <2>2. CASE 4 \notin stamps
      BY <1>6, <1>7, <1>9, <2>2 DEF Refined, Sizes
    <2>3. CASE j = 4
      <3>1. w = "PERIODS" /\ Rules[j].f = "constraint" /\ Rules[j].var = "PERIODS"
        BY <1>2, <2>3, RuleTable, LimitParts
      <3>2. CutterOf(Rules[j]) = Constraint("PERIODS")
        BY <3>1 DEF CutterOf
      <3>3. Constraint("PERIODS").max = card.periods_max
        BY <1>9, Constraints DEF Sizes
      <3> QED BY <1>10, <2>3, <3>1, <3>2, <3>3
    <2> QED BY <1>5, <2>1, <2>2, <2>3
  <1>14. 11 \notin stamps' =>
           Upper(params'["PERIOD_SIZE"]) * f <= params'["PERIOD_BYTES"].max
    <2>1. HAVE 11 \notin stamps'
    <2>2. PICK s, t, b, c : /\ s = params["PERIOD_SIZE"] /\ t = params'["PERIOD_SIZE"]
                            /\ b = params["PERIOD_BYTES"] /\ c = params'["PERIOD_BYTES"]
                            /\ Good(s) /\ Good(t) /\ Upper(t) <= Upper(s) /\ Good(b) /\ ~b.empty
      BY <1>6 DEF Sizes
    <2>3. Upper(t) \in Int /\ Upper(s) \in Int
      BY <2>2 DEF Good, IntervalRec, Upper
    <2>4. CASE j = 11
      <3>1. /\ w = "PERIOD_SIZE" /\ Rules[j].f = "mulkdiv" /\ Rules[j].a = "PERIOD_BYTES"
            /\ Rules[j].b = "FRAME_BITS"
        BY <1>2, <2>4, RuleTable, RuleParts
      <3>2. PICK g : g = params["FRAME_BITS"] /\ Good(g) /\ ~g.empty
        BY <1>6 DEF Sizes
      <3>3. CutterOf(Rules[j]) = snd_interval_mulkdiv(b, 8, g)
        BY <2>2, <3>1, <3>2 DEF CutterOf
      <3>4. g.min = 8 * f
        BY <1>8, <3>2 DEF Ordered
      <3>5. Upper(t) <= Upper(snd_interval_mulkdiv(b, 8, g))
        BY <1>10, <2>2, <2>4, <3>1, <3>3 DEF Sizes
      <3>6. Upper(t) * f <= b.max
        BY <2>2, <2>3, <3>2, <3>4, <3>5, PeriodFits
      <3>7. c = b
        BY <1>4, <2>2, <3>1 DEF Sizes
      <3> QED BY <2>2, <3>6, <3>7
    <2>5. CASE j # 11
      <3>1. 11 \notin stamps /\ (x.changed => 11 \notin Woken(j))
        BY <1>5, <2>1, <2>5
      <3>2. Upper(s) * f <= b.max
        BY <1>8, <2>2, <3>1 DEF Refined
      <3>3. c.max = b.max
        <4>1. CASE w = "PERIOD_BYTES"
          <5>1. 11 \in RulesOf(card) /\ Rules[11].a = "PERIOD_BYTES"
            BY RuleTable, RuleParts DEF RulesOf
          <5>2. 11 \in Woken(j)
            BY <1>2, <2>5, <4>1, <5>1 DEF Woken
          <5>3. ~x.changed
            BY <3>1, <5>2
          <5>4. x.i.max = params[w].max
            BY <1>2, <5>3, RunNarrows
          <5> QED BY <1>4, <2>2, <4>1, <5>4 DEF Sizes
        <4>2. CASE w # "PERIOD_BYTES"
          BY <1>4, <2>2, <4>2 DEF Sizes
        <4> QED BY <4>1, <4>2
      <3>4. Upper(t) * f <= Upper(s) * f
        BY <2>2, <2>3
      <3>5. b.max \in Int /\ Upper(t) * f \in Int /\ Upper(s) * f \in Int
        BY <2>2, <2>3, Bounds
      <3> QED BY <2>2, <3>2, <3>3, <3>4, <3>5
    <2> QED BY <2>4, <2>5
  <1> QED BY <1>3, <1>8, <1>11, <1>12, <1>13, <1>14 DEF Refined

(* The values asked for are numbers. *)
LEMMA AskedType ==
  ASSUME req \in Requests, size \in [frames : Nat, bytes : Nat, periods : Nat]
  PROVE  \A v \in Sizes : Asked(v) \in Nat
  <1>1. PICK f \in Nat : f = req.frame
    BY HwParamsAssumption
  <1>2. PICK a \in Nat, b \in Nat, c \in Nat : a = size.frames /\ b = size.bytes /\ c = size.periods
    OBVIOUS
  <1>3. 8 * f \in Nat /\ a * c \in Nat /\ b * c \in Nat
    OBVIOUS
  <1>4. /\ Asked("FRAME_BITS") = 8 * f /\ Asked("PERIOD_SIZE") = a
        /\ Asked("PERIOD_BYTES") = b /\ Asked("PERIODS") = c
        /\ Asked("BUFFER_SIZE") = a * c /\ Asked("BUFFER_BYTES") = b * c
    BY <1>1, <1>2 DEF Asked
  <1> QED BY <1>2, <1>3, <1>4 DEF Sizes

(* What is left of a single value is the value or nothing. *)
LEMMA FixedValue ==
  ASSUME NEW i, Good(i), ~i.empty, NEW x \in Nat, Fixed(i, x)
  PROVE  i.min = x /\ i.max = x
  BY Bounds DEF Fixed

(* A size that was set keeps its value or becomes empty. *)
LEMMA TurnFixed ==
  ASSUME Ordered, \A v \in Sizes : Fixed(params[v], Asked(v)), snd_pcm_hw_refine
  PROVE  \A v \in Sizes : Fixed(params'[v], Asked(v))
  <1>1. \A v \in Sizes : Asked(v) \in Nat
    BY AskedType DEF Ordered
  <1>2. TAKE v \in Sizes
  <1>3. PICK i, h : /\ i = params[v] /\ h = params'[v] /\ Good(i) /\ Good(h)
                    /\ i.min <= h.min /\ h.max <= i.max
                    /\ i.integer => h.integer
                    /\ (\A u \in Sizes : params[u].integer) => 0 <= h.max
    BY TurnNarrows DEF Ordered
  <1>4. h.integer /\ 0 <= h.max
    BY <1>3 DEF Fixed
  <1>5. i.min \in Int /\ i.max \in Int /\ h.min \in Int /\ h.max \in Int
    BY <1>3, HwParamsAssumption DEF Good, IntervalRec
  <1>6. i.max <= Asked(v) /\ Asked(v) <= i.min
    BY <1>3 DEF Fixed
  <1> QED BY <1>1, <1>3, <1>4, <1>5, <1>6 DEF Fixed

(* The bytes of a period that the equation leaves. *)
LEMMA BytesFit ==
  ASSUME NEW a, Good(a), ~a.empty, NEW b, Good(b), ~b.empty, NEW p \in Nat, NEW f \in Nat,
         a.min = p, a.max = p, b.min = 8 * f, b.max = 8 * f, a.integer, b.integer,
         NEW z \in Nat, z < UINT_MAX
  PROVE  LET v == snd_interval_muldivk(a, b, 8)
         IN  v.min <= z /\ z <= v.max => z = p * f
  <1> DEFINE v == snd_interval_muldivk(a, b, 8)
             open == a.openmax \/ b.openmax
  <1>0. PICK e \in Nat : e = 8
    OBVIOUS
  <1>1. PICK g \in Nat, m \in Nat : g = 8 * f /\ e = 8 /\ m = p
    BY <1>0
  <1>2. PICK o \in BOOLEAN : o = open
    BY Zenon
  <1>3. PICK q \in Nat : \E r \in BOOLEAN :
           /\ q = muldiv32(m, g, e).q /\ r = muldiv32(m, g, e).r
           /\ q * e <= m * g
           /\ r => q * e < m * g /\ m * g < (q + 1) * e
           /\ ~r => q = UINT_MAX \/ q * e = m * g
           /\ Above(muldiv32(m, g, e), o).max = (IF r THEN q + 1 ELSE q)
           /\ Above(muldiv32(m, g, e), o).openmax <=> (r \/ o)
    <2>1. e # 0
      BY <1>1
    <2> QED BY <2>1, MuldivAt, Zenon
  <1>4. PICK r \in BOOLEAN :
           /\ q = muldiv32(m, g, e).q
           /\ r => q * e < m * g /\ m * g < (q + 1) * e
           /\ ~r => q = UINT_MAX \/ q * e = m * g
           /\ Above(muldiv32(m, g, e), o).max = (IF r THEN q + 1 ELSE q)
    BY <1>3
  <1>5. v.min = muldiv32(m, g, e).q /\ v.max = Above(muldiv32(m, g, e), o).max
    BY <1>1, <1>2 DEF snd_interval_muldivk
  <1>6. PICK w \in Nat : w = p * f
    OBVIOUS
  <1>7. m * g = 8 * w
    BY <1>1, <1>6
  <1>8. ~r
    BY <1>1, <1>4, <1>7
  <1> HIDE DEF v
  <1>9. v.min = q /\ v.max = q /\ (q = UINT_MAX \/ q * 8 = 8 * w)
    BY <1>1, <1>4, <1>5, <1>7, <1>8
  <1>10. v.min <= z /\ z <= v.max => z = w
    BY <1>9, HwParamsAssumption
  <1> QED BY <1>6, <1>10 DEF v

(* What holds of the values once the rules have run is kept up by the stamps. *)
LEMMA TurnChecked ==
  ASSUME Ordered, Checked, SizesOK, \A v \in Sizes : Fixed(params[v], Asked(v)),
         snd_pcm_hw_refine, ~Empty'
  PROVE  Checked'
  <1>1. PICK j \in 1 .. 17 : \E w \in Sizes : \E x :
           /\ j \in stamps /\ Ready /\ w = Rules[j].var /\ x = RunRule(Rules[j])
           /\ j = 16 => card.period_sizes # {}
           /\ k' = j /\ params' = [params EXCEPT ![w] = x.i]
           /\ x.i.empty => stamps' = {}
           /\ ~x.i.empty => stamps' = (stamps \ {j}) \cup (IF x.changed THEN Woken(j) ELSE {})
    BY Turn
  <1>2. PICK w, x :
           /\ w \in Sizes
           /\ Ready /\ w = Rules[j].var /\ x = RunRule(Rules[j])
           /\ params' = [params EXCEPT ![w] = x.i]
           /\ ~x.i.empty => stamps' = (stamps \ {j}) \cup (IF x.changed THEN Woken(j) ELSE {})
    BY <1>1
  <1> w \in Sizes
    BY <1>2
  <1>3. UNCHANGED <<card, req, size>> /\ card \in Cards /\ req \in Requests
    BY <1>2 DEF snd_pcm_hw_refine, Ready
  <1>4. params'[w] = x.i /\ ~x.i.empty
    <2>1. params'[w] = x.i
      BY <1>2 DEF Ordered
    <2> QED BY <2>1 DEF Empty
  <1>5. \A n : n \notin stamps' => n \notin stamps \/ n = j
    BY <1>2, <1>4
  <1>6. \A v \in Sizes : Asked(v) \in Nat
    BY AskedType DEF Ordered
  <1>7. \A v \in Sizes : /\ Good(params[v]) /\ ~params[v].empty /\ params[v].integer
                         /\ params[v].min = Asked(v) /\ params[v].max = Asked(v)
    <2>1. TAKE v \in Sizes
    <2>2. PICK i : i = params[v] /\ Good(i) /\ ~i.empty /\ Fixed(i, Asked(v))
      BY <1>2 DEF Ready
    <2> QED BY <1>6, <2>2, FixedValue DEF Fixed
  <1>8. ASSUME j # 16
        PROVE  CutterOf(Rules[j]).min <= Asked(w) /\ Asked(w) <= CutterOf(Rules[j]).max
    <2>1. PICK c : c = CutterOf(Rules[j]) /\ c \in Cutter
      BY <1>2, <1>8, CutterType DEF Ready
    <2>2. PICK i : i = params[w] /\ Good(i) /\ i.min = Asked(w) /\ i.max = Asked(w)
      BY <1>7
    <2>3. x = snd_interval_refine(i, c)
      BY <1>2, <1>8, <2>1, <2>2, RunsByCutting
    <2>4. PICK r : r = x.i
      OBVIOUS
    <2>5. /\ r.min \in Int /\ r.max \in Int /\ c.min <= r.min /\ r.max <= c.max
          /\ i.min <= r.min /\ r.max <= i.max
      BY <2>1, <2>2, <2>3, <2>4, RefineBounds
    <2>6. Good(r) /\ ~r.empty
      BY <1>2, <1>4, <2>4, RunNarrows
    <2>7. r.min <= r.max
      BY <2>6, Bounds
    <2>8. c.min \in Int /\ c.max \in Int
      BY <2>1 DEF Cutter
    <2>9. Asked(w) \in Int
      BY <1>6
    <2> QED BY <2>1, <2>2, <2>5, <2>7, <2>8, <2>9
  <1>9. ASSUME NEW v \in Sizes, Rules[j] = Limit(v), j # 16
        PROVE  Constraint(v).min <= Asked(v) /\ Asked(v) <= Constraint(v).max
    <2>1. Rules[j].f = "constraint" /\ Rules[j].var = v
      BY <1>9, LimitParts
    <2>2. CutterOf(Rules[j]) = Constraint(v) /\ w = v
      BY <1>2, <2>1 DEF CutterOf
    <2> QED BY <1>8, <1>9, <2>2
  <1>10. PICK a \in Nat, b \in Nat, c \in Nat, f \in Nat \ {0} :
           a = size.frames /\ b = size.bytes /\ c = size.periods /\ f = req.frame
    BY <1>3, HwParamsAssumption DEF Ordered
  <1>11. /\ Asked("FRAME_BITS") = 8 * f /\ Asked("PERIOD_SIZE") = a
         /\ Asked("PERIOD_BYTES") = b /\ Asked("PERIODS") = c
         /\ Asked("BUFFER_SIZE") = a * c /\ Asked("BUFFER_BYTES") = b * c
    BY <1>10 DEF Asked
  <1>12. CASE j = 3
    <2>1. Rules[3] = Limit("PERIOD_BYTES")
      BY RuleTable
    <2>2. PICK h : h = Constraint("PERIOD_BYTES")
      OBVIOUS
    <2>3. h.min = card.period_bytes_min /\ h.max = card.period_bytes_max
      BY <1>3, <2>2, Constraints DEF Sizes
    <2>4. h.min <= b /\ b <= h.max
      BY <1>9, <1>11, <1>12, <2>1, <2>2 DEF Sizes
    <2>5. b \in card.period_bytes_min .. card.period_bytes_max
      <3>1. card.period_bytes_min \in Int /\ card.period_bytes_max \in Int
        BY <1>3, CardLimits
      <3> QED BY <2>3, <2>4, <3>1
    <2> QED BY <1>3, <1>5, <1>10, <1>12, <2>5 DEF Checked
  <1>13. CASE j = 4
    <2>1. Rules[4] = Limit("PERIODS")
      BY RuleTable
    <2>2. PICK h : h = Constraint("PERIODS")
      OBVIOUS
    <2>3. h.min = card.periods_min /\ h.max = card.periods_max
      BY <1>3, <2>2, Constraints DEF Sizes
    <2>4. h.min <= c /\ c <= h.max
      BY <1>9, <1>11, <1>13, <2>1, <2>2 DEF Sizes
    <2>5. c \in card.periods_min .. card.periods_max
      <3>1. card.periods_min \in Int /\ card.periods_max \in Int
        BY <1>3, CardLimits
      <3> QED BY <2>3, <2>4, <3>1
    <2> QED BY <1>3, <1>5, <1>10, <1>13, <2>5 DEF Checked
  <1>14. CASE j = 5
    <2>1. Rules[5] = Limit("BUFFER_SIZE")
      BY RuleTable
    <2>2. PICK h : h = Constraint("BUFFER_SIZE")
      OBVIOUS
    <2>3. h.max = card.buffer_size_max
      BY <1>3, <2>2, Constraints DEF Sizes
    <2>4. a * c <= h.max
      BY <1>9, <1>11, <1>14, <2>1, <2>2 DEF Sizes
    <2>5. size.frames * size.periods <= card.buffer_size_max
      BY <1>10, <2>3, <2>4
    <2> QED BY <1>3, <1>5, <1>14, <2>5 DEF Checked
  <1>15. CASE j = 6
    <2>1. Rules[6] = Limit("BUFFER_BYTES")
      BY RuleTable
    <2>2. PICK h : h = Constraint("BUFFER_BYTES")
      OBVIOUS
    <2>3. h.max = card.buffer_bytes_max
      BY <1>3, <2>2, Constraints DEF Sizes
    <2>4. b * c <= h.max
      BY <1>9, <1>11, <1>15, <2>1, <2>2 DEF Sizes
    <2>5. size.bytes * size.periods <= card.buffer_bytes_max
      BY <1>10, <2>3, <2>4
    <2> QED BY <1>3, <1>5, <1>15, <2>5 DEF Checked
  <1>16. CASE j = 14
    <2>1. /\ Rules[j].f = "muldivk" /\ Rules[j].var = "PERIOD_BYTES"
          /\ Rules[j].a = "PERIOD_SIZE" /\ Rules[j].b = "FRAME_BITS"
      BY <1>16, RuleTable, RuleParts
    <2>2. PICK s, t : /\ s = params["PERIOD_SIZE"] /\ t = params["FRAME_BITS"]
                      /\ Good(s) /\ ~s.empty /\ Good(t) /\ ~t.empty /\ s.integer /\ t.integer
                      /\ s.min = a /\ s.max = a /\ t.min = 8 * f /\ t.max = 8 * f
      BY <1>7, <1>11 DEF Sizes
    <2>3. CutterOf(Rules[j]) = snd_interval_muldivk(s, t, 8) /\ w = "PERIOD_BYTES"
      BY <1>2, <2>1, <2>2 DEF CutterOf
    <2>4. PICK v : v = snd_interval_muldivk(s, t, 8) /\ v.min <= b /\ b <= v.max
      BY <1>8, <1>11, <1>16, <2>3
    <2>5. b < UINT_MAX
      <3>1. b <= card.period_bytes_max
        BY <1>10 DEF SizesOK
      <3>2. /\ card.period_bytes_max \in Nat /\ card.period_bytes_max < UINT_MAX
            /\ UINT_MAX \in Nat
        BY <1>3, CardLimits
      <3> QED BY <3>1, <3>2
    <2>6. b = a * f
      BY <2>2, <2>4, <2>5, BytesFit
    <2>7. size.bytes = size.frames * req.frame
      BY <1>10, <2>6
    <2> QED BY <1>3, <1>5, <1>16, <2>7 DEF Checked
  <1>17. CASE j = 16
    <2>1. Rules[16].var = "PERIOD_SIZE"
      BY RuleTable, RuleParts
    <2>2. PICK list : list = card.period_sizes /\ list \subseteq 0 .. UINT_MAX
      BY <1>3, CardLimits
    <2>3. PICK i : i = params["PERIOD_SIZE"] /\ Good(i) /\ ~i.empty /\ i.min = a /\ i.max = a
      BY <1>7, <1>11 DEF Sizes
    <2>4. x = snd_interval_list(i, list)
      BY <1>2, <1>17, <2>2, <2>3, RunsByList
    <2>5. a \in list
      BY <1>4, <2>2, <2>3, <2>4, ListBounds
    <2> QED BY <1>3, <1>5, <1>10, <1>17, <2>2, <2>5 DEF Checked
  <1>18. CASE j = 17
    <2>1. Rules[j].f = "max" /\ Rules[j].var = "BUFFER_BYTES"
      BY <1>18, RuleTable, RuleParts
    <2>2. PICK yes \in BOOLEAN : yes = TRUE
      OBVIOUS
    <2>3. CutterOf(Rules[j]) = Interval(0, card.dma_max, yes) /\ w = "BUFFER_BYTES"
      BY <1>2, <2>1, <2>2 DEF CutterOf
    <2>4. CutterOf(Rules[j]).max = card.dma_max
      BY <2>3 DEF Interval
    <2>5. b * c <= card.dma_max
      BY <1>8, <1>11, <1>18, <2>3, <2>4
    <2>6. size.bytes * size.periods <= card.dma_max
      BY <1>10, <2>5
    <2> QED BY <1>3, <1>5, <1>18, <2>6 DEF Checked
  <1>19. CASE j \notin {3, 4, 5, 6, 14, 16, 17}
    BY <1>3, <1>5, <1>19 DEF Checked
  <1> QED BY <1>12, <1>13, <1>14, <1>15, <1>16, <1>17, <1>18, <1>19

(***************************************************************************)
(* The call.                                                               *)
(***************************************************************************)
(* The interval of all sizes. *)
LEMMA Anything ==
  /\ Good(snd_interval_any) /\ ~snd_interval_any.empty
  /\ snd_interval_any.min = 0 /\ snd_interval_any.max = UINT_MAX
  /\ ~snd_interval_any.openmin /\ ~snd_interval_any.openmax
  <1>1. snd_interval_any \in IntervalRec
    BY HwParamsAssumption DEF snd_interval_any, Interval, IntervalRec
  <1>2. ~snd_interval_checkempty(snd_interval_any)
    BY HwParamsAssumption DEF snd_interval_any, Interval, snd_interval_checkempty
  <1> QED BY <1>1, <1>2 DEF snd_interval_any, Interval, Good

(* The interval of a size that is set to a value. *)
LEMMA SetValue ==
  ASSUME NEW x \in 0 .. UINT_MAX
  PROVE  LET i == snd_interval_refine(snd_interval_any, Interval(x, x, TRUE)).i
         IN  /\ Good(i) /\ ~i.empty /\ i.integer /\ i.min = x /\ i.max = x
             /\ ~i.openmin /\ ~i.openmax
  <1>0. UINT_MAX \in Nat /\ x \in Nat
    BY HwParamsAssumption
  <1>1. PICK yes \in BOOLEAN, no \in BOOLEAN : yes = TRUE /\ no = FALSE
    OBVIOUS
  <1>2. PICK a : a = snd_interval_any /\ a \in IntervalRec
    BY Anything DEF Good
  <1>3. PICK v : v = Interval(x, x, yes)
    OBVIOUS
  <1>4. v \in Cutter /\ v.min = x /\ v.max = x /\ v.integer = yes /\ ~v.openmin /\ ~v.openmax
    BY <1>0, <1>3, IntervalCutter
  <1>5. a.min = 0 /\ a.max = UINT_MAX /\ ~a.openmin /\ ~a.openmax
    BY <1>2, Anything
  <1>6. PICK lo \in BOOLEAN, hi \in BOOLEAN : (lo <=> Lo(a, v)) /\ (hi <=> Hi(a, v))
    BY Zenon
  <1>7. no = (IF lo THEN v.openmin ELSE a.openmin) /\ no = (IF hi THEN v.openmax ELSE a.openmax)
    <2>1. v.openmin = FALSE /\ v.openmax = FALSE
      BY <1>3 DEF Interval
    <2>2. a.openmin = FALSE /\ a.openmax = FALSE
      BY <1>2 DEF snd_interval_any, Interval
    <2> QED BY <1>1, <2>1, <2>2
  <1>8. yes <=> (a.integer \/ v.integer)
    BY <1>1, <1>4
  <1>9. PICK i : i = snd_interval_refine(a, v).i
    OBVIOUS
  <1>10. /\ i \in AnyInterval
         /\ i.min = (IF lo THEN v.min ELSE a.min) + (IF yes /\ no THEN 1 ELSE 0)
         /\ i.max = (IF hi THEN v.max ELSE a.max) - (IF yes /\ no THEN 1 ELSE 0)
         /\ i.openmin = (~yes /\ no) /\ i.openmax = (~yes /\ no)
         /\ yes => i.integer
         /\ i.empty <=> snd_interval_checkempty(i)
    BY <1>2, <1>4, <1>6, <1>7, <1>8, <1>9, RefineFields
  <1>11. i.min = x /\ i.max = x
    <2>1. i.min = IF lo THEN x ELSE 0
      BY <1>0, <1>1, <1>4, <1>5, <1>10
    <2>2. i.max = IF hi THEN x ELSE UINT_MAX
      BY <1>0, <1>1, <1>4, <1>5, <1>10
    <2>3. (lo <=> 0 < x) /\ (hi <=> UINT_MAX > x)
      BY <1>0, <1>4, <1>5, <1>6 DEF Lo, Hi
    <2> QED BY <1>0, <2>1, <2>2, <2>3
  <1>12. ~i.openmin /\ ~i.openmax /\ i.integer
    BY <1>1, <1>10
  <1>13. ~i.empty
    BY <1>0, <1>10, <1>11, <1>12 DEF snd_interval_checkempty
  <1>14. i \in IntervalRec
    BY <1>0, <1>10, <1>11 DEF AnyInterval, IntervalRec
  <1>15. Good(i)
    <2>1. ~snd_interval_checkempty(i)
      BY <1>10, <1>13
    <2> QED BY <1>12, <1>14, <2>1 DEF Good
  <1>16. i = snd_interval_refine(snd_interval_any, Interval(x, x, TRUE)).i
    BY <1>1, <1>2, <1>3, <1>9
  <1> QED BY <1>11, <1>12, <1>13, <1>15, <1>16

(* The sizes a request starts with. *)
LEMMA Fresh ==
  ASSUME NEW set, \A v \in DOMAIN set : set[v] \in 0 .. UINT_MAX
  PROVE  LET P == AnyBut(set)
         IN  /\ P \in [Sizes -> IntervalRec]
             /\ \A v \in Sizes :
                  /\ Good(P[v]) /\ ~P[v].empty
                  /\ ~P[v].openmin /\ ~P[v].openmax
                  /\ v \in DOMAIN set =>
                       P[v].integer /\ P[v].min = set[v] /\ P[v].max = set[v]
                  /\ v \notin DOMAIN set => P[v].min = 0 /\ P[v].max = UINT_MAX
  <1> DEFINE P == AnyBut(set)
  <1>1. P = [v \in Sizes |-> P[v]]
    BY DEF AnyBut
  <1>2. \A v \in Sizes :
          /\ Good(P[v]) /\ ~P[v].empty
          /\ ~P[v].openmin /\ ~P[v].openmax
          /\ v \in DOMAIN set =>
               P[v].integer /\ P[v].min = set[v] /\ P[v].max = set[v]
          /\ v \notin DOMAIN set => P[v].min = 0 /\ P[v].max = UINT_MAX
    <2>1. TAKE v \in Sizes
    <2>2. CASE v \in DOMAIN set
      <3>1. PICK x \in 0 .. UINT_MAX : x = set[v]
        BY <2>2
      <3>2. P[v] = snd_interval_refine(snd_interval_any, Interval(x, x, TRUE)).i
        BY <2>2, <3>1 DEF AnyBut
      <3> HIDE DEF P
      <3> QED BY <2>2, <3>1, <3>2, SetValue
    <2>3. CASE v \notin DOMAIN set
      <3>1. P[v] = snd_interval_any
        BY <2>3 DEF AnyBut
      <3> HIDE DEF P
      <3> QED BY <2>3, <3>1, Anything
    <2> QED BY <2>2, <2>3
  <1>3. \A v \in Sizes : P[v] \in IntervalRec
    BY <1>2 DEF Good
  <1> HIDE DEF P
  <1>4. P \in [Sizes -> IntervalRec]
    BY <1>1, <1>3
  <1> QED BY <1>2, <1>4 DEF P

(* The rules that are due at the start; only the list may be missing. *)
LEMMA AllDue ==
  ASSUME NEW j \in 1 .. 17, j = 16 => card.period_sizes # {}
  PROVE  j \in RulesOf(card)
  <1>1. j \in DOMAIN Rules
    BY RuleTable
  <1>2. Rules[j].f = "list" => j = 16
    <2>1. j \in 1 .. 6 \/ j \in {7, 8, 11, 13} \/ j \in {9, 10} \/ j \in {14, 15} \/ j \in {12, 16, 17}
      OBVIOUS
    <2> QED BY <2>1, RuleShape
  <1> QED BY <1>1, <1>2 DEF RulesOf

(* The sizes of a configuration are unsigned ints below the largest. *)
LEMMA SmallSizes ==
  ASSUME NEW c \in Cards, NEW f \in Nat \ {0}, 8 * f < UINT_MAX,
         NEW p \in 1 .. c.period_bytes_max, NEW n \in c.periods_min .. c.periods_max,
         p * f \in c.period_bytes_min .. c.period_bytes_max,
         p * n * f <= Min({c.buffer_bytes_max, c.dma_max})
  PROVE  \A x \in {8 * f, p, p * f, n, p * n, p * n * f} : x \in Nat /\ x < UINT_MAX
  <1>3. /\ c.periods_min \in 1 .. UINT_MAX
        /\ c.period_bytes_max \in Nat /\ c.periods_max \in Nat /\ c.buffer_bytes_max \in Nat
        /\ c.dma_max \in Nat
        /\ c.period_bytes_max < UINT_MAX /\ c.buffer_bytes_max < UINT_MAX
        /\ UINT_MAX \in Nat
    BY CardLimits
  <1>4. p \in Nat \ {0} /\ n \in Nat \ {0}
    BY <1>3
  <1>5. PICK B \in Nat, S \in Nat, T \in Nat : B = p * f /\ S = p * n /\ T = S * f
    BY <1>4
  <1>8. B <= c.period_bytes_max /\ T <= c.buffer_bytes_max
    <2>1. B <= c.period_bytes_max
      BY <1>5
    <2>2. T <= Min({c.buffer_bytes_max, c.dma_max})
      BY <1>5
    <2> QED BY <1>3, <2>1, <2>2, MinOfTwo
  <1>9. p <= B /\ S <= T /\ n <= S
    <2>1. p * 1 <= p * f /\ S * 1 <= S * f /\ 1 * n <= p * n
      BY <1>4, ProductGrows
    <2> QED BY <1>4, <1>5, <2>1
  <1>10. p < UINT_MAX /\ B < UINT_MAX /\ n < UINT_MAX /\ S < UINT_MAX /\ T < UINT_MAX
    BY <1>3, <1>4, <1>8, <1>9
  <1> QED BY <1>4, <1>5, <1>10

(* What is installed is disturbed by nothing else. *)
LEMMA InstalledStays ==
  ASSUME InstalledFits, UNCHANGED <<card, runtime>>, pc' # "sw"
  PROVE  InstalledFits'
  BY DEF InstalledFits, Legal

(* The sizes a call starts with: all of them, but for the format. *)
LEMMA FormatSet ==
  ASSUME NEW r \in Requests
  PROVE  LET P == AnyBut(Format(r.frame))
         IN  /\ P \in [Sizes -> IntervalRec]
             /\ \A v \in Sizes : Good(P[v]) /\ ~P[v].empty
             /\ P["FRAME_BITS"].min = 8 * r.frame /\ P["FRAME_BITS"].max = 8 * r.frame
             /\ \A v \in Sizes, x \in Nat :
                  x < UINT_MAX /\ (v = "FRAME_BITS" => x = 8 * r.frame) => Has(P[v], x)
  <1>1. PICK f \in Nat, U \in Nat : f = r.frame /\ 8 * f < U /\ U = UINT_MAX
    BY HwParamsAssumption
  <1>2. PICK set : set = Format(r.frame)
    OBVIOUS
  <1>3. DOMAIN set = {"FRAME_BITS"} /\ set["FRAME_BITS"] = 8 * f
    BY <1>1, <1>2 DEF Format
  <1>4. \A v \in DOMAIN set : set[v] \in 0 .. UINT_MAX
    BY <1>1, <1>3
  <1>5. PICK P : P = AnyBut(set)
    OBVIOUS
  <1>6. /\ P \in [Sizes -> IntervalRec]
        /\ \A v \in Sizes :
             /\ Good(P[v]) /\ ~P[v].empty
             /\ ~P[v].openmin /\ ~P[v].openmax
             /\ v \in DOMAIN set =>
                  P[v].integer /\ P[v].min = set[v] /\ P[v].max = set[v]
             /\ v \notin DOMAIN set => P[v].min = 0 /\ P[v].max = UINT_MAX
    BY <1>4, <1>5, Fresh
  <1>7. "FRAME_BITS" \in Sizes
    BY DEF Sizes
  <1>8. P["FRAME_BITS"].min = 8 * f /\ P["FRAME_BITS"].max = 8 * f
    BY <1>3, <1>6, <1>7
  <1>9. ASSUME NEW v \in Sizes, NEW x \in Nat, x < UINT_MAX,
               v = "FRAME_BITS" => x = 8 * r.frame
        PROVE  Has(P[v], x)
    <2>1. PICK i : i = P[v] /\ ~i.empty /\ ~i.openmin /\ ~i.openmax
      BY <1>6
    <2>2. i.min \in Int /\ i.max \in Int /\ i.min <= x /\ x <= i.max
      <3>1. CASE v = "FRAME_BITS"
        BY <1>1, <1>8, <1>9, <2>1, <3>1
      <3>2. CASE v # "FRAME_BITS"
        BY <1>1, <1>3, <1>6, <1>9, <2>1, <3>2
      <3> QED BY <3>1, <3>2
    <2> QED BY <2>1, <2>2, HasClosed
  <1> QED BY <1>1, <1>2, <1>5, <1>6, <1>8, <1>9

(* A call starts. *)
LEMMA CallStarts ==
  ASSUME IInv, OSS32_WaveSetHwParams
  PROVE  IInv'
  <1>1. /\ pc' = "refine" /\ stamps' = RulesOf(card) /\ k' = 0 /\ fTryAgain' = FALSE
        /\ card' = card /\ runtime' = runtime
    BY DEF OSS32_WaveSetHwParams
  <1>2. PICK r \in Requests :
          /\ req' = r /\ params' = AnyBut(Format(r.frame))
          /\ size' = [frames |-> r.bytes \div r.frame, bytes |-> r.bytes, periods |-> 0]
    BY DEF OSS32_WaveSetHwParams
  <1>3. card \in Cards /\ InstalledFits
    BY DEF IInv, Ordered
  <1>4. /\ params' \in [Sizes -> IntervalRec]
        /\ \A v \in Sizes : Good(params'[v]) /\ ~params'[v].empty
        /\ params'["FRAME_BITS"].min = 8 * r.frame /\ params'["FRAME_BITS"].max = 8 * r.frame
        /\ \A v \in Sizes, x \in Nat :
             x < UINT_MAX /\ (v = "FRAME_BITS" => x = 8 * r.frame) => Has(params'[v], x)
    BY <1>2, FormatSet
  <1>5. size' \in [frames : Nat, bytes : Nat, periods : Nat]
    <2>1. PICK f \in Nat \ {0}, b \in Nat : f = r.frame /\ b = r.bytes
      BY HwParamsAssumption
    <2>2. b \div f \in Nat
      BY <2>1
    <2> QED BY <1>2, <2>1, <2>2
  <1>6. Ordered'
    <2>1. stamps' \subseteq RulesOf(card)' /\ k' \in 0 .. 17
      BY <1>1 DEF RulesOf
    <2> QED BY <1>1, <1>2, <1>3, <1>4, <1>5, <2>1 DEF Ordered, Phases
  <1>7. Kept'
    <2>1. card' \in Cards /\ req' \in Requests
      BY <1>1, <1>2, <1>3
    <2>2. ASSUME NEW p \in 1 .. card'.period_bytes_max, NEW n \in Periods', Wanted(p, n)',
                 NEW v \in Sizes
          PROVE  Has(params'[v], Value(v, p, n)')
      <3>1. Legal(req.frame, p, n)'
        BY <2>2 DEF Wanted
      <3>0. PICK c \in Cards, f \in Nat \ {0} : c = card' /\ f = r.frame /\ 8 * f < UINT_MAX
        BY <2>1, HwParamsAssumption
      <3>5. /\ n \in c.periods_min .. c.periods_max
            /\ p * f \in c.period_bytes_min .. c.period_bytes_max
            /\ p * n * f <= Min({c.buffer_bytes_max, c.dma_max})
        BY <1>2, <3>0, <3>1 DEF Legal
      <3>6. \A x \in {8 * f, p, p * f, n, p * n, p * n * f} : x \in Nat /\ x < UINT_MAX
        BY <2>2, <3>0, <3>5, SmallSizes
      <3>2. Value(v, p, n)' \in {8 * f, p, p * f, n, p * n, p * n * f}
        BY <1>2, <3>0 DEF Value, Sizes
      <3>3. v = "FRAME_BITS" => Value(v, p, n)' = 8 * r.frame
        BY <1>2 DEF Value
      <3>4. PICK x \in Nat : x = Value(v, p, n)' /\ x < UINT_MAX
        BY <3>2, <3>6
      <3> QED BY <1>4, <3>3, <3>4
    <2> QED BY <2>2 DEF Kept
  <1>8. InstalledFits'
    BY <1>1, <1>3, InstalledStays
  <1>10. (size.frames)' = (size.bytes)' \div (req.frame)'
    BY <1>2
  <1>9. Refined'
    <2>1. 2 \in stamps' /\ 3 \in stamps' /\ 4 \in stamps' /\ 11 \in stamps'
      BY <1>1, AllDue
    <2> QED BY <2>1 DEF Refined
  <1> QED BY <1>1, <1>6, <1>7, <1>8, <1>9, <1>10 DEF IInv

(* A rule runs. *)
LEMMA RuleRuns ==
  ASSUME IInv, snd_pcm_hw_refine
  PROVE  IInv'
  <1>1. /\ UNCHANGED <<card, req, pc, size, fTryAgain, runtime, ret>>
        /\ pc \in {"refine", "params"} /\ stamps # {}
    BY DEF snd_pcm_hw_refine
  <1>2. Ordered /\ Kept /\ InstalledFits
    BY DEF IInv
  <1>3. Ordered' /\ Kept'
    BY <1>2, TurnOrdered, TurnKept
  <1>4. InstalledFits'
    BY <1>1, <1>2, InstalledStays
  <1>5. ~Empty
    BY <1>1, <1>2 DEF Ordered, Empty
  <1>6. pc = "refine" /\ ~Empty' => Refined'
    BY <1>2, <1>5, TurnRefined DEF IInv
  <1>7. pc = "params" => SizesOK' /\ \A v \in Sizes : Fixed(params'[v], Asked(v)')
    <2>1. HAVE pc = "params"
    <2>2. SizesOK /\ \A v \in Sizes : Fixed(params[v], Asked(v))
      BY <2>1 DEF IInv
    <2>3. SizesOK'
      BY <1>1, <2>2 DEF SizesOK
    <2>4. \A v \in Sizes : Fixed(params'[v], Asked(v))
      BY <1>2, <2>2, TurnFixed
    <2>5. \A v : Asked(v)' = Asked(v)
      BY <1>1 DEF Asked
    <2> QED BY <2>3, <2>4, <2>5
  <1>8. pc = "params" /\ ~Empty' => Checked'
    BY <1>2, <1>5, TurnChecked DEF IInv
  <1>9. runtime' \in RuntimeType
    BY <1>1 DEF IInv
  <1>10. pc = "refine" => (size.frames)' = (size.bytes)' \div (req.frame)'
    BY <1>1 DEF IInv
  <1> QED BY <1>1, <1>3, <1>4, <1>6, <1>7, <1>8, <1>9, <1>10 DEF IInv

(* A call returns with its sizes as they are, and what is installed kept or *)
(* taken away.                                                              *)
LEMMA CallEnds ==
  ASSUME IInv, NEW r, Return(r), size' = size, runtime' \in RuntimeType, InstalledFits'
  PROVE  IInv'
  <1>1. pc' = "done" /\ UNCHANGED <<card, req, params, stamps, k, fTryAgain, size>>
    BY DEF Return
  <1>2. Ordered'
    BY <1>1 DEF IInv, Ordered, Phases, RulesOf
  <1>3. Kept'
    BY <1>1 DEF Kept
  <1> QED BY <1>1, <1>2, <1>3 DEF IInv

(* Nothing installed is as good as a fit. *)
LEMMA NothingInstalled ==
  ASSUME runtime' = NoRuntime, pc' = "done"
  PROVE  runtime' \in RuntimeType /\ InstalledFits'
  <1>1. InstalledFits'
    BY DEF InstalledFits, NoRuntime
  <1>2. NoRuntime \in RuntimeType
    BY DEF NoRuntime, RuntimeType
  <1> QED BY <1>1, <1>2

(* The calls that fail. *)
LEMMA CallFails ==
  ASSUME IInv, RefineFails \/ ParamsFail \/ DriverRefuses
  PROVE  IInv'
  <1>1. CASE RefineFails
    <2>1. Return("refused") /\ UNCHANGED <<size, runtime>>
      BY <1>1 DEF RefineFails
    <2>2. pc' = "done" /\ card' = card
      BY <2>1 DEF Return
    <2>3. InstalledFits' /\ runtime' \in RuntimeType
      BY <2>1, <2>2, InstalledStays DEF IInv
    <2> QED BY <2>1, <2>3, CallEnds
  <1>2. CASE ParamsFail
    <2>1. Return("refused") /\ size' = size /\ runtime' = NoRuntime
      BY <1>2 DEF ParamsFail
    <2>2. pc' = "done"
      BY <2>1 DEF Return
    <2> QED BY <2>1, <2>2, NothingInstalled, CallEnds
  <1>3. CASE DriverRefuses
    <2>1. Return("refused") /\ size' = size /\ runtime' = NoRuntime
      BY <1>3 DEF DriverRefuses
    <2>2. pc' = "done"
      BY <2>1 DEF Return
    <2> QED BY <2>1, <2>2, NothingInstalled, CallEnds
  <1> QED BY <1>1, <1>2, <1>3

(* The software parameters are accepted. *)
LEMMA SwParamsSet ==
  ASSUME IInv, snd_pcm_sw_params
  PROVE  IInv'
  <1>1. pc = "sw" /\ size' = size
    BY DEF snd_pcm_sw_params
  <1>2. SwAccepted /\ runtime.period_size = size.frames
    BY <1>1 DEF IInv, InstalledFits
  <1>3. Return("success") /\ runtime' = [runtime EXCEPT !.silence_size = Silence]
    BY <1>2 DEF snd_pcm_sw_params
  <1>4. pc' = "done" /\ card' = card
    BY <1>3 DEF Return
  <1>5. Silence \in Nat
    BY DEF IInv, Ordered, Silence
  <1>6. runtime \in RuntimeType
    BY DEF IInv
  <1>7. PICK s \in Nat : runtime' = [runtime EXCEPT !.silence_size = s]
    BY <1>3, <1>5
  <1>8. runtime' \in RuntimeType
    BY <1>6, <1>7 DEF RuntimeType
  <1>9. /\ runtime'.frame = runtime.frame /\ runtime'.period_size = runtime.period_size
        /\ runtime'.periods = runtime.periods /\ runtime'.buffer_size = runtime.buffer_size
        /\ runtime'.boundary = runtime.boundary
    BY <1>6, <1>7 DEF RuntimeType
  <1>10. runtime # NoRuntime
    BY <1>2 DEF SwAccepted, NoRuntime
  <1>11. InstalledFits'
    BY <1>4, <1>9, <1>10 DEF IInv, InstalledFits, Legal
  <1> QED BY <1>1, <1>3, <1>8, <1>11, CallEnds

(* The boundary is a multiple of the buffer of at least two laps, if three  *)
(* buffers fit into a long.                                                 *)
LEMMA TwoLaps ==
  ASSUME NEW n \in Nat \ {0}, 3 * n <= LONG_MAX
  PROVE  Boundary(n) \in Nat /\ Boundary(n) % n = 0 /\ Boundary(n) >= 2 * n
  <1>0. LONG_MAX \in Nat /\ 2 ^ 0 = 1 /\ 2 ^ 1 = 2 /\ \A e \in 0 .. 30 : 2 ^ e \in Nat
    BY HwParamsAssumption
  <1>1. PICK d \in Nat : d = LONG_MAX \div n /\ d >= 3 /\ d <= LONG_MAX
    <2>1. /\ LONG_MAX \div n \in Nat /\ LONG_MAX % n \in 0 .. n - 1
          /\ LONG_MAX = n * (LONG_MAX \div n) + (LONG_MAX % n)
      BY <1>0
    <2>2. PICK q \in Nat, r \in Nat : q = LONG_MAX \div n /\ r < n /\ LONG_MAX = n * q + r
      BY <2>1
    <2>3. q >= 3
      <3>1. SUFFICES ASSUME q <= 2 PROVE FALSE
        BY <2>2
      <3>2. n * q <= n * 2
        BY <3>1, ProductGrows
      <3>3. PICK w \in Nat : w = n * q
        OBVIOUS
      <3> QED BY <2>2, <3>2, <3>3
    <2>4. q <= LONG_MAX
      <3>1. 1 * q <= n * q
        BY ProductGrows
      <3>2. PICK w \in Nat : w = n * q
        OBVIOUS
      <3> QED BY <2>2, <3>1, <3>2
    <2> QED BY <2>2, <2>3, <2>4
  <1>2. PICK S : S = {m \in Powers : m = 1 \/ m < LONG_MAX \div n}
    OBVIOUS
  <1>3. Powers \subseteq Nat /\ 2 \in Powers
    BY <1>0 DEF Powers
  <1>4. S \in SUBSET Nat /\ 2 \in S
    <2>1. 2 < LONG_MAX \div n
      BY <1>1
    <2>2. S \subseteq Powers
      BY <1>2, Zenon
    <2>3. 2 \in S
      BY <1>2, <1>3, <2>1, Zenon
    <2> QED BY <1>3, <2>2, <2>3
  <1>5. \A m \in S : m <= LONG_MAX
    BY <1>0, <1>1, <1>2, <1>4
  <1>6. PICK M \in Nat : M = Max(S) /\ 2 <= M
    BY <1>0, <1>4, <1>5, GreatestOf
  <1>7. Boundary(n) = n * M
    BY <1>2, <1>6 DEF Boundary
  <1>8. n * 2 <= n * M
    BY <1>6, ProductGrows
  <1>9. (n * M) % n = 0
    <2>1. PICK w \in Nat : w = n * M
      OBVIOUS
    <2>2. w \div n \in Nat /\ w % n \in 0 .. n - 1 /\ w = n * (w \div n) + (w % n)
      OBVIOUS
    <2>3. PICK q \in Nat, r \in Nat : q = w \div n /\ r = w % n /\ r < n /\ w = n * q + r
      BY <2>2
    <2>4. r = n * (M - q)
      BY <2>1, <2>3
    <2>5. CASE M - q <= 0
      <3>1. n * (M - q) <= 0
        BY <2>5
      <3> QED BY <2>1, <2>3, <2>4, <3>1
    <2>6. CASE M - q >= 1
      <3>1. n * 1 <= n * (M - q)
        BY <2>6, ProductGrows
      <3> QED BY <2>3, <2>4, <3>1
    <2> QED BY <2>5, <2>6
  <1> QED BY <1>6, <1>7, <1>8, <1>9

(* An even number is two or more unless it is zero. *)
LEMMA EvenTwo ==
  ASSUME NEW c \in Nat \ {0}, c % 2 = 0
  PROVE  c >= 2
  OBVIOUS

(* The sizes are installed. *)
LEMMA ParamsInstalled ==
  ASSUME IInv, snd_pcm_hw_params
  PROVE  IInv'
  <1>1. /\ pc = "params" /\ stamps = {} /\ ~Empty /\ pc' = "sw"
        /\ UNCHANGED <<card, req, params, stamps, k, size, fTryAgain, ret>>
    BY DEF snd_pcm_hw_params
  <1>2. Ordered /\ Checked /\ SizesOK /\ \A v \in Sizes : Fixed(params[v], Asked(v))
    BY <1>1 DEF IInv
  <1>3. \A v \in Sizes : params[v].min = Asked(v)
    <2>1. \A v \in Sizes : Asked(v) \in Nat
      BY <1>2, AskedType DEF Ordered
    <2>2. TAKE v \in Sizes
    <2>3. PICK i : i = params[v] /\ Good(i) /\ ~i.empty /\ Fixed(i, Asked(v))
      BY <1>1, <1>2 DEF Empty, Ordered
    <2> QED BY <2>1, <2>3, FixedValue
  <1>4. PICK c \in Cards : c = card
    BY <1>2 DEF Ordered
  <1>5. PICK f \in Nat \ {0} : f = req.frame
    BY <1>2, HwParamsAssumption DEF Ordered
  <1>6. PICK a \in Nat, b \in Nat, n \in Nat :
           a = size.frames /\ b = size.bytes /\ n = size.periods
    BY <1>2 DEF Ordered
  <1>7. /\ params["PERIOD_SIZE"].min = a /\ params["PERIODS"].min = n
        /\ params["BUFFER_SIZE"].min = a * n
    BY <1>3, <1>6 DEF Asked, Sizes
  <1>8. /\ c.period_bytes_min \in 1 .. UINT_MAX /\ c.periods_min \in 1 .. UINT_MAX
        /\ c.buffer_bytes_max \in Nat /\ c.dma_max \in Nat /\ 3 * c.buffer_bytes_max <= LONG_MAX
        /\ LONG_MAX \in Nat /\ c.period_bytes_max \in Nat /\ c.periods_max \in Nat
    BY CardLimits
  <1>9. /\ b \in c.period_bytes_min .. c.period_bytes_max
        /\ n \in c.periods_min .. c.periods_max /\ a * n <= c.buffer_size_max
        /\ b * n <= c.buffer_bytes_max /\ b = a * f
        /\ c.period_sizes # {} => a \in c.period_sizes
        /\ b * n <= c.dma_max
    BY <1>1, <1>2, <1>4, <1>5, <1>6 DEF Checked
  <1>10. n % 2 = 0
    BY <1>2, <1>6 DEF SizesOK
  <1>11. PICK S \in Nat, T \in Nat : S = a * n /\ T = S * f /\ T = b * n
    BY <1>9
  <1>12. n \in Nat \ {0} /\ n >= 2
    BY <1>8, <1>9, <1>10, EvenTwo
  <1>13. a # 0
    BY <1>8, <1>9
  <1>14. T <= Min({c.buffer_bytes_max, c.dma_max})
    BY <1>8, <1>9, <1>11, MinOfTwo
  <1>15. 2 * a <= S /\ S <= T
    <2>1. a * 2 <= a * n /\ S * 1 <= S * f
      BY <1>12, ProductGrows
    <2> QED BY <1>11, <2>1
  <1>16. S \in Nat \ {0} /\ 3 * S <= LONG_MAX
    BY <1>8, <1>9, <1>11, <1>13, <1>15
  <1>17. PICK B \in Nat : B = Boundary(S) /\ B % S = 0 /\ B >= 2 * S
    BY <1>16, TwoLaps
  <1>18. runtime' = [frame |-> f, period_size |-> a, periods |-> n, buffer_size |-> S,
                     boundary |-> B, silence_size |-> 0]
    BY <1>5, <1>7, <1>11, <1>17 DEF snd_pcm_hw_params
  <1>19. runtime' \in RuntimeType
    BY <1>18 DEF RuntimeType
  <1>20. /\ runtime'.frame = f /\ runtime'.period_size = a /\ runtime'.periods = n
         /\ runtime'.buffer_size = S /\ runtime'.boundary = B
    BY <1>18
  <1>21. Legal(f, a, n)
    BY <1>4, <1>9, <1>11, <1>14 DEF Legal
  <1>22. Legal(f, a, n)'
    BY <1>1, <1>21 DEF Legal
  <1>23. SwAccepted'
    <2>1. (size.frames)' = a /\ (size.periods)' = n
      BY <1>1, <1>6
    <2>2. Silence' = IF n <= 2 THEN a \div 2 ELSE a
      BY <2>1 DEF Silence
    <2>3. Silence' + Silence' <= S
      BY <1>11, <1>15, <2>2
    <2> QED BY <1>13, <1>20, <2>1, <2>3 DEF SwAccepted
  <1>24. InstalledFits'
    BY <1>1, <1>6, <1>10, <1>11, <1>17, <1>20, <1>22, <1>23 DEF InstalledFits
  <1>25. Ordered'
    BY <1>1, <1>2 DEF Ordered, Phases, RulesOf
  <1>26. Kept'
    BY <1>1 DEF Kept
  <1> QED BY <1>1, <1>19, <1>24, <1>25, <1>26 DEF IInv

(* The sizes asked for are unsigned ints. *)
LEMMA AskedSmall ==
  ASSUME NEW c \in Cards, NEW f \in Nat \ {0}, 8 * f < UINT_MAX,
         NEW a \in Nat, NEW b \in Nat, NEW n \in Nat,
         a * f <= b, b <= c.period_bytes_max, n <= c.periods_max, n <= UINT_MAX
  PROVE  \A x \in {8 * f, a, b, n, a * n, b * n} : x \in 0 .. UINT_MAX
  <1>1. PICK B \in Nat, M \in Nat, U \in Nat :
          /\ B = c.period_bytes_max /\ M = c.periods_max /\ U = UINT_MAX
          /\ B < U /\ B * M <= U
    BY CardLimits
  <1>2. a <= b
    <2>1. a * 1 <= a * f
      BY ProductGrows
    <2>2. PICK w \in Nat : w = a * f
      OBVIOUS
    <2> QED BY <2>1, <2>2
  <1>3. b * n <= U
    <2>1. b * n <= B * M
      BY <1>1, ProductGrows
    <2>2. PICK w \in Nat, x \in Nat : w = b * n /\ x = B * M
      BY <1>1
    <2> QED BY <1>1, <2>1, <2>2
  <1>4. a * n <= b * n
    BY <1>2, ProductGrows
  <1>5. PICK w \in Nat, x \in Nat : w = b * n /\ x = a * n
    OBVIOUS
  <1> QED BY <1>1, <1>2, <1>3, <1>4, <1>5

(* The sizes HW_PARAMS is called with are as asked for, and if they are a   *)
(* configuration of the card then the bytes of a period are its frames.     *)
LEMMA Requested ==
  ASSUME IInv, NEW a \in Nat, NEW b \in Nat, NEW n \in Nat,
         SetParams([frames |-> a, bytes |-> b, periods |-> n]), fTryAgain' \in BOOLEAN,
         a * req.frame <= b, b <= card.period_bytes_max,
         n <= card.periods_max, n <= UINT_MAX, n % 2 = 0,
         a \in 1 .. card.period_bytes_max /\ n \in Periods /\ Legal(req.frame, a, n)
           => b = a * req.frame
  PROVE  IInv'
  <1>1. /\ size' = [frames |-> a, bytes |-> b, periods |-> n] /\ pc' = "params"
        /\ stamps' = RulesOf(card) /\ k' = 0 /\ UNCHANGED <<card, req, runtime, ret>>
    BY DEF SetParams
  <1>2. (size.frames)' = a /\ (size.bytes)' = b /\ (size.periods)' = n
    BY <1>1
  <1>3. PICK c \in Cards, f \in Nat \ {0} : c = card /\ f = req.frame /\ 8 * f < UINT_MAX
    BY HwParamsAssumption DEF IInv, Ordered
  <1>4. PICK set : set = [FRAME_BITS |-> 8 * f, PERIOD_SIZE |-> a, PERIOD_BYTES |-> b,
                          PERIODS |-> n, BUFFER_SIZE |-> a * n, BUFFER_BYTES |-> b * n]
    OBVIOUS
  <1>5. /\ DOMAIN set = Sizes
        /\ set["FRAME_BITS"] = 8 * f /\ set["PERIOD_SIZE"] = a /\ set["PERIOD_BYTES"] = b
        /\ set["PERIODS"] = n /\ set["BUFFER_SIZE"] = a * n /\ set["BUFFER_BYTES"] = b * n
    BY <1>4 DEF Sizes
  <1>6. params' = AnyBut(set)
    BY <1>3, <1>4 DEF SetParams
  <1>7. \A v \in Sizes : set[v] \in 0 .. UINT_MAX
    <2>1. \A x \in {8 * f, a, b, n, a * n, b * n} : x \in 0 .. UINT_MAX
      BY <1>3, AskedSmall
    <2> QED BY <1>5, <2>1 DEF Sizes
  <1>8. /\ params' \in [Sizes -> IntervalRec]
        /\ \A v \in Sizes :
             /\ Good(params'[v]) /\ ~params'[v].empty
             /\ ~params'[v].openmin /\ ~params'[v].openmax
             /\ params'[v].integer /\ params'[v].min = set[v] /\ params'[v].max = set[v]
    BY <1>5, <1>6, <1>7, Fresh
  <1>9. Ordered'
    <2>1. stamps' \subseteq RulesOf(card)' /\ k' \in 0 .. 17
      BY <1>1 DEF RulesOf
    <2>2. card' \in Cards /\ req' \in Requests
      BY <1>1 DEF IInv, Ordered
    <2>3. params'["FRAME_BITS"].min = 8 * req'.frame /\ params'["FRAME_BITS"].max = 8 * req'.frame
      BY <1>1, <1>3, <1>5, <1>8 DEF Sizes
    <2>4. size' \in [frames : Nat, bytes : Nat, periods : Nat]
      BY <1>1
    <2> QED BY <1>1, <1>8, <2>1, <2>2, <2>3, <2>4 DEF Ordered, Phases
  <1>10. Kept'
    <2>1. ASSUME NEW p \in 1 .. card'.period_bytes_max, NEW m \in Periods', Wanted(p, m)',
                 NEW v \in Sizes
          PROVE  Has(params'[v], Value(v, p, m)')
      <3>1. p = a /\ m = n /\ Legal(req.frame, p, m)'
        BY <1>1, <1>2, <2>1 DEF Wanted
      <3>2. Legal(req.frame, a, n) /\ a \in 1 .. card.period_bytes_max /\ n \in Periods
        BY <1>1, <2>1, <3>1 DEF Legal, Periods
      <3>3. b = a * f
        BY <1>3, <3>2
      <3>4. a * n * f = b * n
        BY <3>3
      <3>5. Value(v, p, m)' = set[v]
        BY <1>1, <1>3, <1>5, <3>1, <3>3, <3>4 DEF Value, Sizes
      <3>9. PICK i : i = params'[v]
        OBVIOUS
      <3>6. PICK x \in Nat : x = set[v] /\ i = params'[v]
        BY <1>7, <3>9, HwParamsAssumption
      <3>7. ~i.empty /\ ~i.openmin /\ ~i.openmax /\ i.min = x /\ i.max = x
        BY <1>8, <3>6
      <3>8. Has(i, x)
        BY <3>7, HasClosed
      <3> QED BY <3>5, <3>6, <3>8
    <2> QED BY <2>1 DEF Kept
  <1>11. InstalledFits'
    BY <1>1, InstalledStays DEF IInv
  <1>12. SizesOK'
    BY <1>1, <1>2 DEF SizesOK
  <1>13. \A v \in Sizes : Fixed(params'[v], Asked(v)')
    <2>1. TAKE v \in Sizes
    <2>2. Asked(v)' = set[v]
      BY <1>1, <1>2, <1>3, <1>5 DEF Asked, Sizes
    <2>5. PICK i : i = params'[v] /\ i.integer /\ i.min = set[v] /\ i.max = set[v]
      BY <1>8
    <2>3. PICK x \in Nat : x = set[v] /\ i = params'[v] /\ i.integer /\ i.min = x /\ i.max = x
      BY <1>7, <2>5, HwParamsAssumption
    <2>4. Fixed(i, x)
      BY <2>3 DEF Fixed
    <2> QED BY <2>2, <2>3, <2>4
  <1>14. Checked'
    <2>1. /\ 3 \in stamps' /\ 4 \in stamps' /\ 5 \in stamps' /\ 6 \in stamps'
          /\ 14 \in stamps' /\ 17 \in stamps' /\ (card'.period_sizes # {} => 16 \in stamps')
      BY <1>1, AllDue
    <2> QED BY <2>1 DEF Checked
  <1>15. runtime' \in RuntimeType
    BY <1>1 DEF IInv
  <1> QED BY <1>1, <1>9, <1>10, <1>11, <1>12, <1>13, <1>14, <1>15 DEF IInv

(* The period in bytes, y, is cut to whole frames, q of them. If that is a  *)
(* period the card allows then nothing was cut off.                         *)
LEMMA WholeFrames ==
  ASSUME NEW f \in Nat \ {0}, NEW l \in Nat, NEW u \in Nat, NEW L \in Nat, NEW H \in Nat,
         u * f <= H, NEW x \in Nat, NEW y \in Nat, x <= u, y <= x * f, NEW q \in Nat,
         q = y \div f, y = L \/ y = H \/ x = l \/ x <= q
  PROVE  q <= x /\ q * f <= y /\ (l <= q /\ L <= q * f => y = q * f)
  <1>1. PICK r \in Nat : r < f /\ q * f + r = y
    BY Quotient
  <1>2. PICK Q \in Nat, V \in Nat, W \in Nat : Q = q * f /\ V = x * f /\ W = u * f
    OBVIOUS
  <1>3. Q <= y /\ Q <= V /\ y <= V
    BY <1>1, <1>2
  <1>4. q <= x
    BY <1>2, <1>3, FactorDropped
  <1>5. ASSUME l <= q, L <= Q PROVE y = Q
    <2>1. CASE y = L
      BY <1>3, <1>5, <2>1
    <2>2. CASE y = H
      <3>1. V <= W
        BY <1>2, ProductGrows
      <3>2. V = y
        BY <1>2, <1>3, <2>2, <3>1
      <3>3. y <= Q
        <4>1. SUFFICES ASSUME q < x PROVE FALSE
          BY <1>2, <1>3, <1>4, <3>2
        <4>2. (q + 1) * f <= x * f
          BY <4>1, ProductGrows
        <4>3. (q + 1) * f = Q + f
          BY <1>2
        <4> QED BY <1>1, <1>2, <3>2, <4>2, <4>3
      <3> QED BY <1>3, <3>3
    <2>3. CASE x = l \/ x <= q
      <3>1. x = q
        BY <1>4, <1>5, <2>3
      <3> QED BY <1>2, <1>3, <3>1
    <2> QED BY <2>1, <2>2, <2>3
  <1> QED BY <1>2, <1>3, <1>4, <1>5

(* A number clamped to an interval. *)
LEMMA Clamped ==
  ASSUME NEW x \in Nat, NEW i, i.min \in Nat, i.max \in Nat, i.min <= i.max
  PROVE  Clamp(x, i) \in Nat /\ i.min <= Clamp(x, i) /\ Clamp(x, i) <= i.max
  BY DEF Clamp

(* Made even, a number does not grow. *)
LEMMA MadeEven ==
  ASSUME NEW n \in Nat
  PROVE  Even(n) \in Nat /\ Even(n) <= n /\ Even(n) % 2 = 0
  <1>1. PICK h \in Nat : h = n \div 2 /\ 2 * h <= n
    OBVIOUS
  <1>2. (2 * h) % 2 = 0
    OBVIOUS
  <1> QED BY <1>1, <1>2 DEF Even

(* The sizes are chosen from the bounds the rules have left. *)
LEMMA SizesChosen ==
  ASSUME IInv, ChooseSizes
  PROVE  IInv'
  <1>1. pc = "refine" /\ stamps = {} /\ ~Empty
    BY DEF ChooseSizes
  <1>2. Ordered /\ Refined /\ Kept /\ size.frames = size.bytes \div req.frame
    BY <1>1 DEF IInv
  <1>3. PICK c \in Cards, f \in Nat \ {0}, X \in Nat, Y \in Nat :
          c = card /\ f = req.frame /\ X = size.frames /\ Y = size.bytes
    BY <1>2, HwParamsAssumption DEF Ordered
  <1>4. PICK PS, PB, N, BB : /\ PS = params["PERIOD_SIZE"] /\ PB = params["PERIOD_BYTES"]
                             /\ N = params["PERIODS"] /\ BB = params["BUFFER_BYTES"]
    OBVIOUS
  <1>5. /\ Good(PS) /\ ~PS.empty /\ Good(PB) /\ ~PB.empty /\ Good(N) /\ ~N.empty
        /\ Good(BB) /\ ~BB.empty
    BY <1>1, <1>2, <1>4 DEF Ordered, Empty, Sizes
  <1>6. /\ PS.min \in Nat /\ PS.max \in Nat /\ PS.min <= PS.max
        /\ PB.min \in Nat /\ PB.max \in Nat /\ PB.min <= PB.max
        /\ N.min \in Nat /\ N.max \in Nat /\ N.min <= N.max /\ N.max <= UINT_MAX
        /\ BB.max \in Nat /\ UINT_MAX \in Nat
    BY <1>5, Bounds
  <1>7. /\ PB.max <= c.period_bytes_max /\ N.max <= c.periods_max /\ PS.max * f <= PB.max
    <2>1. PS.integer /\ Upper(PS) * f <= PB.max
      BY <1>1, <1>2, <1>3, <1>4 DEF Refined
    <2>2. Upper(PS) = PS.max
      BY <1>5, <2>1 DEF Good, Upper
    <2> QED BY <1>1, <1>2, <1>3, <1>4, <2>1, <2>2 DEF Refined
  <1>8. PICK x \in Nat, y \in Nat : /\ x = Clamp(X, PS) /\ y = Clamp(Y, PB)
                                    /\ x <= PS.max /\ y <= PB.max
    BY <1>6, Clamped
  <1>9. PICK q \in Nat : q = y \div f
    OBVIOUS
  <1>10. ClampPeriod = IF x * f < y THEN [frames |-> x, bytes |-> x * f]
                       ELSE [frames |-> Min({x, q}), bytes |-> y]
    BY <1>3, <1>4, <1>8, <1>9 DEF ClampPeriod, samples_to_bytes, bytes_to_samples
  <1>11. PICK a \in Nat, b \in Nat :
           /\ a = ClampPeriod.frames /\ b = ClampPeriod.bytes
           /\ a * f <= b /\ b <= PB.max
           /\ PS.min <= a /\ PB.min <= a * f => b = a * f
    <2>1. CASE x * f < y
      <3>1. PICK w \in Nat : w = x * f
        OBVIOUS
      <3>2. ClampPeriod.frames = x /\ ClampPeriod.bytes = w
        BY <1>10, <2>1, <3>1
      <3>3. w <= w /\ w <= PB.max
        BY <1>6, <1>8, <2>1, <3>1
      <3> QED BY <3>1, <3>2, <3>3
    <2>2. CASE ~(x * f < y)
      <3>1. /\ x = (IF X < PS.min THEN PS.min ELSE IF X > PS.max THEN PS.max ELSE X)
            /\ y = (IF Y < PB.min THEN PB.min ELSE IF Y > PB.max THEN PB.max ELSE Y)
        BY <1>8 DEF Clamp
      <3>2. X = Y \div f
        BY <1>2, <1>3
      <3>3. q <= x /\ q * f <= y /\ (PS.min <= q /\ PB.min <= q * f => y = q * f)
        <4>1. PICK l \in Nat, u \in Nat, L \in Nat, H \in Nat :
                l = PS.min /\ u = PS.max /\ L = PB.min /\ H = PB.max
          BY <1>6
        <4>2. l <= u /\ L <= H /\ u * f <= H
          BY <1>6, <1>7, <4>1
        <4>3. /\ x = (IF X < l THEN l ELSE IF X > u THEN u ELSE X)
              /\ y = (IF Y < L THEN L ELSE IF Y > H THEN H ELSE Y)
          BY <3>1, <4>1
        <4>4. q <= x /\ q * f <= y /\ (l <= q /\ L <= q * f => y = q * f)
          <5>1. y = L \/ y = H \/ x = l \/ x <= q
            BY <1>9, <3>2, <4>3
          <5>2. x <= u /\ y <= x * f
            BY <2>2, <4>2, <4>3
          <5> QED BY <1>9, <4>2, <5>1, <5>2, WholeFrames
        <4> QED BY <4>1, <4>4
      <3>4. Min({x, q}) = q
        BY <3>3, MinOfTwo
      <3>5. ClampPeriod.frames = q /\ ClampPeriod.bytes = y
        BY <1>10, <2>2, <3>4
      <3> QED BY <1>8, <3>3, <3>5
    <2> QED BY <2>1, <2>2
  <1>12. CASE a = 0 \/ ClampPeriods(b) = 1
    <2>1. Return("invalid") /\ UNCHANGED <<size, runtime>>
      BY <1>11, <1>12 DEF ChooseSizes
    <2>2. pc' = "done" /\ card' = card
      BY <2>1 DEF Return
    <2>3. InstalledFits' /\ runtime' \in RuntimeType
      BY <2>1, <2>2, InstalledStays DEF IInv
    <2> QED BY <2>1, <2>3, CallEnds
  <1>13. CASE ~(a = 0 \/ ClampPeriods(b) = 1)
    <2>1. /\ SetParams([frames |-> a, bytes |-> b, periods |-> Even(ClampPeriods(b))])
          /\ fTryAgain' = fTryAgain
      BY <1>11, <1>13 DEF ChooseSizes
    <2>2. b # 0
      <3>1. a * 1 <= a * f
        BY ProductGrows
      <3>2. PICK w \in Nat : w = a * f
        OBVIOUS
      <3> QED BY <1>11, <1>13, <3>1, <3>2
    <2>3. PICK d \in Nat : d = BB.max \div b
      BY <1>6, <2>2, Quotient
    <2>4. PICK m \in Nat : m = ClampPeriods(b) /\ m <= N.max
      BY <1>4, <1>6, <2>3, Clamped DEF ClampPeriods
    <2>5. PICK n \in Nat : n = Even(m) /\ n <= m /\ n % 2 = 0
      BY MadeEven
    <2>6. SetParams([frames |-> a, bytes |-> b, periods |-> n])
      BY <2>1, <2>4, <2>5
    <2>7. c.period_bytes_max \in Nat /\ c.periods_max \in Nat
      BY CardLimits
    <2>8. n <= card.periods_max /\ n <= UINT_MAX /\ b <= card.period_bytes_max
      BY <1>3, <1>6, <1>7, <1>11, <2>4, <2>5, <2>7
    <2>9. ASSUME a \in 1 .. card.period_bytes_max, n \in Periods, Legal(req.frame, a, n)
          PROVE  b = a * req.frame
      <3>1. Wanted(a, n)
        BY <1>1, <2>9 DEF Wanted
      <3>2. \A v \in Sizes : Has(params[v], Value(v, a, n))
        BY <1>1, <1>2, <2>9, <3>1 DEF Kept
      <3>3. Has(PS, a) /\ Has(PB, a * f)
        BY <1>3, <1>4, <3>2 DEF Sizes, Value
      <3>4. PICK w \in Nat : w = a * f
        OBVIOUS
      <3>5. PS.min <= a /\ PB.min <= w
        BY <1>6, <3>3, <3>4 DEF Has
      <3> QED BY <1>3, <1>11, <3>4, <3>5
    <2>10. fTryAgain' \in BOOLEAN
      BY <1>2, <2>1 DEF Ordered
    <2>11. a * req.frame <= b
      BY <1>3, <1>11
    <2> QED BY <2>5, <2>6, <2>8, <2>9, <2>10, <2>11, Requested
  <1> QED BY <1>12, <1>13

(* The second attempt. *)
LEMMA TriedAgain ==
  ASSUME IInv, TryAgain
  PROVE  IInv'
  <1>1. pc = "params" /\ fTryAgain' = TRUE
    BY DEF TryAgain
  <1>2. Ordered /\ SizesOK /\ \A v \in Sizes : Fixed(params[v], Asked(v))
    BY <1>1 DEF IInv
  <1>3. PICK c \in Cards, f \in Nat \ {0}, X \in Nat, Y \in Nat, n \in Nat :
          /\ c = card /\ f = req.frame /\ X = size.frames /\ Y = size.bytes /\ n = size.periods
          /\ size = [frames |-> X, bytes |-> Y, periods |-> n]
    BY <1>2, HwParamsAssumption DEF Ordered
  <1>4. PICK a \in Nat : a = params["PERIOD_SIZE"].max /\ a <= X
    <2>1. PICK i : i = params["PERIOD_SIZE"] /\ i \in IntervalRec /\ 0 <= i.max /\ i.max <= X
      BY <1>2, <1>3 DEF Ordered, Fixed, Asked, Sizes
    <2>2. i.max \in Int
      BY <2>1, HwParamsAssumption DEF IntervalRec
    <2> QED BY <2>1, <2>2
  <1>5. PICK b \in Nat : b = a * f
    OBVIOUS
  <1>6. SetParams([frames |-> a, bytes |-> b, periods |-> n])
    <2>1. [size EXCEPT !.frames = a, !.bytes = b] = [frames |-> a, bytes |-> b, periods |-> n]
      <3>1. PICK z : z = size /\ z = [frames |-> X, bytes |-> Y, periods |-> n]
        BY <1>3
      <3>2. PICK y : y = [z EXCEPT !.frames = a, !.bytes = b]
        OBVIOUS
      <3>3. y \in [frames : Nat, bytes : Nat, periods : Nat]
        <4>1. z \in [frames : Nat, bytes : Nat, periods : Nat]
          BY <3>1
        <4> QED BY <3>2, <4>1
      <3>4. y.frames = a /\ y.bytes = b /\ y.periods = n
        BY <3>1, <3>2
      <3>5. y = [frames |-> a, bytes |-> b, periods |-> n]
        BY <3>3, <3>4
      <3> QED BY <3>1, <3>2, <3>5
    <2> QED BY <1>3, <1>4, <1>5, <2>1 DEF TryAgain, samples_to_bytes
  <1>7. X * f <= Y /\ Y <= c.period_bytes_max /\ n <= c.periods_max /\ n <= UINT_MAX /\ n % 2 = 0
    BY <1>2, <1>3 DEF SizesOK
  <1>8. b <= c.period_bytes_max
    <2>1. a * f <= X * f
      BY <1>4, ProductGrows
    <2>2. PICK w \in Nat : w = X * f
      OBVIOUS
    <2>3. c.period_bytes_max \in Nat
      BY CardLimits
    <2> QED BY <1>5, <1>7, <2>1, <2>2, <2>3
  <1>9. a * req.frame <= b /\ b = a * req.frame
    BY <1>3, <1>5
  <1> QED BY <1>1, <1>3, <1>6, <1>7, <1>8, <1>9, Requested

(***************************************************************************)
(* The theorems.                                                           *)
(***************************************************************************)
(* The sizes ALSA keeps are consistent at every step of a call: no rule     *)
(* takes a configuration of the card away, and the rules that are not due   *)
(* are satisfied as far as the call depends on them.                        *)
THEOREM Invariance == Spec => []IInv
  <1>1. Init => IInv
    <2>1. SUFFICES ASSUME Init PROVE IInv
      OBVIOUS
    <2>2. /\ card \in Cards /\ req \in Requests /\ pc = "done" /\ stamps = {} /\ k = 0
          /\ params = AnyBut(Format(req.frame)) /\ fTryAgain = FALSE /\ runtime = NoRuntime
          /\ size = [frames |-> 0, bytes |-> 0, periods |-> 0]
      BY <2>1 DEF Init
    <2>3. /\ params \in [Sizes -> IntervalRec]
          /\ \A v \in Sizes : Good(params[v]) /\ ~params[v].empty
          /\ params["FRAME_BITS"].min = 8 * req.frame /\ params["FRAME_BITS"].max = 8 * req.frame
      BY <2>2, FormatSet
    <2>4. Ordered
      <3>1. size \in [frames : Nat, bytes : Nat, periods : Nat] /\ k \in 0 .. 17
        BY <2>2
      <3>2. pc \in Phases /\ fTryAgain \in BOOLEAN /\ stamps \subseteq RulesOf(card)
        BY <2>2 DEF Phases
      <3> QED BY <2>2, <2>3, <3>1, <3>2 DEF Ordered
    <2>5. NoRuntime \in RuntimeType
      BY DEF NoRuntime, RuntimeType
    <2> QED BY <2>2, <2>4, <2>5 DEF IInv, Kept, InstalledFits
  <1>2. IInv /\ [Next]_vars => IInv'
    <2>1. SUFFICES ASSUME IInv, [Next]_vars PROVE IInv'
      OBVIOUS
    <2>2. CASE OSS32_WaveSetHwParams
      BY <2>1, <2>2, CallStarts
    <2>3. CASE snd_pcm_hw_refine
      BY <2>1, <2>3, RuleRuns
    <2>4. CASE RefineFails \/ ParamsFail \/ DriverRefuses
      BY <2>1, <2>4, CallFails
    <2>5. CASE ChooseSizes
      BY <2>1, <2>5, SizesChosen
    <2>6. CASE TryAgain
      BY <2>1, <2>6, TriedAgain
    <2>7. CASE snd_pcm_hw_params
      BY <2>1, <2>7, ParamsInstalled
    <2>8. CASE snd_pcm_sw_params
      BY <2>1, <2>8, SwParamsSet
    <2>9. CASE UNCHANGED vars
      <3>1. UNCHANGED <<card, req, pc, params, stamps, k, size, fTryAgain, runtime, ret>>
        BY <2>9 DEF vars
      <3>2. Ordered'
        BY <2>1, <3>1 DEF IInv, Ordered, RulesOf
      <3>3. Kept'
        BY <2>1, <3>1 DEF IInv, Kept, Wanted, Legal, Periods, Value
      <3>4. InstalledFits'
        BY <2>1, <3>1 DEF IInv, InstalledFits, Legal, SwAccepted, Silence
      <3>5. /\ Empty' = Empty /\ (Refined' <=> Refined) /\ (Checked' <=> Checked)
            /\ (SizesOK' <=> SizesOK) /\ \A v : Asked(v)' = Asked(v)
        BY <3>1 DEF Empty, Refined, Checked, SizesOK, Asked
      <3> QED BY <2>1, <3>1, <3>2, <3>3, <3>4, <3>5 DEF IInv
    <2> QED BY <2>1, <2>2, <2>3, <2>4, <2>5, <2>6, <2>7, <2>8, <2>9 DEF Next
  <1> QED BY <1>1, <1>2, PTL DEF Spec

(* What HW_PARAMS has installed is, after any call and between its steps, a *)
(* whole and even number of periods the card allows, with a boundary of at  *)
(* least two laps, and SW_PARAMS never turns it down.                       *)
THEOREM InstalledStaysFit == Spec => []InstalledFits
  <1>1. IInv => InstalledFits
    BY DEF IInv
  <1> QED BY <1>1, Invariance, PTL

(* No order of the rules of snd_pcm_hw_refine takes a configuration away    *)
(* that the card allows.                                                    *)
THEOREM SolutionsAreKept == Spec => []NoSolutionLost
  <1>1. IInv => NoSolutionLost
    <2>1. SUFFICES ASSUME IInv PROVE NoSolutionLost
      OBVIOUS
    <2>2. Ordered /\ Kept
      BY <2>1 DEF IInv
    <2>3. TypeOK
      <3>1. \A v \in Sizes : params[v].min \in 0 .. UINT_MAX + 1
                             /\ params[v].max \in -1 .. UINT_MAX + 1
        BY <2>2, HwParamsAssumption DEF Ordered, IntervalRec
      <3>2. stamps \subseteq DOMAIN Rules
        BY <2>2 DEF Ordered, RulesOf
      <3>3. Len(Rules) = 17
        BY DEF Rules
      <3> QED BY <2>2, <3>1, <3>2, <3>3 DEF Ordered, TypeOK, Phases
    <2>4. pc \in {"refine", "params"} =>
            \A p \in 1 .. card.period_bytes_max, n \in Periods :
              Legal(req.frame, p, n) /\ (pc = "params" => p = size.frames /\ n = size.periods)
              => \A v \in Sizes : Has(params[v], Value(v, p, n))
      BY <2>2 DEF Kept, Wanted
    <2> QED BY <2>3, <2>4 DEF NoSolutionLost
  <1> QED BY <1>1, Invariance, PTL


(***************************************************************************)
(* What the rules leave when they have come to rest.                       *)
(***************************************************************************)
(* The smallest whole number of an interval. *)
Lower(i) == IF i.openmin THEN i.min + 1 ELSE i.min

(* snd_interval_refine raises the lower bound to those of its arguments. *)
LEMMA RefineLower ==
  ASSUME NEW i, Good(i), NEW v \in Cutter
  PROVE  LET r == snd_interval_refine(i, v).i
         IN  /\ Lower(r) \in Int /\ Lower(i) \in Int /\ Lower(v) \in Int
             /\ Lower(i) <= Lower(r) /\ Lower(v) <= Lower(r)
  <1> DEFINE r == snd_interval_refine(i, v).i
  <1>0. i \in IntervalRec /\ UINT_MAX \in Nat
    BY HwParamsAssumption DEF Good
  <1>1. PICK lo \in BOOLEAN, hi \in BOOLEAN, whole \in BOOLEAN :
          (lo <=> Lo(i, v)) /\ (hi <=> Hi(i, v)) /\ (whole <=> (i.integer \/ v.integer))
    BY Zenon
  <1>2. PICK om \in BOOLEAN : om = (IF lo THEN v.openmin ELSE i.openmin)
    BY <1>0 DEF IntervalRec, Cutter
  <1>3. PICK oM \in BOOLEAN : oM = (IF hi THEN v.openmax ELSE i.openmax)
    BY <1>0 DEF IntervalRec, Cutter
  <1>4. /\ r \in AnyInterval
        /\ r.min = (IF lo THEN v.min ELSE i.min) + (IF whole /\ om THEN 1 ELSE 0)
        /\ r.openmin = (~whole /\ om)
    BY <1>0, <1>1, <1>2, <1>3, RefineFields
  <1>5. /\ i.min \in Int /\ i.openmin \in BOOLEAN /\ v.min \in Int /\ v.openmin \in BOOLEAN
    BY <1>0 DEF IntervalRec, Cutter
  <1> HIDE DEF r
  <1>6. r.min \in Int
    BY <1>4 DEF AnyInterval
  <1>7. Lower(r) = IF om THEN (IF lo THEN v.min ELSE i.min) + 1 ELSE IF lo THEN v.min ELSE i.min
    <2>1. PICK m \in Int : m = IF lo THEN v.min ELSE i.min
      BY <1>5
    <2>2. r.min = IF whole /\ om THEN m + 1 ELSE m
      BY <1>4, <2>1
    <2>3. r.openmin <=> (~whole /\ om)
      BY <1>4
    <2>4. Lower(r) = IF om THEN m + 1 ELSE m
      BY <2>2, <2>3 DEF Lower
    <2> QED BY <2>1, <2>4
  <1>8. Lower(i) <= Lower(r) /\ Lower(v) <= Lower(r)
    BY <1>1, <1>2, <1>5, <1>7 DEF Lo, Lower
  <1>9. Lower(r) \in Int /\ Lower(i) \in Int /\ Lower(v) \in Int
    BY <1>5, <1>7 DEF Lower
  <1> QED BY <1>8, <1>9 DEF r

(* The list leaves bounds that are in it, and where no member is left, the  *)
(* upper one has moved to the greatest below.                               *)
LEMMA ListMembers ==
  ASSUME NEW i, Good(i), ~i.empty, NEW list, list \subseteq 0 .. UINT_MAX
  PROVE  LET r == snd_interval_list(i, list).i
         IN  /\ Lower(r) \in Int /\ Lower(i) \in Int /\ Lower(i) <= Lower(r)
             /\ ~r.empty => r.min \in list /\ r.max \in list
             /\ \A x, y \in list : x <= i.max /\ i.min <= y /\ ~i.openmin /\ ~i.openmax =>
                  /\ r.max \in list /\ x <= r.max /\ r.max <= i.max
                  /\ i.min = i.max /\ i.min \notin list => r.min > r.max
  <1> DEFINE ups == {x \in list : x > i.min \/ (x = i.min /\ ~i.openmin)}
             downs == {x \in list : x < i.max \/ (x = i.max /\ ~i.openmax)}
             up == Min(ups)
             down == Max(downs)
             low == [i EXCEPT !.min = up, !.openmin = FALSE]
             z == snd_interval_list(i, list)
             r == z.i
  <1>0. /\ i.min \in 0 .. UINT_MAX /\ i.max \in 0 .. UINT_MAX /\ i.min <= i.max
        /\ i.openmin \in BOOLEAN /\ i.openmax \in BOOLEAN /\ i.integer \in BOOLEAN
        /\ UINT_MAX \in Nat /\ i \in IntervalRec
    BY Bounds DEF Good
  <1>4. \A m \in list : m \in Nat
    BY <1>0
  <1>5. Lower(i) \in Int
    BY <1>0 DEF Lower
  <1>1. CASE ups = {}
    <2>1. z = [i |-> [i EXCEPT !.empty = TRUE], changed |-> TRUE]
      BY <1>1 DEF snd_interval_list
    <2>2. r = [i EXCEPT !.empty = TRUE]
      BY <2>1
    <2>5. \A y \in list : i.min <= y => i.openmin
      BY <1>0, <1>1, <1>4
    <2> HIDE DEF ups, z, r
    <2>3. r.min = i.min /\ r.empty = TRUE /\ r.openmin = i.openmin
      BY <1>0, <2>2 DEF IntervalRec
    <2>4. Lower(r) = Lower(i)
      BY <1>0, <2>3 DEF Lower
    <2> QED BY <1>0, <1>5, <2>3, <2>4, <2>5 DEF r, z
  <1>2. CASE ups # {} /\ downs = {}
    <2>0. up \in ups
      <3>1. ups \in SUBSET Nat
        BY <1>4, Zenon
      <3> HIDE DEF ups
      <3> QED BY <1>2, <3>1, LeastOf
    <2>1. z = [i |-> [low EXCEPT !.empty = TRUE], changed |-> TRUE]
      BY <1>2 DEF snd_interval_list
    <2>2. r = [low EXCEPT !.empty = TRUE]
      BY <2>1
    <2> HIDE DEF up
    <2>3. up \in 0 .. UINT_MAX /\ i.min <= up /\ (i.openmin => i.min < up)
      BY <1>0, <2>0
    <2>4. \A x \in list : x <= i.max => i.openmax
      BY <1>0, <1>2, <1>4
    <2> HIDE DEF ups, downs, z, r
    <2>9. low \in IntervalRec /\ low.min = up /\ low.openmin = FALSE
      <3>1. up \in 0 .. UINT_MAX + 1
        BY <1>0, <2>3
      <3> QED BY <1>0, <3>1, NewMin
    <2> HIDE DEF low
    <2>5. r.min = up /\ r.empty = TRUE /\ r.openmin = FALSE
      BY <2>2, <2>9 DEF IntervalRec
    <2>6. Lower(r) \in Int /\ Lower(i) <= Lower(r)
      BY <1>0, <2>3, <2>5 DEF Lower
    <2> QED BY <1>0, <1>5, <2>4, <2>5, <2>6 DEF r, z
  <1>3. CASE ups # {} /\ downs # {}
    <2>0. up \in ups /\ \A m \in ups : up <= m
      <3>1. ups \in SUBSET Nat
        BY <1>4, Zenon
      <3> HIDE DEF ups
      <3> QED BY <1>3, <3>1, LeastOf
    <2>1. down \in downs /\ \A m \in downs : m <= down
      <3>1. downs \in SUBSET Nat
        BY <1>4, Zenon
      <3>2. i.max \in Nat /\ \A m \in downs : m <= i.max
        BY <1>0, <1>4
      <3> HIDE DEF downs
      <3> QED BY <1>3, <3>1, <3>2, GreatestOf
    <2> DEFINE full == [low EXCEPT !.max = down, !.openmax = FALSE]
    <2>2. z.i = Emptied(full)
      <3>1. z = [i |-> Emptied(full),
                 changed |-> up # i.min \/ down # i.max \/ i.openmin \/ i.openmax]
        BY <1>3, Zenon DEF snd_interval_list
      <3> HIDE DEF z, full, up, down
      <3> QED BY <3>1, Zenon
    <2> HIDE DEF up, down, z, r
    <2>3. /\ up \in 0 .. UINT_MAX /\ i.min <= up /\ down \in 0 .. UINT_MAX /\ down <= i.max
          /\ up \in list /\ down \in list /\ (up = i.min => ~i.openmin)
      BY <1>0, <2>0, <2>1
    <2>4. \A x \in list : x <= i.max /\ ~i.openmax => x <= down
      BY <1>0, <1>4, <2>1
    <2> HIDE DEF ups, downs
    <2>5. /\ full \in IntervalRec /\ full.min = up /\ full.max = down /\ full.openmin = FALSE
      <3>1. low \in IntervalRec /\ low.min = up /\ low.openmin = FALSE
        <4>1. up \in 0 .. UINT_MAX + 1
          BY <1>0, <2>3
        <4> QED BY <1>0, <4>1, NewMin
      <3> HIDE DEF low
      <3>2. down \in -1 .. UINT_MAX
        BY <1>0, <2>3
      <3> QED BY <3>1, <3>2, NewMax
    <2>6. PICK e \in BOOLEAN : e = snd_interval_checkempty(full)
      BY Zenon DEF snd_interval_checkempty
    <2> HIDE DEF full
    <2>7. r = [full EXCEPT !.empty = e]
      BY <2>2, <2>6 DEF r, Emptied
    <2>8. r.min = up /\ r.max = down /\ r.openmin = FALSE
      BY <2>5, <2>7 DEF IntervalRec
    <2>9. Lower(r) \in Int /\ Lower(i) <= Lower(r)
      BY <1>0, <2>3, <2>8 DEF Lower
    <2>10. i.min = i.max /\ i.min \notin list => up > down
      BY <1>0, <2>3
    <2> QED BY <1>5, <2>3, <2>4, <2>8, <2>9, <2>10 DEF r, z
  <1> QED BY <1>1, <1>2, <1>3

(* The largest quotient times the smallest divisor is no more than the      *)
(* largest dividend.                                                        *)
LEMMA QuotientFits ==
  ASSUME NEW a, Good(a), ~a.empty, NEW b, Good(b), ~b.empty
  PROVE  LET v == snd_interval_div(a, b)
         IN  \A u \in Int : u <= Upper(v) => u * b.min <= a.max
  <1> DEFINE v == snd_interval_div(a, b)
             open == a.openmax \/ b.openmin
  <1>1. PICK m \in Nat, c \in Nat : m = a.max /\ c = b.min
    BY Bounds
  <1>2. PICK o \in BOOLEAN : o = open
    BY Zenon
  <1>0. PICK e \in Nat : e = 1
    OBVIOUS
  <1>3. CASE c = 0
    <2>1. \A u \in Int : u * c <= m
      BY <1>3
    <2> QED BY <1>1, <2>1
  <1>4. CASE c # 0
    <2>1. PICK q \in Nat : \E r \in BOOLEAN :
             /\ q = muldiv32(m, e, c).q /\ r = muldiv32(m, e, c).r
             /\ q * c <= m * e
             /\ r => q * c < m * e /\ m * e < (q + 1) * c
             /\ ~r => q = UINT_MAX \/ q * c = m * e
             /\ Above(muldiv32(m, e, c), o).max = (IF r THEN q + 1 ELSE q)
             /\ Above(muldiv32(m, e, c), o).openmax <=> (r \/ o)
      BY <1>4, MuldivAt, Zenon
    <2>2. PICK r \in BOOLEAN :
             /\ q * c <= m
             /\ Above(muldiv32(m, 1, c), o).max = (IF r THEN q + 1 ELSE q)
             /\ Above(muldiv32(m, 1, c), o).openmax <=> (r \/ o)
      BY <1>0, <2>1
    <2>3. b.min > 0
      BY <1>1, <1>4
    <2>4. v.max = Above(muldiv32(m, 1, c), o).max
      BY <1>1, <1>2, <2>3 DEF snd_interval_mulkdiv, snd_interval_div
    <2>5. v.openmax <=> (r \/ o)
      <3>1. v.openmax <=> Above(muldiv32(a.max, 1, b.min), open).openmax
        BY <2>3, Zenon DEF snd_interval_mulkdiv, snd_interval_div
      <3> QED BY <1>1, <1>2, <2>2, <3>1
    <2> HIDE DEF v
    <2>6. Upper(v) \in Int /\ Upper(v) <= q
      BY <2>2, <2>4, <2>5 DEF Upper
    <2>7. ASSUME NEW u \in Int, u <= Upper(v) PROVE u * c <= m
      <3>1. u <= q
        BY <2>6, <2>7
      <3>2. u * c <= q * c /\ u * c \in Int /\ q * c \in Int
        BY <3>1
      <3> QED BY <2>2, <3>2
    <2> QED BY <1>1, <2>7 DEF v
  <1> QED BY <1>3, <1>4

(* The smallest period has at least the smallest number of bytes. *)
LEMMA PeriodReaches ==
  ASSUME NEW a, Good(a), ~a.empty, NEW b, Good(b), ~b.empty, NEW f \in Nat \ {0},
         b.max = 8 * f
  PROVE  LET v == snd_interval_mulkdiv(a, 8, b)
         IN  \A u \in Int : Lower(v) <= u => a.min <= u * f
  <1> DEFINE v == snd_interval_mulkdiv(a, 8, b)
             d == muldiv32(a.min, 8, b.max)
  <1>1. PICK m \in Nat, c \in Nat : m = a.min /\ c = b.max /\ c = 8 * f /\ c # 0
    BY Bounds
  <1>2. PICK U \in Nat : U = UINT_MAX /\ m <= U
    BY <1>1, Bounds
  <1>0. PICK e \in Nat : e = 8
    OBVIOUS
  <1>3. PICK q \in Nat : \E r \in BOOLEAN :
           /\ q = muldiv32(m, e, c).q /\ r = muldiv32(m, e, c).r
           /\ q * c <= m * e
           /\ r => q * c < m * e /\ m * e < (q + 1) * c
           /\ ~r => q = UINT_MAX \/ q * c = m * e
    <2>1. c # 0
      BY <1>1
    <2>2. PICK o \in BOOLEAN : o = TRUE
      OBVIOUS
    <2> QED BY <2>1, <2>2, MuldivAt, Zenon
  <1>4. PICK r \in BOOLEAN :
           /\ q = d.q /\ r = d.r
           /\ r => m * 8 < (q + 1) * c
           /\ ~r => q = U \/ q * c = m * 8
    BY <1>0, <1>1, <1>2, <1>3
  <1>5. v.min = q
    BY <1>4 DEF snd_interval_mulkdiv
  <1>6. r => v.openmin
    BY <1>4 DEF snd_interval_mulkdiv
  <1>7. v.openmin \in BOOLEAN
    <2>1. v \in Cutter
      BY MulkdivCutter
    <2> QED BY <2>1 DEF Cutter
  <1> HIDE DEF v, d
  <1>8. Lower(v) \in Int /\ q <= Lower(v) /\ (r => q + 1 <= Lower(v))
    BY <1>5, <1>6, <1>7 DEF Lower
  <1>9. PICK Q \in Nat : Q = q * f
    OBVIOUS
  <1>10. (q + 1) * c = 8 * Q + 8 * f /\ q * c = 8 * Q /\ (q + 1) * f = Q + f
    BY <1>1, <1>9
  <1>11. CASE r
    <2>1. m <= (q + 1) * f
      BY <1>4, <1>10, <1>11
    <2>2. ASSUME NEW u \in Int, Lower(v) <= u PROVE m <= u * f
      <3>1. q + 1 <= u /\ u \in Nat
        BY <1>8, <1>11, <2>2
      <3>2. (q + 1) * f <= u * f
        BY <3>1, ProductGrows
      <3>3. u * f \in Nat /\ (q + 1) * f \in Nat
        BY <3>1
      <3> QED BY <2>1, <3>2, <3>3
    <2> QED BY <1>1, <2>2 DEF v
  <1>12. CASE ~r
    <2>1. m <= Q
      <3>1. CASE q = U
        <4>1. q * 1 <= q * f
          BY ProductGrows
        <4> QED BY <1>2, <1>9, <3>1, <4>1
      <3>2. CASE q # U
        BY <1>4, <1>10, <1>12, <3>2
      <3> QED BY <3>1, <3>2
    <2>2. ASSUME NEW u \in Int, Lower(v) <= u PROVE m <= u * f
      <3>1. q <= u /\ u \in Nat
        BY <1>8, <2>2
      <3>2. q * f <= u * f
        BY <3>1, ProductGrows
      <3>3. u * f \in Nat
        BY <3>1
      <3> QED BY <1>9, <2>1, <3>2, <3>3
    <2> QED BY <1>1, <2>2 DEF v
  <1> QED BY <1>11, <1>12

(* The bytes of so many frames, bound by bound. *)
LEMMA BytesOf ==
  ASSUME NEW a, Good(a), ~a.empty, NEW b, Good(b), ~b.empty, NEW f \in Nat \ {0},
         b.min = 8 * f, b.max = 8 * f
  PROVE  LET v == snd_interval_muldivk(a, b, 8)
         IN  /\ v.min \in Int /\ v.max \in Int
             /\ a.min * f <= v.min \/ v.min = UINT_MAX
             /\ v.max <= a.max * f
  <1> DEFINE v == snd_interval_muldivk(a, b, 8)
             open == a.openmax \/ b.openmax
  <1>1. PICK l \in Nat, m \in Nat, c \in Nat :
          l = a.min /\ m = a.max /\ c = b.min /\ c = b.max /\ c = 8 * f
    BY Bounds
  <1>2. PICK o \in BOOLEAN : o = open
    BY Zenon
  <1>0. PICK e \in Nat : e = 8 /\ e # 0
    OBVIOUS
  <1>3. ASSUME NEW x \in Nat
        PROVE  \E q \in Nat : /\ q = muldiv32(x, c, e).q
                              /\ q = UINT_MAX \/ q = x * f
                              /\ Above(muldiv32(x, c, e), o).max = q /\ q <= x * f
    <2>1. PICK q \in Nat : \E r \in BOOLEAN :
             /\ q = muldiv32(x, c, e).q /\ r = muldiv32(x, c, e).r
             /\ q * e <= x * c
             /\ r => q * e < x * c /\ x * c < (q + 1) * e
             /\ ~r => q = UINT_MAX \/ q * e = x * c
             /\ Above(muldiv32(x, c, e), o).max = (IF r THEN q + 1 ELSE q)
             /\ Above(muldiv32(x, c, e), o).openmax <=> (r \/ o)
      <3>1. e # 0
        BY <1>0
      <3> QED BY <3>1, MuldivAt, Zenon
    <2>2. PICK r \in BOOLEAN :
             /\ q = muldiv32(x, c, e).q
             /\ q * e <= x * c
             /\ r => q * e < x * c /\ x * c < (q + 1) * e
             /\ ~r => q = UINT_MAX \/ q * e = x * c
             /\ Above(muldiv32(x, c, e), o).max = (IF r THEN q + 1 ELSE q)
      BY <2>1, Zenon
    <2>3. PICK X \in Nat : X = x * f
      OBVIOUS
    <2>4. x * c = 8 * X /\ q * e = 8 * q /\ (q + 1) * e = 8 * q + 8
      BY <1>0, <1>1, <2>3
    <2>5. ~r
      BY <2>2, <2>4
    <2>6. q <= X /\ (q = UINT_MAX \/ q = X)
      BY <2>2, <2>4, <2>5
    <2>7. Above(muldiv32(x, c, e), o).max = q
      BY <2>2, <2>5
    <2> QED BY <2>2, <2>3, <2>6, <2>7
  <1>4. PICK q \in Nat : q = muldiv32(l, c, e).q /\ (q = UINT_MAX \/ q = l * f)
    BY <1>3
  <1>5. PICK h \in Nat : Above(muldiv32(m, c, e), o).max = h /\ h <= m * f
    BY <1>3
  <1>6. v.min = muldiv32(a.min, b.min, 8).q
    BY DEF snd_interval_muldivk
  <1>7. v.max = Above(muldiv32(a.max, b.max, 8), open).max
    BY DEF snd_interval_muldivk
  <1> HIDE DEF v
  <1>8. v.min = q
    BY <1>0, <1>1, <1>4, <1>6
  <1>9. v.max = h
    BY <1>0, <1>1, <1>2, <1>5, <1>7
  <1>10. l * f \in Nat
    OBVIOUS
  <1> QED BY <1>1, <1>4, <1>5, <1>8, <1>9, <1>10 DEF v

(* A rule raises the lower bound of its interval or leaves it, *)
LEMMA RunLower ==
  ASSUME Ready, NEW j \in 1 .. 17
  PROVE  LET i == params[Rules[j].var]
             x == RunRule(Rules[j])
         IN  Lower(i) \in Int /\ Lower(x.i) \in Int /\ Lower(i) <= Lower(x.i)
  <1>1. Rules[j].var \in Sizes
    BY RuleShape
  <1>2. PICK i, x : /\ i = params[Rules[j].var] /\ x = RunRule(Rules[j])
                    /\ Good(i) /\ ~i.empty
    BY <1>1 DEF Ready
  <1>3. CASE j = 16
    <2>1. PICK list : list = card.period_sizes /\ list \subseteq 0 .. UINT_MAX
      BY CardLimits DEF Ready
    <2>2. Rules[16].var = "PERIOD_SIZE"
      BY RuleTable, RuleParts
    <2>3. x = snd_interval_list(i, list)
      BY <1>2, <1>3, <2>1, <2>2, RunsByList
    <2>4. Lower(i) \in Int /\ Lower(x.i) \in Int /\ Lower(i) <= Lower(x.i)
      BY <1>2, <2>1, <2>3, ListMembers
    <2> QED BY <1>2, <2>4
  <1>4. CASE j # 16
    <2>1. PICK c : c = CutterOf(Rules[j]) /\ c \in Cutter
      BY <1>4, CutterType DEF Ready
    <2>2. x = snd_interval_refine(i, c)
      BY <1>2, <1>4, <2>1, RunsByCutting
    <2>3. Lower(i) \in Int /\ Lower(x.i) \in Int /\ Lower(i) <= Lower(x.i)
      BY <1>2, <2>1, <2>2, RefineLower
    <2> QED BY <1>2, <2>3
  <1> QED BY <1>3, <1>4

(* and so does a turn of the loop. *)
LEMMA TurnLower ==
  ASSUME Ordered, snd_pcm_hw_refine
  PROVE  \A v \in Sizes : /\ Lower(params[v]) \in Int /\ Lower(params'[v]) \in Int
                          /\ Lower(params[v]) <= Lower(params'[v])
  <1>1. PICK j \in 1 .. 17 : \E w \in Sizes : \E x :
           /\ Ready /\ w = Rules[j].var /\ x = RunRule(Rules[j])
           /\ params' = [params EXCEPT ![w] = x.i]
    BY Turn
  <1>2. PICK w, x :
           /\ w \in Sizes
           /\ Ready /\ w = Rules[j].var /\ x = RunRule(Rules[j])
           /\ params' = [params EXCEPT ![w] = x.i]
    BY <1>1
  <1>3. \A v \in Sizes : params'[v] = IF v = w THEN x.i ELSE params[v]
    BY <1>2 DEF Ordered
  <1>4. Lower(params[w]) \in Int /\ Lower(x.i) \in Int /\ Lower(params[w]) <= Lower(x.i)
    BY <1>2, RunLower
  <1>5. ASSUME NEW v \in Sizes PROVE Lower(params[v]) \in Int
    <2>1. PICK i : i = params[v] /\ Good(i)
      BY DEF Ordered
    <2>2. i.min \in Int
      BY <2>1, HwParamsAssumption DEF Good, IntervalRec
    <2> QED BY <2>1, <2>2 DEF Lower
  <1>6. TAKE v \in Sizes
  <1>7. CASE v = w
    BY <1>2, <1>3, <1>4, <1>7
  <1>8. CASE v # w
    BY <1>3, <1>5, <1>8
  <1> QED BY <1>7, <1>8

(* A rule that has just run has cut its interval and no other. *)
LEMMA RuleRan ==
  ASSUME Ordered, snd_pcm_hw_refine, NEW m \in 1 .. 17, k' = m, ~Empty'
  PROVE  LET w == Rules[m].var
             c == CutterOf(Rules[m])
         IN  /\ \A v \in Sizes \ {w} : params'[v] = params[v]
             /\ m # 16 => /\ c \in Cutter /\ (c.integer => params'[w].integer)
                          /\ c.min <= params'[w].min /\ params'[w].max <= c.max
                          /\ Upper(params'[w]) <= Upper(c) /\ Lower(c) <= Lower(params'[w])
             /\ m = 16 => /\ params'["PERIOD_SIZE"].min \in card.period_sizes
                          /\ params'["PERIOD_SIZE"].max \in card.period_sizes
  <1>1. PICK j \in 1 .. 17 : \E w \in Sizes : \E x :
           /\ Ready /\ w = Rules[j].var /\ x = RunRule(Rules[j])
           /\ k' = j /\ params' = [params EXCEPT ![w] = x.i]
    BY Turn
  <1>2. PICK w, x :
           /\ w \in Sizes
           /\ Ready /\ w = Rules[m].var /\ x = RunRule(Rules[m])
           /\ params' = [params EXCEPT ![w] = x.i]
    BY <1>1
  <1>3. \A v \in Sizes : params'[v] = IF v = w THEN x.i ELSE params[v]
    BY <1>2 DEF Ordered
  <1>4. PICK i : i = params[w] /\ Good(i) /\ ~i.empty
    BY <1>2 DEF Ready
  <1>5. params'[w] = x.i /\ ~x.i.empty
    BY <1>2, <1>3 DEF Empty
  <1>6. CASE m = 16
    <2>1. PICK list : list = card.period_sizes /\ list \subseteq 0 .. UINT_MAX
      BY <1>2, CardLimits DEF Ready
    <2>2. w = "PERIOD_SIZE"
      BY <1>2, <1>6, RuleTable, RuleParts
    <2>3. x = snd_interval_list(i, list)
      BY <1>2, <1>4, <1>6, <2>1, <2>2, RunsByList
    <2>4. x.i.min \in list /\ x.i.max \in list
      BY <1>4, <1>5, <2>1, <2>3, ListMembers
    <2> QED BY <1>2, <1>3, <1>5, <1>6, <2>1, <2>2, <2>4
  <1>7. CASE m # 16
    <2>1. PICK c : c = CutterOf(Rules[m]) /\ c \in Cutter
      BY <1>2, <1>7, CutterType DEF Ready
    <2>2. x = snd_interval_refine(i, c)
      BY <1>2, <1>4, <1>7, <2>1, RunsByCutting
    <2>3. /\ c.min <= x.i.min /\ x.i.max <= c.max /\ Upper(x.i) <= Upper(c)
          /\ c.integer => x.i.integer
      BY <1>4, <2>1, <2>2, RefineBounds
    <2>4. Lower(c) <= Lower(x.i)
      BY <1>4, <2>1, <2>2, RefineLower
    <2> QED BY <1>2, <1>3, <1>5, <1>7, <2>1, <2>3, <2>4
  <1> QED BY <1>6, <1>7

(* The arguments of a rule that is not due are as they were when it ran. *)
LEMMA Undisturbed ==
  ASSUME Ordered, snd_pcm_hw_refine, NEW m \in 1 .. 17, k' # m, ~Empty',
         m = 16 => card.period_sizes # {}, m \notin stamps'
  PROVE  /\ m \notin stamps
         /\ \A v \in Sizes : v \in {Rules[m].a, Rules[m].b} =>
              params'[v].min = params[v].min /\ params'[v].max = params[v].max
  <1>1. PICK j \in 1 .. 17 : \E w \in Sizes : \E x :
           /\ Ready /\ w = Rules[j].var /\ x = RunRule(Rules[j])
           /\ k' = j /\ params' = [params EXCEPT ![w] = x.i]
           /\ ~x.i.empty => stamps' = (stamps \ {j}) \cup (IF x.changed THEN Woken(j) ELSE {})
    BY Turn
  <1>2. PICK w, x :
           /\ w \in Sizes /\ k' = j
           /\ Ready /\ w = Rules[j].var /\ x = RunRule(Rules[j])
           /\ params' = [params EXCEPT ![w] = x.i]
           /\ ~x.i.empty => stamps' = (stamps \ {j}) \cup (IF x.changed THEN Woken(j) ELSE {})
    BY <1>1
  <1>3. \A v \in Sizes : params'[v] = IF v = w THEN x.i ELSE params[v]
    BY <1>2 DEF Ordered
  <1>4. stamps' = (stamps \ {j}) \cup (IF x.changed THEN Woken(j) ELSE {})
    BY <1>2, <1>3 DEF Empty
  <1>5. m # j /\ m \notin stamps /\ (x.changed => m \notin Woken(j))
    BY <1>2, <1>4
  <1>6. m \in RulesOf(card)
    BY AllDue
  <1>7. ASSUME NEW v \in Sizes, v \in {Rules[m].a, Rules[m].b}
        PROVE  params'[v].min = params[v].min /\ params'[v].max = params[v].max
    <2>1. CASE v = w
      <3>1. m \in Woken(j)
        BY <1>2, <1>5, <1>6, <1>7, <2>1 DEF Woken
      <3>2. ~x.changed
        BY <1>5, <3>1
      <3>3. x.i.min = params[w].min /\ x.i.max = params[w].max
        BY <1>2, <3>2, RunNarrows
      <3> QED BY <1>3, <2>1, <3>3
    <2>2. CASE v # w
      BY <1>3, <2>2
    <2> QED BY <2>1, <2>2
  <1> QED BY <1>5, <1>7

(* What the bounds are to each other, as far as the rules are not due. *)
Settled ==
  LET PS == params["PERIOD_SIZE"]
      PB == params["PERIOD_BYTES"]
      N  == params["PERIODS"]
      BS == params["BUFFER_SIZE"]
      BB == params["BUFFER_BYTES"]
      f  == req.frame
  IN  /\ 3 \notin stamps => card.period_bytes_min <= PB.min
      /\ 4 \notin stamps => card.periods_min <= N.min
      /\ 5 \notin stamps => BS.integer /\ BS.max <= card.buffer_size_max
      /\ 6 \notin stamps => BB.max <= card.buffer_bytes_max
      /\ 10 \notin stamps => Upper(PS) * N.min <= BS.max
      /\ 11 \notin stamps => PB.min <= Lower(PS) * f
      /\ 13 \notin stamps => Upper(BS) * f <= BB.max
      /\ 14 \notin stamps => PS.min * f <= PB.min \/ UINT_MAX <= PB.min
      /\ 15 \notin stamps => BB.max <= BS.max * f
      /\ 16 \notin stamps /\ card.period_sizes # {} =>
           PS.min \in card.period_sizes /\ PS.max \in card.period_sizes
      /\ 17 \notin stamps => BB.max <= card.dma_max

(* The stamps keep it up. *)
LEMMA TurnSettled ==
  ASSUME Ordered, Settled, snd_pcm_hw_refine, ~Empty'
  PROVE  Settled'
  <1>1. card' = card /\ req' = req
    BY DEF snd_pcm_hw_refine
  <1>2. \A v \in Sizes :
           /\ params[v].min \in Int /\ params[v].max \in Int
           /\ params'[v].min \in Int /\ params'[v].max \in Int
           /\ Upper(params[v]) \in Int /\ Upper(params'[v]) \in Int
           /\ Lower(params[v]) \in Int /\ Lower(params'[v]) \in Int
           /\ params[v].min <= params'[v].min /\ params'[v].max <= params[v].max
           /\ Upper(params'[v]) <= Upper(params[v]) /\ Lower(params[v]) <= Lower(params'[v])
           /\ params[v].integer => params'[v].integer
    <2>1. TAKE v \in Sizes
    <2>2. PICK s, t : s = params[v] /\ t = params'[v] /\ Good(s) /\ Good(t)
      BY TurnNarrows DEF Ordered
    <2>3. s.min \in Int /\ s.max \in Int /\ t.min \in Int /\ t.max \in Int
      BY <2>2, HwParamsAssumption DEF Good, IntervalRec
    <2>4. Upper(s) \in Int /\ Upper(t) \in Int
      BY <2>3 DEF Upper
    <2>5. /\ params[v].min <= params'[v].min /\ params'[v].max <= params[v].max
          /\ Upper(params'[v]) <= Upper(params[v])
          /\ params[v].integer => params'[v].integer
      BY TurnNarrows
    <2> QED BY <2>2, <2>3, <2>4, <2>5, TurnLower
  <1>3. \A v \in Sizes : Good(params[v]) /\ ~params[v].empty
    BY DEF Ordered, snd_pcm_hw_refine
  <1>4. /\ card \in Cards /\ card.period_bytes_min \in Int /\ card.periods_min \in Int
        /\ card.buffer_size_max \in Int /\ card.buffer_bytes_max \in Int /\ card.dma_max \in Int
    <2>1. PICK c \in Cards : c = card
      BY DEF Ordered
    <2>2. /\ c.period_bytes_min \in Int /\ c.periods_min \in Int
          /\ c.buffer_size_max \in Int /\ c.buffer_bytes_max \in Int /\ c.dma_max \in Int
      BY CardLimits
    <2> QED BY <2>1, <2>2
  <1>5. PICK f \in Nat \ {0} : f = req.frame
    BY HwParamsAssumption DEF Ordered
  <1>6. PICK g : /\ g = params["FRAME_BITS"] /\ Good(g) /\ ~g.empty
                 /\ g.min = 8 * f /\ g.max = 8 * f
    BY <1>3, <1>5 DEF Ordered, Sizes
  <1>7. 3 \notin stamps' => card.period_bytes_min <= params'["PERIOD_BYTES"].min
    <2>1. HAVE 3 \notin stamps'
    <2>2. CASE k' # 3
      <3>1. 3 \notin stamps
        BY <2>1, <2>2, Undisturbed
      <3>2. card.period_bytes_min <= params["PERIOD_BYTES"].min
        BY <3>1 DEF Settled
      <3> QED BY <1>2, <1>4, <3>2 DEF Sizes
    <2>3. CASE k' = 3
      <3>1. Rules[3].var = "PERIOD_BYTES" /\ Rules[3].f = "constraint"
        BY RuleTable, LimitParts
      <3>2. PICK c : c = CutterOf(Rules[3]) /\ c = Constraint("PERIOD_BYTES")
        BY <3>1 DEF CutterOf
      <3>3. c.min = card.period_bytes_min
        BY <1>4, <3>2, Constraints DEF Sizes
      <3>4. /\ CutterOf(Rules[3]).min <= params'["PERIOD_BYTES"].min
            /\ params'["PERIOD_BYTES"].max <= CutterOf(Rules[3]).max
        BY <2>3, <3>1, RuleRan DEF Sizes
      <3> QED BY <1>2, <1>4, <3>2, <3>3, <3>4 DEF Sizes
    <2> QED BY <2>2, <2>3
  <1>8. 4 \notin stamps' => card.periods_min <= params'["PERIODS"].min
    <2>1. HAVE 4 \notin stamps'
    <2>2. CASE k' # 4
      <3>1. 4 \notin stamps
        BY <2>1, <2>2, Undisturbed
      <3>2. card.periods_min <= params["PERIODS"].min
        BY <3>1 DEF Settled
      <3> QED BY <1>2, <1>4, <3>2 DEF Sizes
    <2>3. CASE k' = 4
      <3>1. Rules[4].var = "PERIODS" /\ Rules[4].f = "constraint"
        BY RuleTable, LimitParts
      <3>2. PICK c : c = CutterOf(Rules[4]) /\ c = Constraint("PERIODS")
        BY <3>1 DEF CutterOf
      <3>3. c.min = card.periods_min
        BY <1>4, <3>2, Constraints DEF Sizes
      <3>4. /\ CutterOf(Rules[4]).min <= params'["PERIODS"].min
            /\ params'["PERIODS"].max <= CutterOf(Rules[4]).max
        BY <2>3, <3>1, RuleRan DEF Sizes
      <3> QED BY <1>2, <1>4, <3>2, <3>3, <3>4 DEF Sizes
    <2> QED BY <2>2, <2>3
  <1>9. 5 \notin stamps' => params'["BUFFER_SIZE"].max <= card.buffer_size_max
    <2>1. HAVE 5 \notin stamps'
    <2>2. CASE k' # 5
      <3>1. 5 \notin stamps
        BY <2>1, <2>2, Undisturbed
      <3>2. params["BUFFER_SIZE"].max <= card.buffer_size_max
        BY <3>1 DEF Settled
      <3> QED BY <1>2, <1>4, <3>2 DEF Sizes
    <2>3. CASE k' = 5
      <3>1. Rules[5].var = "BUFFER_SIZE" /\ Rules[5].f = "constraint"
        BY RuleTable, LimitParts
      <3>2. PICK c : c = CutterOf(Rules[5]) /\ c = Constraint("BUFFER_SIZE")
        BY <3>1 DEF CutterOf
      <3>3. c.max = card.buffer_size_max
        BY <1>4, <3>2, Constraints DEF Sizes
      <3>4. /\ CutterOf(Rules[5]).min <= params'["BUFFER_SIZE"].min
            /\ params'["BUFFER_SIZE"].max <= CutterOf(Rules[5]).max
        BY <2>3, <3>1, RuleRan DEF Sizes
      <3> QED BY <1>2, <1>4, <3>2, <3>3, <3>4 DEF Sizes
    <2> QED BY <2>2, <2>3
  <1>10. 6 \notin stamps' => params'["BUFFER_BYTES"].max <= card.buffer_bytes_max
    <2>1. HAVE 6 \notin stamps'
    <2>2. CASE k' # 6
      <3>1. 6 \notin stamps
        BY <2>1, <2>2, Undisturbed
      <3>2. params["BUFFER_BYTES"].max <= card.buffer_bytes_max
        BY <3>1 DEF Settled
      <3> QED BY <1>2, <1>4, <3>2 DEF Sizes
    <2>3. CASE k' = 6
      <3>1. Rules[6].var = "BUFFER_BYTES" /\ Rules[6].f = "constraint"
        BY RuleTable, LimitParts
      <3>2. PICK c : c = CutterOf(Rules[6]) /\ c = Constraint("BUFFER_BYTES")
        BY <3>1 DEF CutterOf
      <3>3. c.max = card.buffer_bytes_max
        BY <1>4, <3>2, Constraints DEF Sizes
      <3>4. /\ CutterOf(Rules[6]).min <= params'["BUFFER_BYTES"].min
            /\ params'["BUFFER_BYTES"].max <= CutterOf(Rules[6]).max
        BY <2>3, <3>1, RuleRan DEF Sizes
      <3> QED BY <1>2, <1>4, <3>2, <3>3, <3>4 DEF Sizes
    <2> QED BY <2>2, <2>3
  <1>11. 5 \notin stamps' => params'["BUFFER_SIZE"].integer
    <2>1. HAVE 5 \notin stamps'
    <2>2. CASE k' # 5
      <3>1. 5 \notin stamps
        BY <2>1, <2>2, Undisturbed
      <3> QED BY <1>2, <3>1 DEF Settled, Sizes
    <2>3. CASE k' = 5
      <3>1. Rules[5].var = "BUFFER_SIZE" /\ Rules[5].f = "constraint"
        BY RuleTable, LimitParts
      <3>2. PICK c : c = CutterOf(Rules[5]) /\ c = Constraint("BUFFER_SIZE")
        BY <3>1 DEF CutterOf
      <3>3. c.integer
        BY <3>2 DEF Constraint, Interval
      <3>4. CutterOf(Rules[5]).integer => params'["BUFFER_SIZE"].integer
        BY <2>3, <3>1, RuleRan DEF Sizes
      <3> QED BY <3>2, <3>3, <3>4
    <2> QED BY <2>2, <2>3
  <1>12. 17 \notin stamps' => params'["BUFFER_BYTES"].max <= card.dma_max
    <2>1. HAVE 17 \notin stamps'
    <2>2. CASE k' # 17
      <3>1. 17 \notin stamps
        BY <2>1, <2>2, Undisturbed
      <3>2. params["BUFFER_BYTES"].max <= card.dma_max
        BY <3>1 DEF Settled
      <3> QED BY <1>2, <1>4, <3>2 DEF Sizes
    <2>3. CASE k' = 17
      <3>1. Rules[17].var = "BUFFER_BYTES" /\ Rules[17].f = "max"
        BY RuleTable, RuleParts
      <3>2. PICK c : c = CutterOf(Rules[17]) /\ c = Interval(0, card.dma_max, TRUE)
        BY <3>1 DEF CutterOf
      <3>3. c.max = card.dma_max
        BY <3>2 DEF Interval
      <3>4. params'["BUFFER_BYTES"].max <= CutterOf(Rules[17]).max
        BY <2>3, <3>1, RuleRan DEF Sizes
      <3> QED BY <3>2, <3>3, <3>4
    <2> QED BY <2>2, <2>3
  <1>13. 16 \notin stamps' /\ card.period_sizes # {} =>
           /\ params'["PERIOD_SIZE"].min \in card.period_sizes
           /\ params'["PERIOD_SIZE"].max \in card.period_sizes
    <2>1. HAVE 16 \notin stamps' /\ card.period_sizes # {}
    <2>2. CASE k' # 16
      <3>1. Rules[16].a = "PERIOD_SIZE"
        BY RuleTable, RuleParts
      <3>2. /\ 16 \notin stamps
            /\ params'["PERIOD_SIZE"].min = params["PERIOD_SIZE"].min
            /\ params'["PERIOD_SIZE"].max = params["PERIOD_SIZE"].max
        BY <2>1, <2>2, <3>1, Undisturbed DEF Sizes
      <3> QED BY <2>1, <3>2 DEF Settled
    <2>3. CASE k' = 16
      BY <2>3, RuleRan
    <2> QED BY <2>2, <2>3
  <1>14. 10 \notin stamps' =>
           Upper(params'["PERIOD_SIZE"]) * params'["PERIODS"].min <= params'["BUFFER_SIZE"].max
    <2>1. HAVE 10 \notin stamps'
    <2>0. /\ Rules[10].var = "PERIOD_SIZE" /\ Rules[10].f = "div"
          /\ Rules[10].a = "BUFFER_SIZE" /\ Rules[10].b = "PERIODS"
      BY RuleTable, RuleParts
    <2>4. PICK t, t2, a, a2, b, b2 :
            /\ t = params["PERIOD_SIZE"] /\ t2 = params'["PERIOD_SIZE"]
            /\ a = params["BUFFER_SIZE"] /\ a2 = params'["BUFFER_SIZE"]
            /\ b = params["PERIODS"] /\ b2 = params'["PERIODS"]
            /\ Good(a) /\ ~a.empty /\ Good(b) /\ ~b.empty
            /\ Upper(t2) \in Int /\ Upper(t) \in Int /\ Upper(t2) <= Upper(t)
      BY <1>2, <1>3 DEF Sizes
    <2>5. a.max \in Nat /\ b.min \in Nat
      BY <2>4, Bounds
    <2>2. CASE k' # 10
      <3>1. 10 \notin stamps
        BY <2>1, <2>2, Undisturbed
      <3>2. a2.max = a.max /\ b2.min = b.min
        BY <2>0, <2>1, <2>2, <2>4, Undisturbed DEF Sizes
      <3>3. Upper(t) * b.min <= a.max
        BY <2>4, <3>1 DEF Settled
      <3>4. Upper(t2) * b.min <= Upper(t) * b.min
        BY <2>4, <2>5
      <3>5. Upper(t2) * b.min \in Int /\ Upper(t) * b.min \in Int
        BY <2>4, <2>5
      <3> QED BY <2>4, <2>5, <3>2, <3>3, <3>4, <3>5
    <2>3. CASE k' = 10
      <3>1. /\ a2 = a /\ b2 = b
            /\ Upper(t2) <= Upper(CutterOf(Rules[10]))
        BY <2>0, <2>3, <2>4, RuleRan DEF Sizes
      <3>2. CutterOf(Rules[10]) = snd_interval_div(a, b)
        BY <2>0, <2>4 DEF CutterOf
      <3>3. Upper(t2) * b.min <= a.max
        BY <2>4, <3>1, <3>2, QuotientFits
      <3> QED BY <2>4, <3>1, <3>3
    <2> QED BY <2>2, <2>3
  <1>15. 11 \notin stamps' =>
           params'["PERIOD_BYTES"].min <= Lower(params'["PERIOD_SIZE"]) * f
    <2>1. HAVE 11 \notin stamps'
    <2>0. /\ Rules[11].var = "PERIOD_SIZE" /\ Rules[11].f = "mulkdiv"
          /\ Rules[11].a = "PERIOD_BYTES" /\ Rules[11].b = "FRAME_BITS"
      BY RuleTable, RuleParts
    <2>4. PICK t, t2, a, a2 :
            /\ t = params["PERIOD_SIZE"] /\ t2 = params'["PERIOD_SIZE"]
            /\ a = params["PERIOD_BYTES"] /\ a2 = params'["PERIOD_BYTES"]
            /\ Good(a) /\ ~a.empty
            /\ Lower(t2) \in Int /\ Lower(t) \in Int /\ Lower(t) <= Lower(t2)
      BY <1>2, <1>3 DEF Sizes
    <2>5. a.min \in Nat
      BY <2>4, Bounds
    <2>2. CASE k' # 11
      <3>1. 11 \notin stamps
        BY <2>1, <2>2, Undisturbed
      <3>2. a2.min = a.min
        BY <2>0, <2>1, <2>2, <2>4, Undisturbed DEF Sizes
      <3>3. a.min <= Lower(t) * f
        BY <1>5, <2>4, <3>1 DEF Settled
      <3>4. Lower(t) * f <= Lower(t2) * f
        BY <2>4
      <3>5. Lower(t) * f \in Int /\ Lower(t2) * f \in Int
        BY <2>4
      <3> QED BY <2>4, <2>5, <3>2, <3>3, <3>4, <3>5
    <2>3. CASE k' = 11
      <3>1. a2 = a /\ Lower(CutterOf(Rules[11])) <= Lower(t2)
        BY <2>0, <2>3, <2>4, RuleRan DEF Sizes
      <3>2. CutterOf(Rules[11]) = snd_interval_mulkdiv(a, 8, g)
        BY <1>6, <2>0, <2>4 DEF CutterOf
      <3>3. a.min <= Lower(t2) * f
        BY <1>6, <2>4, <3>1, <3>2, PeriodReaches
      <3> QED BY <2>4, <3>1, <3>3
    <2> QED BY <2>2, <2>3
  <1>16. 13 \notin stamps' =>
           Upper(params'["BUFFER_SIZE"]) * f <= params'["BUFFER_BYTES"].max
    <2>1. HAVE 13 \notin stamps'
    <2>0. /\ Rules[13].var = "BUFFER_SIZE" /\ Rules[13].f = "mulkdiv"
          /\ Rules[13].a = "BUFFER_BYTES" /\ Rules[13].b = "FRAME_BITS"
      BY RuleTable, RuleParts
    <2>4. PICK t, t2, a, a2 :
            /\ t = params["BUFFER_SIZE"] /\ t2 = params'["BUFFER_SIZE"]
            /\ a = params["BUFFER_BYTES"] /\ a2 = params'["BUFFER_BYTES"]
            /\ Good(a) /\ ~a.empty
            /\ Upper(t2) \in Int /\ Upper(t) \in Int /\ Upper(t2) <= Upper(t)
      BY <1>2, <1>3 DEF Sizes
    <2>5. a.max \in Nat
      BY <2>4, Bounds
    <2>2. CASE k' # 13
      <3>1. 13 \notin stamps
        BY <2>1, <2>2, Undisturbed
      <3>2. a2.max = a.max
        BY <2>0, <2>1, <2>2, <2>4, Undisturbed DEF Sizes
      <3>3. Upper(t) * f <= a.max
        BY <1>5, <2>4, <3>1 DEF Settled
      <3>4. Upper(t2) * f <= Upper(t) * f
        BY <2>4
      <3>5. Upper(t2) * f \in Int /\ Upper(t) * f \in Int
        BY <2>4
      <3> QED BY <2>4, <2>5, <3>2, <3>3, <3>4, <3>5
    <2>3. CASE k' = 13
      <3>1. a2 = a /\ Upper(t2) <= Upper(CutterOf(Rules[13]))
        BY <2>0, <2>3, <2>4, RuleRan DEF Sizes
      <3>2. CutterOf(Rules[13]) = snd_interval_mulkdiv(a, 8, g)
        BY <1>6, <2>0, <2>4 DEF CutterOf
      <3>3. Upper(t2) * f <= a.max
        BY <1>6, <2>4, <3>1, <3>2, PeriodFits
      <3> QED BY <2>4, <3>1, <3>3
    <2> QED BY <2>2, <2>3
  <1>17. 14 \notin stamps' =>
           \/ params'["PERIOD_SIZE"].min * f <= params'["PERIOD_BYTES"].min
           \/ UINT_MAX <= params'["PERIOD_BYTES"].min
    <2>1. HAVE 14 \notin stamps'
    <2>0. /\ Rules[14].var = "PERIOD_BYTES" /\ Rules[14].f = "muldivk"
          /\ Rules[14].a = "PERIOD_SIZE" /\ Rules[14].b = "FRAME_BITS"
      BY RuleTable, RuleParts
    <2>4. PICK t, t2, a, a2 :
            /\ t = params["PERIOD_BYTES"] /\ t2 = params'["PERIOD_BYTES"]
            /\ a = params["PERIOD_SIZE"] /\ a2 = params'["PERIOD_SIZE"]
            /\ Good(a) /\ ~a.empty
            /\ t2.min \in Int /\ t.min \in Int /\ t.min <= t2.min
      BY <1>2, <1>3 DEF Sizes
    <2>5. a.min \in Nat /\ a.min * f \in Nat /\ UINT_MAX \in Nat
      BY <2>4, Bounds
    <2>2. CASE k' # 14
      <3>1. 14 \notin stamps
        BY <2>1, <2>2, Undisturbed
      <3>2. a2.min = a.min
        BY <2>0, <2>1, <2>2, <2>4, Undisturbed DEF Sizes
      <3>3. a.min * f <= t.min \/ UINT_MAX <= t.min
        BY <1>5, <2>4, <3>1 DEF Settled
      <3> QED BY <2>4, <2>5, <3>2, <3>3
    <2>3. CASE k' = 14
      <3>1. a2 = a /\ CutterOf(Rules[14]).min <= t2.min
        BY <2>0, <2>3, <2>4, RuleRan DEF Sizes
      <3>2. CutterOf(Rules[14]) = snd_interval_muldivk(a, g, 8)
        BY <1>6, <2>0, <2>4 DEF CutterOf
      <3>3. PICK c : /\ c = snd_interval_muldivk(a, g, 8)
                     /\ c.min \in Int /\ (a.min * f <= c.min \/ c.min = UINT_MAX)
        BY <1>6, <2>4, BytesOf
      <3> QED BY <2>4, <2>5, <3>1, <3>2, <3>3
    <2> QED BY <2>2, <2>3
  <1>18. 15 \notin stamps' =>
           params'["BUFFER_BYTES"].max <= params'["BUFFER_SIZE"].max * f
    <2>1. HAVE 15 \notin stamps'
    <2>0. /\ Rules[15].var = "BUFFER_BYTES" /\ Rules[15].f = "muldivk"
          /\ Rules[15].a = "BUFFER_SIZE" /\ Rules[15].b = "FRAME_BITS"
      BY RuleTable, RuleParts
    <2>4. PICK t, t2, a, a2 :
            /\ t = params["BUFFER_BYTES"] /\ t2 = params'["BUFFER_BYTES"]
            /\ a = params["BUFFER_SIZE"] /\ a2 = params'["BUFFER_SIZE"]
            /\ Good(a) /\ ~a.empty
            /\ t2.max \in Int /\ t.max \in Int /\ t2.max <= t.max
      BY <1>2, <1>3 DEF Sizes
    <2>5. a.max \in Nat /\ a.max * f \in Nat
      BY <2>4, Bounds
    <2>2. CASE k' # 15
      <3>1. 15 \notin stamps
        BY <2>1, <2>2, Undisturbed
      <3>2. a2.max = a.max
        BY <2>0, <2>1, <2>2, <2>4, Undisturbed DEF Sizes
      <3>3. t.max <= a.max * f
        BY <1>5, <2>4, <3>1 DEF Settled
      <3> QED BY <2>4, <2>5, <3>2, <3>3
    <2>3. CASE k' = 15
      <3>1. a2 = a /\ t2.max <= CutterOf(Rules[15]).max
        BY <2>0, <2>3, <2>4, RuleRan DEF Sizes
      <3>2. CutterOf(Rules[15]) = snd_interval_muldivk(a, g, 8)
        BY <1>6, <2>0, <2>4 DEF CutterOf
      <3>3. PICK c : c = snd_interval_muldivk(a, g, 8) /\ c.max \in Int /\ c.max <= a.max * f
        BY <1>6, <2>4, BytesOf
      <3> QED BY <2>4, <2>5, <3>1, <3>2, <3>3
    <2> QED BY <2>2, <2>3
  <1> QED BY <1>1, <1>5, <1>7, <1>8, <1>9, <1>10, <1>11, <1>12, <1>13, <1>14, <1>15, <1>16,
             <1>17, <1>18 DEF Settled

(***************************************************************************)
(* The sizes that are asked for.                                           *)
(***************************************************************************)
(* A period that lies between two of the card's list, the lower of which    *)
(* has enough bytes.                                                        *)
InReach(p) ==
  card.period_sizes # {} =>
    /\ \E x \in card.period_sizes : x <= p /\ card.period_bytes_min <= x * req.frame
    /\ \E y \in card.period_sizes : p <= y

(* The list has crossed the bounds of the period, and left a member of it.  *)
Suggested ==
  LET PS == params["PERIOD_SIZE"]
  IN  /\ stamps = {} /\ ~fTryAgain /\ PS.min > PS.max /\ PS.max \in card.period_sizes
      /\ PS.max <= size.frames /\ card.period_bytes_min <= PS.max * req.frame

(* No rule but the list can object to the sizes that are asked for. *)
Offered ==
  /\ size.frames >= 1 /\ Fits(req.frame, size.frames, size.periods)
  /\ size.bytes = size.frames * req.frame /\ InReach(size.frames)
  /\ fTryAgain => Legal(req.frame, size.frames, size.periods)
  /\ \/ \A v \in Sizes : Has(params[v], Value(v, size.frames, size.periods))
     \/ Suggested

(* The invariant. *)
RInv ==
  /\ pc = "refine" => ~fTryAgain
  /\ pc = "refine" /\ ~Empty => Settled
  /\ pc = "params" /\ card.periods_min <= 2 => Offered

(* No rule but the list takes sizes away that keep to the limits. *)
LEMMA RunKeepsFit ==
  ASSUME Ready, NEW j \in 1 .. 17, j # 16,
         NEW p \in 1 .. card.period_bytes_max, NEW n \in Periods, Fits(req.frame, p, n),
         \A v \in Sizes : Has(params[v], Value(v, p, n))
  PROVE  Has(RunRule(Rules[j]).i, Value(Rules[j].var, p, n))
  <1>0. card \in Cards /\ req \in Requests
    BY DEF Ready
  <1>1. PICK v \in Sizes : v = Rules[j].var
    BY RuleShape
  <1>2. PICK x \in Nat : x = Value(v, p, n)
    BY <1>0, FitValues
  <1>3. PICK i : i = params[v] /\ Good(i) /\ ~i.empty /\ Has(i, x)
    BY <1>1, <1>2 DEF Ready
  <1>4. PICK c : c = CutterOf(Rules[j]) /\ c \in Cutter
    BY CutterType DEF Ready
  <1>5. Has(c, x)
    BY <1>1, <1>2, <1>4, CutterKeeps
  <1>6. Has(snd_interval_refine(i, c).i, x)
    BY <1>3, <1>4, <1>5, RefineHas
  <1>7. RunRule(Rules[j]) = snd_interval_refine(i, c)
    BY <1>1, <1>3, <1>4, RunsByCutting
  <1> QED BY <1>1, <1>2, <1>6, <1>7

(* An interval that was set and is not empty has its value. *)
LEMMA FixedHas ==
  ASSUME NEW i, Good(i), ~i.empty, NEW x \in Nat, Fixed(i, x)
  PROVE  Has(i, x) /\ i.min = x /\ i.max = x /\ ~i.openmin /\ ~i.openmax
  <1>1. i.min = x /\ i.max = x
    BY FixedValue
  <1>2. ~i.openmin /\ ~i.openmax
    BY DEF Good, Fixed
  <1> QED BY <1>1, <1>2, HasClosed

(* A period that keeps to the limits is a number the card can be asked for. *)
LEMMA FitPeriod ==
  ASSUME card \in Cards, NEW f \in Nat \ {0}, NEW p \in Nat, p >= 1, NEW n, Fits(f, p, n)
  PROVE  p \in 1 .. card.period_bytes_max /\ n \in Periods
  <1>1. PICK c \in Cards : c = card
    OBVIOUS
  <1>2. PICK B \in Nat : B = c.period_bytes_max
    BY CardLimits
  <1>3. PICK w \in Nat : w = p * f /\ p * 1 <= p * f
    BY ProductGrows
  <1>4. w <= B
    BY <1>1, <1>2, <1>3 DEF Fits
  <1>5. n \in Periods
    BY DEF Fits, Periods
  <1> QED BY <1>1, <1>2, <1>3, <1>4, <1>5

(* The rules, run on sizes that keep to the limits. *)
LEMMA TurnOffered ==
  ASSUME Ordered, \A v \in Sizes : Fixed(params[v], Asked(v)), Offered, snd_pcm_hw_refine
  PROVE  Offered'
  <1>1. PICK j \in 1 .. 17 : \E w \in Sizes : \E x :
           /\ Ready /\ w = Rules[j].var /\ x = RunRule(Rules[j])
           /\ j = 16 => card.period_sizes # {}
           /\ params' = [params EXCEPT ![w] = x.i]
           /\ x.i.empty => stamps' = {}
    BY Turn
  <1>2. PICK w, x :
           /\ w \in Sizes
           /\ Ready /\ w = Rules[j].var /\ x = RunRule(Rules[j])
           /\ j = 16 => card.period_sizes # {}
           /\ params' = [params EXCEPT ![w] = x.i]
           /\ x.i.empty => stamps' = {}
    BY <1>1
  <1>3. \A v \in Sizes : params'[v] = IF v = w THEN x.i ELSE params[v]
    BY <1>2 DEF Ordered
  <1>4. /\ UNCHANGED <<card, req, size, fTryAgain>> /\ stamps # {}
    BY DEF snd_pcm_hw_refine
  <1>5. PICK p \in Nat, n \in Nat : p = size.frames /\ n = size.periods
    BY DEF Ordered
  <1>6. PICK f \in Nat \ {0} : f = req.frame
    BY HwParamsAssumption DEF Ordered
  <1>7. /\ p >= 1 /\ Fits(f, p, n) /\ size.bytes = p * f /\ InReach(p)
        /\ fTryAgain => Legal(f, p, n)
        /\ \A v \in Sizes : Has(params[v], Value(v, p, n))
    BY <1>4, <1>5, <1>6 DEF Offered, Suggested
  <1>8. p \in 1 .. card.period_bytes_max /\ n \in Periods
    BY <1>6, <1>7, FitPeriod DEF Ordered
  <1>9. SUFFICES (\A v \in Sizes : Has(params'[v], Value(v, p, n))) \/ Suggested'
    <2>1. \A v : Value(v, size.frames, size.periods)' = Value(v, p, n)
      BY <1>4, <1>5 DEF Value
    <2>2. /\ Fits(req.frame, size.frames, size.periods)' /\ InReach(size.frames)'
          /\ (fTryAgain => Legal(req.frame, size.frames, size.periods))'
      BY <1>4, <1>5, <1>6, <1>7 DEF Fits, InReach, Legal
    <2>3. (size.frames >= 1)' /\ (size.bytes = size.frames * req.frame)'
      BY <1>4, <1>5, <1>6, <1>7
    <2> QED BY <2>1, <2>2, <2>3 DEF Offered
  <1>10. CASE j # 16
    <2>1. Has(x.i, Value(w, p, n))
      BY <1>2, <1>6, <1>7, <1>8, <1>10, RunKeepsFit
    <2> QED BY <1>3, <1>7, <2>1
  <1>11. CASE j = 16
    <2>1. PICK list : list = card.period_sizes /\ list # {} /\ list \subseteq 0 .. UINT_MAX
      BY <1>2, <1>11, CardLimits DEF Ready
    <2>2. w = "PERIOD_SIZE"
      BY <1>2, <1>11, RuleTable, RuleParts
    <2>3. PICK i : i = params["PERIOD_SIZE"] /\ Good(i) /\ ~i.empty /\ Fixed(i, p)
      BY <1>2, <1>5 DEF Ready, Sizes, Asked
    <2>4. Has(i, p) /\ i.min = p /\ i.max = p /\ ~i.openmin /\ ~i.openmax
      BY <2>3, FixedHas
    <2>5. x = snd_interval_list(i, list)
      BY <1>2, <1>11, <2>1, <2>2, <2>3, RunsByList
    <2>6. CASE p \in list
      <3>1. Has(x.i, p)
        BY <2>1, <2>3, <2>4, <2>5, <2>6, ListBounds
      <3>2. Value(w, p, n) = p
        BY <2>2 DEF Value
      <3> QED BY <1>3, <1>7, <3>1, <3>2
    <2>7. CASE p \notin list
      <3>1. PICK m \in list, y \in list : m <= p /\ card.period_bytes_min <= m * f /\ p <= y
        BY <1>6, <1>7, <2>1 DEF InReach
      <3>2. /\ x.i.max \in list /\ m <= x.i.max /\ x.i.max <= p /\ x.i.min > x.i.max
        BY <2>1, <2>3, <2>4, <2>5, <2>7, <3>1, ListMembers
      <3>3. PICK l \in Nat : l = x.i.max /\ m \in Nat
        BY <2>1, <3>2
      <3>4. Good(x.i)
        BY <2>1, <2>3, <2>5, ListBounds
      <3>5. x.i.empty
        <4>1. x.i.min \in Int
          BY <3>4, HwParamsAssumption DEF Good, IntervalRec
        <4> QED BY <3>2, <3>3, <3>4, <4>1 DEF Good, snd_interval_checkempty
      <3>6. ~fTryAgain
        BY <1>7, <2>1, <2>7, LegalFits
      <3>7. card.period_bytes_min <= l * f
        <4>1. m * f <= l * f /\ m * f \in Nat /\ l * f \in Nat
          BY <3>2, <3>3, ProductGrows
        <4>2. card.period_bytes_min \in Int
          BY CardLimits DEF Ordered
        <4> QED BY <3>1, <4>1, <4>2
      <3>8. Suggested'
        <4>1. params'["PERIOD_SIZE"] = x.i
          BY <1>3, <2>2 DEF Sizes
        <4>2. stamps' = {}
          BY <1>2, <3>5
        <4> QED BY <1>4, <1>5, <1>6, <2>1, <3>2, <3>3, <3>6, <3>7, <4>1, <4>2 DEF Suggested
      <3> QED BY <3>8
    <2> QED BY <2>6, <2>7
  <1> QED BY <1>10, <1>11

(* Sizes that have just been asked for are there. *)
LEMMA JustAsked ==
  ASSUME Ordered', (\A v \in Sizes : Fixed(params[v], Asked(v)))', stamps' # {},
         (size.bytes = size.frames * req.frame)'
  PROVE  (\A v \in Sizes : Has(params[v], Value(v, size.frames, size.periods)))'
  <1>1. PICK p \in Nat, n \in Nat, f \in Nat \ {0} :
          p = size'.frames /\ n = size'.periods /\ f = req'.frame /\ size'.bytes = p * f
    BY HwParamsAssumption DEF Ordered
  <1>2. PICK S \in Nat, T \in Nat, B \in Nat : S = p * n /\ B = p * f /\ T = B * n /\ T = S * f
    OBVIOUS
  <1>3. ASSUME NEW v \in Sizes PROVE Has(params'[v], Value(v, size.frames, size.periods)')
    <2>1. PICK y \in Nat : y = Asked(v)' /\ y = Value(v, size.frames, size.periods)'
      <3>1. Asked(v)' = Value(v, size.frames, size.periods)'
        BY <1>1, <1>2 DEF Asked, Value, Sizes
      <3>2. Asked(v)' \in {8 * f, p, B, n, S, T}
        BY <1>1, <1>2 DEF Asked, Sizes
      <3> QED BY <3>1, <3>2
    <2>2. PICK i : i = params'[v] /\ Good(i) /\ ~i.empty /\ Fixed(i, y)
      BY <2>1 DEF Ordered
    <2>3. Has(i, y)
      BY <2>2, FixedHas
    <2> QED BY <2>1, <2>2, <2>3
  <1> QED BY <1>3

(* One time more. *)
LEMMA OneMore ==
  ASSUME NEW x \in Nat, NEW y \in Nat
  PROVE  (x + 1) * y = x * y + y /\ x * y \in Nat
  OBVIOUS

(* A period of a frames, b bytes, at most u; the buffer at most S frames, T *)
(* bytes; d periods fit it, and m is d clamped to the bounds l and h.       *)
Divided(f, a, b, u, l, h, S, T, d, m) ==
  /\ f \in Nat \ {0} /\ a \in Nat \ {0} /\ b \in Nat \ {0} /\ b = a * f
  /\ u \in Nat /\ a <= u /\ l \in Nat \ {0} /\ h \in Nat /\ l <= h
  /\ S \in Nat /\ T \in Nat /\ u * l <= S /\ S * f = T
  /\ d \in Nat /\ d = T \div b /\ m \in Nat
  /\ m = IF d < l THEN l ELSE IF d > h THEN h ELSE d

(* The greatest number of periods, made even, fits the largest buffer. *)
LEMMA PeriodsFit ==
  ASSUME NEW f, NEW a, NEW b, NEW u, NEW l, NEW h, NEW S, NEW T, NEW d, NEW m,
         Divided(f, a, b, u, l, h, S, T, d, m), m # 1
  PROVE  /\ Even(m) \in Nat /\ 2 <= Even(m) /\ Even(m) <= h
         /\ a * Even(m) <= S /\ a * Even(m) * f <= T
  <1>a. f \in Nat /\ f # 0 /\ a \in Nat /\ a # 0 /\ b \in Nat /\ b # 0
    BY DEF Divided
  <1>b. /\ u \in Nat /\ l \in Nat /\ l # 0 /\ h \in Nat /\ S \in Nat /\ T \in Nat
        /\ d \in Nat /\ m \in Nat
    BY DEF Divided
  <1>c. b = a * f /\ a <= u /\ l <= h /\ u * l <= S /\ d = T \div b
    BY DEF Divided
  <1>d. S * f = T
    BY DEF Divided
  <1>e. m = IF d < l THEN l ELSE IF d > h THEN h ELSE d
    BY DEF Divided
  <1> USE <1>a, <1>b, <1>c, <1>d, <1>e
  <1>1. PICK r \in Nat : r < b /\ d * b + r = T
    BY Quotient
  <1>2. l * b <= T
    <2>1. a * l <= u * l
      BY ProductGrows
    <2>2. PICK w \in Nat, x \in Nat : w = a * l /\ x = u * l
      OBVIOUS
    <2>3. w <= S
      BY <2>1, <2>2
    <2>4. w * f <= S * f
      BY <2>3, ProductGrows
    <2>5. l * b = w * f
      BY <2>2
    <2>6. w * f \in Nat /\ S * f \in Nat
      OBVIOUS
    <2> QED BY <2>4, <2>5, <2>6
  <1>3. l <= d
    <2>1. PICK D \in Nat, L \in Nat : D = d * b /\ L = l * b /\ (d + 1) * b = D + b
      BY OneMore
    <2>4. D + r = T /\ L <= T
      BY <1>1, <1>2, <2>1
    <2>5. L < D + b
      BY <1>1, <2>4
    <2>2. l * b < (d + 1) * b
      BY <2>1, <2>5
    <2>3. l < d + 1
      BY <2>2, FactorDropped
    <2> QED BY <2>3
  <1>4. l <= m /\ m <= h /\ m <= d /\ 2 <= m
    BY <1>3
  <1>5. PICK e \in Nat : e = Even(m) /\ e <= m /\ 2 <= e
    <2>1. PICK q \in Nat : q = m \div 2 /\ 1 <= q /\ 2 * q <= m
      BY <1>4
    <2> QED BY <2>1 DEF Even
  <1>6. PICK E \in Nat : E = a * e
    OBVIOUS
  <1>7. E * f <= T
    <2>1. e * b <= d * b
      BY <1>4, <1>5, ProductGrows
    <2>2. E * f = e * b
      BY <1>6
    <2>3. PICK D \in Nat, X \in Nat : D = d * b /\ X = e * b
      BY OneMore
    <2>4. D + r = T /\ X <= D
      BY <1>1, <2>1, <2>3
    <2>5. X <= T
      BY <1>1, <2>4
    <2> QED BY <2>2, <2>3, <2>5
  <1>8. E <= S
    <2>1. E * f <= S * f
      <3>1. E * f \in Nat /\ S * f \in Nat
        OBVIOUS
      <3> QED BY <1>7, <3>1
    <2> QED BY <2>1, FactorDropped
  <1> QED BY <1>4, <1>5, <1>6, <1>7, <1>8

(* What WholeFrames asks of its numbers. *)
FramesCut(f, l, u, L, H, x, y, q) ==
  /\ f \in Nat \ {0} /\ l \in Nat /\ u \in Nat /\ L \in Nat /\ H \in Nat /\ u * f <= H
  /\ x \in Nat /\ y \in Nat /\ x <= u /\ y <= x * f /\ q \in Nat
  /\ q = y \div f /\ (y = L \/ y = H \/ x = l \/ x <= q)

(* WholeFrames, of numbers that stand in this relation. *)
LEMMA CutWhole ==
  ASSUME NEW f, NEW l, NEW u, NEW L, NEW H, NEW x, NEW y, NEW q, FramesCut(f, l, u, L, H, x, y, q)
  PROVE  q <= x /\ q * f <= y /\ (l <= q /\ L <= q * f => y = q * f)
  BY WholeFrames DEF FramesCut

(* X frames, Y bytes are asked for, and a period may have l to u frames, L  *)
(* to H bytes.                                                              *)
PeriodBounds(f, X, Y, l, u, L, H) ==
  /\ f \in Nat \ {0} /\ f = req.frame /\ X \in Nat /\ Y \in Nat
  /\ X = size.frames /\ Y = size.bytes /\ X = Y \div f
  /\ l \in Nat /\ u \in Nat /\ L \in Nat /\ H \in Nat /\ l <= u /\ L <= H
  /\ params["PERIOD_SIZE"].min = l /\ params["PERIOD_SIZE"].max = u
  /\ params["PERIOD_BYTES"].min = L /\ params["PERIOD_BYTES"].max = H
  /\ L = l * f /\ u * f <= H

(* The period is chosen between the bounds, a whole number of frames. *)
LEMMA PeriodChosen ==
  ASSUME NEW f, NEW X, NEW Y, NEW l, NEW u, NEW L, NEW H, PeriodBounds(f, X, Y, l, u, L, H)
  PROVE  \E a \in l .. u : /\ ClampPeriod.frames = a /\ ClampPeriod.bytes = a * f
                           /\ L <= a * f /\ a * f <= H
  <1>a. /\ f \in Nat /\ f # 0 /\ X \in Nat /\ Y \in Nat /\ l \in Nat /\ u \in Nat
        /\ L \in Nat /\ H \in Nat /\ l <= u /\ L <= H
    BY DEF PeriodBounds
  <1>b. X = Y \div f /\ L = l * f /\ u * f <= H
    BY DEF PeriodBounds
  <1>c. /\ f = req.frame /\ X = size.frames /\ Y = size.bytes
        /\ params["PERIOD_SIZE"].min = l /\ params["PERIOD_SIZE"].max = u
        /\ params["PERIOD_BYTES"].min = L /\ params["PERIOD_BYTES"].max = H
    BY DEF PeriodBounds
  <1> USE <1>a, <1>b, <1>c
  <1>1. PICK x \in Nat, y \in Nat :
          /\ x = (IF X < l THEN l ELSE IF X > u THEN u ELSE X)
          /\ y = (IF Y < L THEN L ELSE IF Y > H THEN H ELSE Y)
          /\ l <= x /\ x <= u /\ L <= y /\ y <= H
    OBVIOUS
  <1>2. x = Clamp(size.frames, params["PERIOD_SIZE"]) /\ y = Clamp(size.bytes, params["PERIOD_BYTES"])
    BY <1>1 DEF Clamp
  <1>3. PICK q \in Nat : q = y \div f
    OBVIOUS
  <1>4. ClampPeriod = IF x * f < y THEN [frames |-> x, bytes |-> x * f]
                      ELSE [frames |-> Min({x, q}), bytes |-> y]
    BY <1>2, <1>3 DEF ClampPeriod, samples_to_bytes, bytes_to_samples
  <1>5. CASE x * f < y
    <2>1. PICK w \in Nat : w = x * f
      OBVIOUS
    <2>2. ClampPeriod.frames = x /\ ClampPeriod.bytes = w
      BY <1>4, <1>5, <2>1
    <2>3. l * f <= x * f
      BY <1>1, ProductGrows
    <2>4. L <= w /\ w <= H /\ x \in l .. u
      BY <1>1, <1>5, <2>1, <2>3
    <2> QED BY <2>1, <2>2, <2>4
  <1>6. CASE ~(x * f < y)
    <2>1. y <= x * f
      <3>1. PICK w \in Nat : w = x * f
        OBVIOUS
      <3> QED BY <1>6, <3>1
    <2>2. y = L \/ y = H \/ x = l \/ x <= q
      BY <1>1, <1>3
    <2>3. q <= x /\ q * f <= y /\ (l <= q /\ L <= q * f => y = q * f)
      <3>1. FramesCut(f, l, u, L, H, x, y, q)
        BY <1>1, <1>3, <2>1, <2>2 DEF FramesCut
      <3> HIDE <1>a, <1>b, <1>c
      <3> QED BY <3>1, CutWhole
    <2>4. l <= q
      <3>1. PICK r \in Nat : r < f /\ q * f + r = y
        BY <1>3, Quotient
      <3>2. PICK Q \in Nat, W \in Nat : Q = q * f /\ W = l * f /\ (q + 1) * f = Q + f
        BY OneMore
      <3>3. W <= y /\ Q + r = y
        BY <1>1, <3>1, <3>2
      <3>4. W < Q + f
        BY <3>1, <3>3
      <3>5. l * f < (q + 1) * f
        BY <3>2, <3>4
      <3>6. l < q + 1
        BY <3>5, FactorDropped
      <3> QED BY <3>6
    <2>5. L <= q * f
      BY <2>4, ProductGrows
    <2>6. y = q * f
      BY <2>3, <2>4, <2>5
    <2>7. Min({x, q}) = q
      BY <2>3, MinOfTwo
    <2>8. ClampPeriod.frames = q /\ ClampPeriod.bytes = y
      BY <1>4, <1>6, <2>7
    <2>9. q \in l .. u
      BY <1>1, <2>3, <2>4
    <2> QED BY <1>1, <2>6, <2>8, <2>9
  <1> QED BY <1>5, <1>6

(* The bounds when all rules have come to rest. *)
LEMMA AtRest ==
  ASSUME Ordered, Refined, Settled, stamps = {}, ~Empty
  PROVE  LET PS == params["PERIOD_SIZE"]
             PB == params["PERIOD_BYTES"]
             N  == params["PERIODS"]
             BS == params["BUFFER_SIZE"]
             BB == params["BUFFER_BYTES"]
             f  == req.frame
         IN  /\ \A i \in {PS, PB, N, BS, BB} :
                  i.min \in Nat /\ i.max \in Nat /\ i.min <= i.max
             /\ card.period_bytes_min <= PB.min /\ PB.max <= card.period_bytes_max
             /\ PB.min = PS.min * f /\ PS.max * f <= PB.max
             /\ card.periods_min <= N.min /\ N.max <= card.periods_max
             /\ PS.max * N.min <= BS.max /\ BS.max * f = BB.max
             /\ BS.max <= card.buffer_size_max
             /\ BB.max <= card.buffer_bytes_max /\ BB.max <= card.dma_max
             /\ card.period_sizes # {} =>
                  PS.min \in card.period_sizes /\ PS.max \in card.period_sizes
  <1>1. PICK PS, PB, N, BS, BB :
          /\ PS = params["PERIOD_SIZE"] /\ PB = params["PERIOD_BYTES"]
          /\ N = params["PERIODS"] /\ BS = params["BUFFER_SIZE"] /\ BB = params["BUFFER_BYTES"]
    OBVIOUS
  <1>2. \A i \in {PS, PB, N, BS, BB} : Good(i) /\ ~i.empty
    BY <1>1 DEF Ordered, Empty, Sizes
  <1>3. \A i \in {PS, PB, N, BS, BB} : i.min \in Nat /\ i.max \in Nat /\ i.min <= i.max
    BY <1>2, Bounds
  <1>4. PICK f \in Nat \ {0}, c \in Cards : f = req.frame /\ c = card
    BY HwParamsAssumption DEF Ordered
  <1>5. /\ PS.integer /\ PB.max <= c.period_bytes_max /\ N.max <= c.periods_max
        /\ Upper(PS) * f <= PB.max
    BY <1>1, <1>4 DEF Refined
  <1>6. /\ c.period_bytes_min <= PB.min /\ c.periods_min <= N.min
        /\ BS.integer /\ BS.max <= c.buffer_size_max
        /\ BB.max <= c.buffer_bytes_max /\ BB.max <= c.dma_max
        /\ Upper(PS) * N.min <= BS.max /\ PB.min <= Lower(PS) * f
        /\ Upper(BS) * f <= BB.max /\ BB.max <= BS.max * f
        /\ PS.min * f <= PB.min \/ UINT_MAX <= PB.min
        /\ c.period_sizes # {} => PS.min \in c.period_sizes /\ PS.max \in c.period_sizes
    BY <1>1, <1>4 DEF Settled
  <1>7. Upper(PS) = PS.max /\ Lower(PS) = PS.min /\ Upper(BS) = BS.max
    BY <1>2, <1>5, <1>6 DEF Good, Upper, Lower
  <1>8. c.period_bytes_max \in Nat /\ c.period_bytes_max < UINT_MAX /\ UINT_MAX \in Nat
    BY CardLimits
  <1>9. PB.min = PS.min * f
    <2>1. PICK w \in Nat : w = PS.min * f
      BY <1>3
    <2>2. PB.min < UINT_MAX
      BY <1>3, <1>5, <1>8
    <2>3. w <= PB.min /\ PB.min <= w
      BY <1>3, <1>6, <1>7, <1>8, <2>1, <2>2
    <2> QED BY <1>3, <2>1, <2>3
  <1>10. BS.max * f = BB.max
    <2>1. PICK w \in Nat : w = BS.max * f
      BY <1>3
    <2> QED BY <1>3, <1>6, <1>7, <2>1
  <1> QED BY <1>1, <1>3, <1>4, <1>5, <1>6, <1>7, <1>9, <1>10

(* The sizes that are chosen keep to the limits. *)
LEMMA SizesOffered ==
  ASSUME IInv, RInv, ChooseSizes, IInv', pc' = "params", card.periods_min <= 2
  PROVE  Offered'
  <1>1. pc = "refine" /\ stamps = {} /\ ~Empty /\ ~fTryAgain
    BY DEF ChooseSizes, RInv
  <1>2. Ordered /\ Refined /\ Settled /\ size.frames = size.bytes \div req.frame
    BY <1>1 DEF IInv, RInv
  <1>3. PICK c \in Cards, f \in Nat \ {0}, X \in Nat, Y \in Nat :
          c = card /\ f = req.frame /\ X = size.frames /\ Y = size.bytes
    BY <1>2, HwParamsAssumption DEF Ordered
  <1>4. PICK PS, PB, N, BS, BB :
          /\ PS = params["PERIOD_SIZE"] /\ PB = params["PERIOD_BYTES"]
          /\ N = params["PERIODS"] /\ BS = params["BUFFER_SIZE"] /\ BB = params["BUFFER_BYTES"]
    OBVIOUS
  <1>5. /\ \A i \in {PS, PB, N, BS, BB} : i.min \in Nat /\ i.max \in Nat /\ i.min <= i.max
        /\ c.period_bytes_min <= PB.min /\ PB.max <= c.period_bytes_max
        /\ PB.min = PS.min * f /\ PS.max * f <= PB.max
        /\ c.periods_min <= N.min /\ N.max <= c.periods_max
        /\ PS.max * N.min <= BS.max /\ BS.max * f = BB.max /\ BS.max <= c.buffer_size_max
        /\ BB.max <= c.buffer_bytes_max /\ BB.max <= c.dma_max
        /\ c.period_sizes # {} => PS.min \in c.period_sizes /\ PS.max \in c.period_sizes
    BY <1>1, <1>2, <1>3, <1>4, AtRest
  <1>6. PICK l \in Nat, u \in Nat, L \in Nat, H \in Nat, S \in Nat, T \in Nat, g \in Nat, h \in Nat :
          /\ l = PS.min /\ u = PS.max /\ L = PB.min /\ H = PB.max /\ S = BS.max /\ T = BB.max
          /\ g = N.min /\ h = N.max /\ l <= u /\ L <= H /\ g <= h
          /\ L = l * f /\ u * f <= H /\ u * g <= S /\ S * f = T
    BY <1>5
  <1>7. /\ c.period_bytes_min \in 1 .. UINT_MAX /\ c.periods_min \in 1 .. UINT_MAX
        /\ c.period_bytes_max \in Nat /\ c.periods_max \in Nat /\ c.buffer_bytes_max \in Nat
        /\ c.dma_max \in Nat /\ c.buffer_size_max \in Nat /\ UINT_MAX \in Nat
    BY CardLimits
  <1>8. PICK a \in l .. u : /\ ClampPeriod.frames = a /\ ClampPeriod.bytes = a * f
                            /\ L <= a * f /\ a * f <= H
    <2>1. /\ f = req.frame /\ X = size.frames /\ Y = size.bytes /\ X = Y \div f
          /\ params["PERIOD_SIZE"].min = l /\ params["PERIOD_SIZE"].max = u
          /\ params["PERIOD_BYTES"].min = L /\ params["PERIOD_BYTES"].max = H
      BY <1>2, <1>3, <1>4, <1>6
    <2>2. PeriodBounds(f, X, Y, l, u, L, H)
      BY <1>6, <2>1 DEF PeriodBounds
    <2> QED BY <2>2, PeriodChosen
  <1>9. PICK b \in Nat \ {0} : b = a * f
    <2>1. PICK w \in Nat : w = a * f
      BY <1>8
    <2> QED BY <1>5, <1>6, <1>7, <1>8, <2>1
  <1>10. a \in Nat \ {0} /\ a <= u
    <2>1. a \in Nat
      BY <1>8
    <2>2. a # 0
      BY <1>9, <2>1
    <2> QED BY <1>8, <2>1, <2>2
  <1>11. ~(ClampPeriod.frames = 0 \/ ClampPeriods(ClampPeriod.bytes) = 1)
    BY <1>1 DEF ChooseSizes, Return
  <1>12. /\ SetParams([frames |-> a, bytes |-> b, periods |-> Even(ClampPeriods(b))])
         /\ fTryAgain' = fTryAgain
    BY <1>8, <1>9, <1>11 DEF ChooseSizes
  <1>13. PICK d \in Nat : d = T \div b
    BY Quotient
  <1>14. PICK m \in Nat : /\ m = ClampPeriods(b) /\ m # 1
                          /\ m = IF d < g THEN g ELSE IF d > h THEN h ELSE d
    BY <1>4, <1>6, <1>8, <1>9, <1>11, <1>13 DEF ClampPeriods, Clamp
  <1>15. PICK n \in Nat : /\ n = Even(m) /\ 2 <= n /\ n <= h
                          /\ a * n <= S /\ a * n * f <= T
    <2>1. g \in Nat \ {0}
      BY <1>5, <1>6, <1>7
    <2>2. Divided(f, a, b, u, g, h, S, T, d, m)
      BY <1>6, <1>9, <1>10, <1>13, <1>14, <2>1 DEF Divided
    <2>3. /\ Even(m) \in Nat /\ 2 <= Even(m) /\ Even(m) <= h
          /\ a * Even(m) <= S /\ a * Even(m) * f <= T
      BY <1>14, <2>2, PeriodsFit
    <2> QED BY <2>3
  <1>16. /\ size' = [frames |-> a, bytes |-> b, periods |-> n] /\ card' = card /\ req' = req
         /\ stamps' = RulesOf(card)
    BY <1>12, <1>14, <1>15 DEF SetParams
  <1>17. size'.frames = a /\ size'.bytes = b /\ size'.periods = n
    BY <1>16
  <1>18. Fits(f, a, n)
    <2>1. n \in c.periods_min .. c.periods_max
      BY <1>3, <1>5, <1>6, <1>7, <1>15
    <2>2. b \in c.period_bytes_min .. c.period_bytes_max
      BY <1>5, <1>6, <1>7, <1>8, <1>9
    <2>3. PICK E \in Nat : E = a * n
      BY <1>10
    <2>4. E <= c.buffer_size_max
      BY <1>5, <1>6, <1>7, <1>15, <2>3
    <2>5. PICK F \in Nat : F = E * f
      OBVIOUS
    <2>6. F <= c.buffer_bytes_max /\ F <= c.dma_max
      BY <1>5, <1>6, <1>7, <1>15, <2>3, <2>5
    <2>7. F <= Min({c.buffer_bytes_max, c.dma_max})
      BY <1>7, <2>6, MinOfTwo
    <2> QED BY <1>3, <1>9, <2>1, <2>2, <2>3, <2>4, <2>5, <2>7 DEF Fits
  <1>19. InReach(a)
    <2>1. SUFFICES ASSUME c.period_sizes # {}
                   PROVE  /\ \E x \in c.period_sizes : x <= a /\ c.period_bytes_min <= x * f
                          /\ \E y \in c.period_sizes : a <= y
      BY <1>3 DEF InReach
    <2>2. l \in c.period_sizes /\ u \in c.period_sizes
      BY <1>5, <1>6, <2>1
    <2>3. l <= a /\ a <= u /\ c.period_bytes_min <= l * f
      BY <1>5, <1>6, <1>8
    <2> QED BY <2>2, <2>3
  <1>20. (size.bytes = size.frames * req.frame)'
    BY <1>3, <1>9, <1>16, <1>17
  <1>21. stamps' # {}
    <2>1. 3 \in RulesOf(card)
      BY AllDue
    <2> QED BY <1>16, <2>1
  <1>22. (\A v \in Sizes : Has(params[v], Value(v, size.frames, size.periods)))'
    <2>1. Ordered' /\ (\A v \in Sizes : Fixed(params[v], Asked(v)))'
      BY DEF IInv
    <2> QED BY <1>20, <1>21, <2>1, JustAsked
  <1>23. Fits(req.frame, size.frames, size.periods)' /\ InReach(size.frames)'
    BY <1>3, <1>16, <1>17, <1>18, <1>19 DEF Fits, InReach
  <1>24. (size.frames >= 1)' /\ ~fTryAgain'
    BY <1>1, <1>10, <1>12, <1>17
  <1> QED BY <1>20, <1>22, <1>23, <1>24 DEF Offered

(* The period the list suggests is one the card allows. *)
LEMMA AgainOffered ==
  ASSUME IInv, RInv, TryAgain, IInv', card.periods_min <= 2
  PROVE  Offered'
  <1>1. pc = "params" /\ Empty /\ fTryAgain' = TRUE
    BY DEF TryAgain
  <1>2. Ordered /\ Offered
    BY <1>1 DEF IInv, RInv
  <1>3. Suggested
    BY <1>1, <1>2 DEF Offered, Empty, Has
  <1>4. PICK c \in Cards, f \in Nat \ {0}, p \in Nat, n \in Nat :
          c = card /\ f = req.frame /\ p = size.frames /\ n = size.periods
    BY <1>2, HwParamsAssumption DEF Ordered
  <1>5. /\ c.period_bytes_min \in 1 .. UINT_MAX /\ c.periods_min \in 1 .. UINT_MAX
        /\ c.period_bytes_max \in Nat /\ c.periods_max \in Nat /\ c.buffer_bytes_max \in Nat
        /\ c.dma_max \in Nat /\ c.buffer_size_max \in Nat /\ UINT_MAX \in Nat
        /\ c.period_sizes \subseteq 0 .. UINT_MAX
    BY CardLimits
  <1>6. PICK a \in Nat : /\ a = params["PERIOD_SIZE"].max /\ a \in c.period_sizes /\ a <= p
                         /\ c.period_bytes_min <= a * f
    BY <1>3, <1>4, <1>5 DEF Suggested
  <1>7. PICK b \in Nat : b = a * f
    OBVIOUS
  <1>8. a >= 1
    BY <1>5, <1>6, <1>7
  <1>9. /\ n \in c.periods_min .. c.periods_max
        /\ p * f \in c.period_bytes_min .. c.period_bytes_max
        /\ p * n <= c.buffer_size_max
        /\ p * n * f <= Min({c.buffer_bytes_max, c.dma_max})
    BY <1>2, <1>4 DEF Offered, Fits
  <1>10. Legal(f, a, n)
    <2>1. a * f <= p * f /\ a * n <= p * n
      BY <1>6, ProductGrows
    <2>2. PICK P \in Nat, Q \in Nat, R \in Nat : P = p * f /\ Q = p * n /\ R = a * n
      OBVIOUS
    <2>3. R * f <= Q * f
      BY <2>1, <2>2, ProductGrows
    <2>4. PICK V \in Nat, W \in Nat : V = R * f /\ W = Q * f
      OBVIOUS
    <2>5. b \in c.period_bytes_min .. c.period_bytes_max
      BY <1>5, <1>6, <1>7, <1>9, <2>1, <2>2
    <2>6. R <= c.buffer_size_max
      BY <1>5, <1>9, <2>1, <2>2
    <2>7. V <= Min({c.buffer_bytes_max, c.dma_max})
      <3>1. PICK M \in Int : M = Min({c.buffer_bytes_max, c.dma_max})
        BY <1>5, MinOfTwo
      <3> QED BY <1>9, <2>2, <2>3, <2>4, <3>1
    <2> QED BY <1>4, <1>6, <1>7, <1>9, <2>2, <2>4, <2>5, <2>6, <2>7 DEF Legal
  <1>11. /\ (size.frames)' = a /\ (size.bytes)' = b /\ (size.periods)' = n
         /\ card' = card /\ req' = req /\ stamps' = RulesOf(card) /\ pc' = "params"
    <2>1. PICK z : z = size /\ z \in [frames : Nat, bytes : Nat, periods : Nat] /\ z.periods = n
      BY <1>2, <1>4 DEF Ordered
    <2>2. SetParams([z EXCEPT !.frames = a, !.bytes = b])
      BY <1>4, <1>6, <1>7, <2>1 DEF TryAgain, samples_to_bytes
    <2>3. PICK y : y = [z EXCEPT !.frames = a, !.bytes = b]
      OBVIOUS
    <2>4. y.frames = a /\ y.bytes = b /\ y.periods = n
      BY <2>1, <2>3
    <2>5. size' = y /\ card' = card /\ req' = req /\ stamps' = RulesOf(card) /\ pc' = "params"
      BY <2>2, <2>3 DEF SetParams
    <2> QED BY <2>4, <2>5
  <1>12. (size.bytes = size.frames * req.frame)'
    BY <1>4, <1>7, <1>11
  <1>13. stamps' # {}
    <2>1. 3 \in RulesOf(card)
      BY AllDue
    <2> QED BY <1>11, <2>1
  <1>14. (\A v \in Sizes : Has(params[v], Value(v, size.frames, size.periods)))'
    <2>1. Ordered' /\ (\A v \in Sizes : Fixed(params[v], Asked(v)))'
      BY <1>11 DEF IInv
    <2> QED BY <1>12, <1>13, <2>1, JustAsked
  <1>15. Legal(req.frame, size.frames, size.periods)' /\ Fits(req.frame, size.frames, size.periods)'
    BY <1>4, <1>10, <1>11 DEF Legal, Fits
  <1>16. InReach(size.frames)'
    <2>1. a <= a /\ card.period_bytes_min <= a * req.frame /\ a \in card.period_sizes
      BY <1>4, <1>6
    <2> QED BY <1>11, <2>1 DEF InReach
  <1> QED BY <1>8, <1>11, <1>12, <1>14, <1>15, <1>16 DEF Offered

(* The sizes the call works out are turned down only by a card that asks    *)
(* for more than two periods: what the rules leave at rest is exact enough  *)
(* for the first attempt to fail at the list of periods at most, and the    *)
(* second uses a member of the list.                                        *)
THEOREM RefusalsHaveAReason == Spec => []RefusedForAReason
  <1>1. Init => RInv
    BY DEF Init, RInv
  <1>2. IInv /\ IInv' /\ RInv /\ [Next]_vars => RInv'
    <2>1. SUFFICES ASSUME IInv, IInv', RInv, [Next]_vars PROVE RInv'
      OBVIOUS
    <2>2. CASE OSS32_WaveSetHwParams
      <3>1. pc' = "refine" /\ stamps' = RulesOf(card) /\ fTryAgain' = FALSE /\ card' = card
        BY <2>2 DEF OSS32_WaveSetHwParams
      <3>2. /\ \A m \in {3, 4, 5, 6, 10, 11, 13, 14, 15, 17} : m \in stamps'
            /\ card'.period_sizes # {} => 16 \in stamps'
        BY <3>1, AllDue
      <3>3. Settled'
        BY <3>2 DEF Settled
      <3> QED BY <3>1, <3>3 DEF RInv
    <2>3. CASE snd_pcm_hw_refine
      <3>1. UNCHANGED <<card, pc, fTryAgain>> /\ pc \in {"refine", "params"} /\ stamps # {}
        BY <2>3 DEF snd_pcm_hw_refine
      <3>2. Ordered
        BY <2>1 DEF IInv
      <3>3. ~Empty
        BY <3>1, <3>2 DEF Ordered, Empty
      <3>4. pc = "refine" /\ ~Empty' => Settled'
        BY <2>1, <2>3, <3>2, <3>3, TurnSettled DEF RInv
      <3>5. pc = "params" /\ card.periods_min <= 2 => Offered'
        BY <2>1, <2>3, <3>2, TurnOffered DEF RInv, IInv
      <3> QED BY <2>1, <3>1, <3>4, <3>5 DEF RInv
    <2>4. CASE RefineFails \/ ParamsFail \/ DriverRefuses \/ snd_pcm_sw_params
      <3>1. pc' = "done"
        BY <2>4 DEF RefineFails, ParamsFail, DriverRefuses, snd_pcm_sw_params, Return
      <3> QED BY <3>1 DEF RInv
    <2>5. CASE ChooseSizes
      <3>1. card' = card /\ pc' \in {"params", "done"}
        BY <2>5 DEF ChooseSizes, SetParams, Return
      <3> QED BY <2>1, <2>5, <3>1, SizesOffered DEF RInv
    <2>6. CASE TryAgain
      <3>1. card' = card /\ pc' = "params"
        BY <2>6 DEF TryAgain, SetParams
      <3> QED BY <2>1, <2>6, <3>1, AgainOffered DEF RInv
    <2>7. CASE snd_pcm_hw_params
      <3>1. pc' = "sw"
        BY <2>7 DEF snd_pcm_hw_params
      <3> QED BY <3>1 DEF RInv
    <2>8. CASE UNCHANGED vars
      <3>1. UNCHANGED <<card, req, pc, params, stamps, k, size, fTryAgain, runtime, ret>>
        BY <2>8 DEF vars
      <3>2. (Settled' <=> Settled) /\ (Empty' <=> Empty)
        BY <3>1 DEF Settled, Empty
      <3>3. Offered => Offered'
        BY <3>1 DEF Offered, Suggested, InReach, Fits, Legal, Value
      <3> QED BY <2>1, <3>1, <3>2, <3>3 DEF RInv
    <2> QED BY <2>1, <2>2, <2>3, <2>4, <2>5, <2>6, <2>7, <2>8 DEF Next
  <1>3. IInv /\ RInv => RefusedForAReason
    <2>1. SUFFICES ASSUME IInv, RInv, GivenUp, ~(card.periods_min > 2) PROVE FALSE
      BY DEF RefusedForAReason
    <2>2. pc = "params" /\ Empty /\ (fTryAgain \/ ~PeriodCrossed)
      BY <2>1 DEF GivenUp
    <2>3. card.periods_min <= 2
      <3>1. card.periods_min \in Int
        BY <2>1, CardLimits DEF IInv, Ordered
      <3> QED BY <2>1, <3>1
    <2>4. Offered
      BY <2>1, <2>2, <2>3 DEF RInv
    <2>5. ~\A v \in Sizes : Has(params[v], Value(v, size.frames, size.periods))
      BY <2>2 DEF Empty, Has
    <2>6. Suggested
      BY <2>4, <2>5 DEF Offered
    <2> QED BY <2>2, <2>6 DEF Suggested, PeriodCrossed
  <1> QED BY <1>1, <1>2, <1>3, Invariance, PTL DEF Spec
=============================================================================
