---------------------------- MODULE PciBusProofs ----------------------------
(***************************************************************************)
(* For any drivers with disjoint id tables, any machine and any resources: *)
(* requests are made for the device being probed, a device holds all of    *)
(* its resources or none, the cards that were brought up keep theirs, and  *)
(* suspend, resume and shutdown reach exactly those cards, unless the      *)
(* device number of one of them is 0.                                      *)
(*                                                                         *)
(* None of this is inductive alone.  The invariant IInv adds which entry   *)
(* of the table a search uses, that no device is searched for twice (so    *)
(* that a search never meets grants left by an earlier one), and what the  *)
(* resource manager object knows about the grants of its device.           *)
(***************************************************************************)
EXTENDS PciBus, WellFoundedInduction, TLAPS

(* The devices whose search is over when st is the next step. *)
Searched(st) ==
  {d \in Ids : \/ \E j \in DOMAIN CardDrivers :
                    /\ d \in Range(IdTable[CardDrivers[j]])
                    /\ st.driver \in Cards => j < PlaceOf(st.driver)
               \/ \E j \in DOMAIN IdTable[st.driver] :
                    j < st.i /\ d = IdTable[st.driver][j]}

Busy == step.at \in {"search", "alloc", "probe"}

(* The card that was brought up has devfn 0, and its entry counts as free. *)
Skipped == cards \cap origin # {}

(* A card driver uses the first entry, its companion the second, or the     *)
(* first again if the card's counts as free.                                *)
Entry == IF step.driver \in Cards \/ Skipped THEN 1 ELSE 2

(* No card has been brought up yet. *)
Early == step.at \in {"modules", "failed"} \/ (Busy /\ step.driver \in Cards)

StepOK ==
  /\ Busy => step.driver \in Drivers /\ step.i \in Nat \ {0}
  /\ step.at \in {"alloc", "probe"} =>
       /\ step.i \in DOMAIN IdTable[step.driver] /\ step.slot = Entry
       /\ Device = Wanted
       /\ object.dev = Wanted /\ Held(Wanted) = object.held

(* What the object knows of the device's own resources. *)
ObjectOK ==
  /\ step.at = "alloc" =>
       /\ step.saved = None /\ step.todo \subseteq Bars[Wanted]
       /\ object.held = Bars[Wanted] \ step.todo
       /\ object.resources = object.held
  /\ step.at = "probe" =>
       /\ Bars[Wanted] \subseteq object.resources
       /\ Wanted \in shorted \/ Bars[Wanted] \subseteq object.held

(* The entry a driver is at work on is in use from the beginning of the     *)
(* probe, unless the device has devfn 0.                                    *)
EntryOK ==
  Busy => (pci_devices[Entry].used <=> step.at = "probe"
                                         /\ pci_devices[Entry].id \notin origin)

(* The device table after a card was found: the card first and what its     *)
(* companion left second ...                                                *)
MarkedOK ==
  /\ pci_devices[1].used /\ pci_devices[1].data = pci_devices[1].id
  /\ pci_devices[1].driver \in Cards
  /\ pci_devices[1].id \in Range(IdTable[pci_devices[1].driver])
  /\ cards = {pci_devices[1].id}
  /\ pci_devices[2].data = None /\ pci_devices[2].driver \notin Cards
  /\ \A v \in Cards : pci_devices[2].id \notin Range(IdTable[v])
  /\ pci_devices[2].used => step.at = "probe" \/ pci_devices[2].driver # None
  /\ pci_devices[2].driver # None => step.at = "up"
  /\ \A s \in 3 .. Slots : pci_devices[s] = Empty

(* ... or, with devfn 0, both in the first entry, one after the other.      *)
SkippedOK ==
  /\ pci_devices[1].driver # None
  /\ step.at = "up" => ~pci_devices[1].used \/ pci_devices[1].driver \notin Cards
  /\ \A s \in 2 .. Slots : ~pci_devices[s].used

(* Before that, it is all free. *)
TableOK ==
  IF Early
  THEN /\ cards = {} /\ removed = {}
       /\ \A s \in 1 .. Slots : pci_devices[s].driver = None /\ pci_devices[s].data = None
       /\ \A s \in 2 .. Slots : ~pci_devices[s].used /\ pci_devices[s].id = None
       /\ ~Busy => ~pci_devices[1].used
  ELSE step.at # "down" =>
       /\ \E c \in Ids, v \in Cards : cards = {c} /\ c \in Range(IdTable[v])
       /\ IF Skipped THEN SkippedOK ELSE MarkedOK

(* No device holds anything or has a card before its search. *)
NotYet ==
  /\ step.at = "modules" => \A d \in Ids : Held(d) = {}
  /\ Busy => \A d \in Ids : Held(d) # {} \/ d \in cards =>
                \/ d \in Searched(step)
                \/ step.at \in {"alloc", "probe"} /\ d = Wanted

(* What suspend and resume did to the cards, and shutdown. *)
AsleepOK ==
  /\ suspended => step.at \in {"up", "down"}
  /\ ~Skipped => asleep = IF suspended
                          THEN {c \in cards : \E v \in PowerManaged : c \in Range(IdTable[v])}
                          ELSE {}
RemovedOK == ~Skipped => RemovedOnce

IInv == /\ TypeOK /\ StepOK /\ EntryOK /\ ObjectOK /\ HandleMatchesProbe /\ TableOK
        /\ NotYet /\ AllOrNone /\ CardHoldsResources /\ AsleepOK /\ RemovedOK

(***************************************************************************)
(* The constants.                                                          *)
(***************************************************************************)

(* A set of naturals that is not empty has a least element. *)
LEMMA LeastOf ==
  ASSUME NEW S \in SUBSET Nat, S # {}
  PROVE  \E n \in S : \A m \in S : n <= m
  <1>1. PICK n \in S : \A m \in S : ~ (<<m, n>> \in OpToRel(<, Nat))
    BY NatLessThanWellFounded, WFMin, Zenon
  <1>2. \A m \in S : ~ (m < n)
    BY <1>1 DEF OpToRel
  <1> QED BY <1>2

(* Every driver has a place in the order they are tried in. *)
LEMMA Places ==
  /\ DOMAIN CardDrivers \subseteq Nat \ {0}
  /\ \A j \in DOMAIN CardDrivers : CardDrivers[j] \in Cards /\ PlaceOf(CardDrivers[j]) = j
  /\ \A v \in Cards : PlaceOf(v) \in DOMAIN CardDrivers /\ CardDrivers[PlaceOf(v)] = v
  /\ Cards \subseteq Drivers /\ None \notin Drivers /\ None \notin Ids
  <1>1. /\ DOMAIN CardDrivers \subseteq Nat \ {0} /\ Cards \subseteq Drivers
        /\ None \notin Drivers /\ None \notin Ids
    BY PciAssumption DEF Cards
  <1>2. ASSUME NEW v \in Cards
        PROVE  PlaceOf(v) \in DOMAIN CardDrivers /\ CardDrivers[PlaceOf(v)] = v
    <2>1. \E k \in DOMAIN CardDrivers : CardDrivers[k] = v
      BY DEF Cards
    <2> QED BY <2>1 DEF PlaceOf
  <1>3. ASSUME NEW j \in DOMAIN CardDrivers
        PROVE  CardDrivers[j] \in Cards /\ PlaceOf(CardDrivers[j]) = j
    <2>1. CardDrivers[j] \in Cards
      BY DEF Cards
    <2> QED BY <1>2, <2>1, PciAssumption DEF IsInjective
  <1> QED BY <1>1, <1>2, <1>3

(* The next driver to try comes later in the order. *)
LEMMA NextToTry ==
  ASSUME NEW k \in Nat
  PROVE  \/ TryAfter(k) = At("failed", None, 0)
         \/ \E j \in DOMAIN CardDrivers : j > k /\ TryAfter(k) = At("search", CardDrivers[j], 1)
  <1>1. CASE ToTry(k) = {}
    BY <1>1 DEF TryAfter
  <1>2. CASE ToTry(k) # {}
    <2>1. ToTry(k) \subseteq DOMAIN CardDrivers /\ \A j \in ToTry(k) : j > k
      BY DEF ToTry
    <2>2. ToTry(k) \in SUBSET Nat
      BY <2>1, Places
    <2>3. \E j \in ToTry(k) : \A l \in ToTry(k) : j <= l
      BY <1>2, <2>2, LeastOf
    <2> DEFINE first == CHOOSE j \in ToTry(k) : \A l \in ToTry(k) : j <= l
    <2>4. first \in ToTry(k)
      BY <2>3
    <2>5. TryAfter(k) = At("search", CardDrivers[first], 1)
      BY <1>2 DEF TryAfter
    <2> QED BY <2>1, <2>4, <2>5
  <1> QED BY <1>1, <1>2

(* Id tables are sequences of ids, and each device is in one place only. *)
LEMMA Tables ==
  ASSUME NEW v \in Drivers
  PROVE  /\ IdTable[v] \in Seq(Ids) /\ Len(IdTable[v]) \in Nat
         /\ DOMAIN IdTable[v] = 1 .. Len(IdTable[v])
         /\ \A i \in DOMAIN IdTable[v] : IdTable[v][i] \in Ids /\ IdTable[v][i] \in Range(IdTable[v])
         /\ \A i, j \in DOMAIN IdTable[v] : IdTable[v][i] = IdTable[v][j] => i = j
         /\ \A w \in Drivers : w # v => \A i \in DOMAIN IdTable[v] : IdTable[v][i] \notin Range(IdTable[w])
  <1>1. IdTable[v] \in Seq(Ids) /\ IsInjective(IdTable[v])
    BY PciAssumption
  <1>2. \A i \in DOMAIN IdTable[v] : IdTable[v][i] \in Range(IdTable[v])
    BY DEF Range
  <1>3. \A w \in Drivers : w # v => Range(IdTable[v]) \cap Range(IdTable[w]) = {}
    BY PciAssumption
  <1> QED BY <1>1, <1>2, <1>3 DEF IsInjective

(* A device is searched for once: the next one is not among those before it. *)
LEMMA SearchedOnce ==
  ASSUME step.driver \in Drivers, step.i \in DOMAIN IdTable[step.driver]
  PROVE  Wanted \in Ids /\ Wanted \notin Searched(step)
  <1> DEFINE v == step.driver
  <1>1. Wanted \in Ids /\ Wanted = IdTable[v][step.i]
    BY Tables DEF Wanted
  <1>2. ASSUME NEW j \in DOMAIN CardDrivers, v \in Cards => j < PlaceOf(v)
        PROVE  Wanted \notin Range(IdTable[CardDrivers[j]])
    <2>1. CardDrivers[j] \in Cards /\ PlaceOf(CardDrivers[j]) = j /\ j \in Nat
      BY Places
    <2>2. CardDrivers[j] # v
      BY <1>2, <2>1
    <2>3. CardDrivers[j] \in Drivers
      BY <2>1, Places
    <2> QED BY <1>1, <2>2, <2>3, Tables
  <1>3. ASSUME NEW j \in DOMAIN IdTable[v], j < step.i
        PROVE  Wanted # IdTable[v][j]
    <2>1. j # step.i
      BY <1>3, Tables
    <2> QED BY <1>1, <2>1, Tables
  <1> QED BY <1>1, <1>2, <1>3 DEF Searched

(* The search for the next entry of the table has all that and this one     *)
(* behind it.                                                               *)
LEMMA SearchedNext ==
  ASSUME step.driver \in Drivers, step.i \in DOMAIN IdTable[step.driver]
  PROVE  Searched(step) \cup {Wanted} \subseteq Searched(At("search", step.driver, step.i + 1))
  <1>1. step.i \in Nat /\ DOMAIN IdTable[step.driver] \subseteq Nat
    BY Tables
  <1>2. \A j \in DOMAIN IdTable[step.driver] : j < step.i => j < step.i + 1
    BY <1>1
  <1>3. step.i < step.i + 1 /\ Wanted \in Ids /\ Wanted = IdTable[step.driver][step.i]
    BY <1>1, Tables DEF Wanted
  <1> QED BY <1>2, <1>3 DEF Searched, At

(* So has the search for the next driver's cards ... *)
LEMMA SearchedTable ==
  ASSUME step.driver \in Cards, step.i > Len(IdTable[step.driver]),
         NEW j \in DOMAIN CardDrivers, j > PlaceOf(step.driver)
  PROVE  Searched(step) \subseteq Searched(At("search", CardDrivers[j], 1))
  <1>0. /\ PlaceOf(CardDrivers[j]) = j /\ CardDrivers[j] \in Cards /\ j \in Nat
        /\ PlaceOf(step.driver) \in DOMAIN CardDrivers
        /\ CardDrivers[PlaceOf(step.driver)] = step.driver
        /\ PlaceOf(step.driver) \in Nat
    BY Places
  <1> SUFFICES ASSUME NEW d \in Searched(step)
               PROVE  d \in Searched(At("search", CardDrivers[j], 1))
    OBVIOUS
  <1>1. d \in Ids
    BY DEF Searched
  <1>2. PICK k \in DOMAIN CardDrivers : d \in Range(IdTable[CardDrivers[k]]) /\ k < j
    <2>1. CASE \E k \in DOMAIN CardDrivers : /\ d \in Range(IdTable[CardDrivers[k]])
                                             /\ k < PlaceOf(step.driver)
      <3>1. PICK k \in DOMAIN CardDrivers : /\ d \in Range(IdTable[CardDrivers[k]])
                                            /\ k < PlaceOf(step.driver)
        BY <2>1
      <3>2. k \in Nat
        BY Places
      <3>3. k < j
        BY <1>0, <3>1, <3>2
      <3> QED BY <3>1, <3>3
    <2>2. CASE \E k \in DOMAIN IdTable[step.driver] : d = IdTable[step.driver][k]
      <3>1. d \in Range(IdTable[step.driver])
        BY <2>2 DEF Range
      <3> QED BY <1>0, <3>1
    <2> QED BY <2>1, <2>2 DEF Searched
  <1> QED BY <1>0, <1>1, <1>2 DEF Searched, At

(* ... and the search for a companion after its card was found. *)
LEMMA SearchedCompanion ==
  ASSUME step.driver \in Cards, step.i \in DOMAIN IdTable[step.driver],
         NEW w \in Drivers \ Cards
  PROVE  Searched(step) \cup {Wanted} \subseteq Searched(At("search", w, 1))
  <1>0. /\ PlaceOf(step.driver) \in DOMAIN CardDrivers
        /\ CardDrivers[PlaceOf(step.driver)] = step.driver
        /\ step.driver \in Drivers
    BY Places
  <1>1. Wanted \in Ids /\ Wanted \in Range(IdTable[step.driver])
    BY <1>0, Tables DEF Wanted
  <1>2. ASSUME NEW k \in DOMAIN IdTable[step.driver]
        PROVE  IdTable[step.driver][k] \in Range(IdTable[CardDrivers[PlaceOf(step.driver)]])
    BY <1>0 DEF Range
  <1> QED BY <1>0, <1>1, <1>2 DEF Searched, At

(***************************************************************************)
(* The search.                                                             *)
(***************************************************************************)
Devices == [id : Ids \cup {None}, used : BOOLEAN,
            driver : Drivers \cup {None}, data : Ids \cup {None}]

(* The resources of d in a record g of grants. *)
HeldBy(g, d) == {r \in Resources : <<d, r>> \in g}

(* There is always a free entry, and a search uses the one its driver has. *)
LEMMA FirstFreeIsEntry ==
  ASSUME IInv, step.at = "search"
  PROVE  FreeSlots # {} /\ FirstFree = Entry /\ Entry \in FreeSlots
  <1>0. /\ Slots \in Nat /\ Slots >= 2 /\ FreeSlots \subseteq 1 .. Slots
        /\ \A s \in 1 .. Slots : s \in FreeSlots <=> ~pci_devices[s].used
    BY PciAssumption DEF FreeSlots
  <1>1. Entry \in FreeSlots /\ \A t \in FreeSlots : Entry <= t
    <2>0. Busy /\ ~pci_devices[Entry].used
      BY DEF IInv, EntryOK, Busy
    <2>1. CASE step.driver \in Cards \/ Skipped
      <3>1. Entry = 1 /\ ~pci_devices[1].used
        BY <2>0, <2>1 DEF Entry
      <3> QED BY <1>0, <3>1
    <2>2. CASE step.driver \notin Cards /\ ~Skipped
      <3>1. Entry = 2 /\ ~pci_devices[2].used
        BY <2>0, <2>2 DEF Entry
      <3>4. pci_devices[1].used
        BY <2>0, <2>2 DEF IInv, TableOK, MarkedOK, Early, Busy
      <3>2. 1 \notin FreeSlots /\ 2 \in FreeSlots
        BY <1>0, <3>1, <3>4
      <3>3. \A t \in FreeSlots : t \in Nat /\ t # 0 /\ t # 1
        BY <1>0, <3>2
      <3> QED BY <3>1, <3>2, <3>3
    <2> QED BY <2>1, <2>2
  <1>2. FirstFree \in FreeSlots /\ \A t \in FreeSlots : FirstFree <= t
    BY <1>1 DEF FirstFree
  <1>3. Entry \in Nat /\ FirstFree \in Nat
    BY <1>0, <1>1, <1>2
  <1>4. Entry <= FirstFree /\ FirstFree <= Entry
    BY <1>1, <1>2
  <1> QED BY <1>1, <1>3, <1>4

(* What holds while a driver is at work on an entry of its table. *)
LEMMA AtWork ==
  ASSUME IInv, Busy, step.i \in DOMAIN IdTable[step.driver]
  PROVE  /\ step.driver \in Drivers /\ step.i \in Nat \ {0} /\ Wanted \in Ids
         /\ Wanted \notin Searched(step) /\ Wanted \notin cards
         /\ Entry \in 1 .. Slots /\ Entry \in {1, 2} /\ 1 \in 1 .. Slots /\ 2 \in 1 .. Slots
         /\ Wanted \in Range(IdTable[step.driver])
         /\ step.driver \notin Cards => \A v \in Cards : Wanted \notin Range(IdTable[v])
         /\ Early <=> step.driver \in Cards
  <1>1. step.driver \in Drivers /\ step.i \in Nat \ {0}
    BY DEF IInv, StepOK
  <1>2. /\ Wanted \in Ids /\ Wanted \notin Searched(step)
        /\ Wanted \in Range(IdTable[step.driver])
    BY <1>1, SearchedOnce, Tables DEF Wanted
  <1>3. 1 \in 1 .. Slots /\ 2 \in 1 .. Slots
    BY PciAssumption
  <1>4. Entry \in 1 .. Slots /\ Entry \in {1, 2}
    BY <1>3 DEF Entry
  <1>5. step.driver \notin Cards => \A v \in Cards : Wanted \notin Range(IdTable[v])
    BY <1>1, Tables, Places DEF Wanted
  <1>6. Early <=> step.driver \in Cards
    BY DEF Early, Busy
  <1>7. Wanted \notin cards
    <2>1. CASE step.driver \in Cards
      BY <1>6, <2>1 DEF IInv, TableOK
    <2>2. CASE step.driver \notin Cards
      <3>1. TableOK /\ ~Early /\ step.at # "down"
        BY <1>6, <2>2 DEF IInv, Busy
      <3>2. \E c \in Ids, v \in Cards : cards = {c} /\ c \in Range(IdTable[v])
        BY <3>1 DEF TableOK
      <3> QED BY <1>5, <2>2, <3>2
    <2> QED BY <2>1, <2>2
  <1> QED BY <1>1, <1>2, <1>3, <1>4, <1>5, <1>6, <1>7

(* A search or a probe that failed goes on to the next id: the entry is     *)
(* free, the object is gone, and the device holds nothing or all it needs.  *)
LEMMA BackToSearch ==
  ASSUME IInv, Busy, step.i \in DOMAIN IdTable[step.driver],
         step' = At("search", step.driver, step.i + 1),
         object' = NoObject, hResMgr' = None,
         UNCHANGED <<machine, cards, removed, asleep, suspended, shorted>>,
         pci_devices' \in [1 .. Slots -> Devices],
         \A t \in 1 .. Slots : t # Entry => pci_devices'[t] = pci_devices[t],
         /\ pci_devices'[Entry].driver = pci_devices[Entry].driver
         /\ pci_devices'[Entry].data = pci_devices[Entry].data
         /\ pci_devices'[Entry].id = Wanted /\ pci_devices'[Entry].used = FALSE,
         allocated' \subseteq Ids \X Resources,
         \A d \in Ids : d # Wanted => HeldBy(allocated', d) = Held(d),
         \/ HeldBy(allocated', Wanted) = {} \/ Wanted \in shorted
         \/ Bars[Wanted] \subseteq HeldBy(allocated', Wanted)
  PROVE  IInv'
  <1>b. ASSUME NEW d PROVE Held(d)' = HeldBy(allocated', d)
    BY DEF Held, HeldBy
  <1>0. /\ step'.at = "search" /\ step'.driver = step.driver /\ step'.i = step.i + 1
        /\ step.i \in Nat /\ step.driver \in Drivers /\ Entry' = Entry /\ Busy'
        /\ Wanted \in Ids /\ Skipped' = Skipped
        /\ Early' <=> Early
    BY AtWork DEF At, Entry, Busy, Early, Skipped, machine
  <1>a. /\ Early <=> step.driver \in Cards
        /\ step.driver \notin Cards => \A v \in Cards : Wanted \notin Range(IdTable[v])
    BY AtWork
  <1>1. TypeOK'
    <2>1. step' \in [at : {"modules", "search", "alloc", "probe", "up", "failed", "down"},
               driver : Drivers \cup {None}, i : Nat, slot : 0 .. Slots,
               todo : SUBSET Resources, saved : Ids \cup {None}]
      BY <1>0, PciAssumption DEF At
    <2> QED BY <2>1 DEF IInv, TypeOK, NoObject, machine, Devices
  <1>2. StepOK' /\ EntryOK' /\ ObjectOK' /\ HandleMatchesProbe'
    BY <1>0 DEF StepOK, EntryOK, ObjectOK, HandleMatchesProbe, Busy
  <1>3. TableOK'
    <2>0. TableOK /\ step.at # "down"
      BY DEF IInv, Busy
    <2>1. CASE step.driver \in Cards
      <3>1. Early /\ Early' /\ Entry = 1 /\ Busy'
        BY <1>0, <1>a, <2>1 DEF Entry
      <3>2. \A s \in 2 .. Slots : s \in 1 .. Slots /\ s # 1
        BY PciAssumption
      <3>3. \A s \in 1 .. Slots : pci_devices'[s].driver = None /\ pci_devices'[s].data = None
        BY <2>0, <3>1 DEF TableOK
      <3>4. \A s \in 2 .. Slots : ~pci_devices'[s].used /\ pci_devices'[s].id = None
        BY <2>0, <3>1, <3>2 DEF TableOK
      <3>5. cards' = {} /\ removed' = {}
        BY <2>0, <3>1 DEF TableOK
      <3> QED BY <3>1, <3>3, <3>4, <3>5 DEF TableOK
    <2>2. CASE step.driver \notin Cards /\ ~Skipped
      <3>1. ~Early /\ ~Early' /\ Entry = 2 /\ 1 \in 1 .. Slots /\ ~Skipped'
        BY <1>0, <1>a, <2>2, PciAssumption DEF Entry
      <3>2. \A s \in 3 .. Slots : s \in 1 .. Slots /\ s # 2
        BY PciAssumption
      <3>0. MarkedOK /\ \E c \in Ids, v \in Cards : cards = {c} /\ c \in Range(IdTable[v])
        BY <2>0, <2>2, <3>1 DEF TableOK
      <3>3. pci_devices'[1] = pci_devices[1]
        BY <3>1
      <3>4. \A s \in 3 .. Slots : pci_devices'[s] = Empty
        BY <3>0, <3>1, <3>2 DEF MarkedOK
      <3>5. pci_devices[2].driver = None /\ pci_devices[2].data = None /\ cards = {pci_devices[1].id}
        BY <2>0, <3>0 DEF MarkedOK, Busy
      <3>6. None \notin Cards
        BY Places
      <3>7. MarkedOK'
        BY <1>0, <1>a, <2>2, <3>0, <3>1, <3>3, <3>4, <3>5, <3>6 DEF MarkedOK
      <3> QED BY <3>0, <3>1, <3>7 DEF TableOK
    <2>3. CASE step.driver \notin Cards /\ Skipped
      <3>1. ~Early /\ ~Early' /\ Entry = 1 /\ Skipped'
        BY <1>0, <1>a, <2>3 DEF Entry
      <3>2. \A s \in 2 .. Slots : s \in 1 .. Slots /\ s # 1
        BY PciAssumption
      <3>3. SkippedOK /\ \E c \in Ids, v \in Cards : cards = {c} /\ c \in Range(IdTable[v])
        BY <2>0, <2>3, <3>1 DEF TableOK
      <3>4. SkippedOK'
        BY <1>0, <3>1, <3>2, <3>3 DEF SkippedOK
      <3> QED BY <3>1, <3>3, <3>4 DEF TableOK
    <2> QED BY <2>1, <2>2, <2>3
  <1>4. NotYet'
    <2>1. Searched(step) \cup {Wanted} \subseteq Searched(step')
      BY <1>0, SearchedNext
    <2>2. ASSUME NEW d \in Ids, Held(d)' # {} \/ d \in cards'
          PROVE  d \in Searched(step')
      <3>1. CASE d = Wanted
        BY <2>1, <3>1
      <3>2. CASE d # Wanted
        <4>1. Held(d) # {} \/ d \in cards
          BY <1>b, <2>2, <3>2
        <4>2. d \in Searched(step)
          BY <3>2, <4>1 DEF IInv, NotYet
        <4> QED BY <2>1, <4>2
      <3> QED BY <3>1, <3>2
    <2>3. (\A d \in Ids : Held(d) # {} \/ d \in cards => d \in Searched(step))'
      BY <2>2 DEF Searched
    <2> QED BY <1>0, <2>3 DEF NotYet
  <1>5. AllOrNone'
    <2>1. ASSUME NEW d \in Ids
          PROVE  Held(d)' = {} \/ Bars[d] \subseteq Held(d)' \/ d \in shorted
      <3>1. CASE d = Wanted
        BY <1>b, <3>1
      <3>2. CASE d # Wanted
        <4>1. Held(d)' = Held(d)
          BY <1>b, <3>2
        <4>2. \/ Held(d) = {} \/ Bars[d] \subseteq Held(d) \/ d \in shorted
              \/ step.at = "alloc" /\ object.dev = d
          BY DEF IInv, AllOrNone
        <4>3. step.at = "alloc" => object.dev = Wanted
          BY DEF IInv, StepOK
        <4> QED BY <3>2, <4>1, <4>2, <4>3
      <3> QED BY <3>1, <3>2
    <2> QED BY <2>1 DEF AllOrNone
  <1>6. CardHoldsResources'
    <2>1. Wanted \notin cards /\ cards \subseteq Ids
      BY AtWork DEF IInv, TypeOK
    <2>2. \A c \in cards \ shorted : Held(c)' = Held(c) /\ Bars[c] \subseteq Held(c)
      BY <1>b, <2>1 DEF IInv, CardHoldsResources
    <2> QED BY <2>2 DEF CardHoldsResources
  <1>7. AsleepOK'
    BY <1>0 DEF IInv, AsleepOK, Busy
  <1>8. RemovedOK'
    BY <1>0 DEF RemovedOK, RemovedOnce
  <1> QED BY <1>1, <1>2, <1>3, <1>4, <1>5, <1>6, <1>7, <1>8 DEF IInv

(* A step of the search or the probe of one device. *)
LEMMA StaysAtWork ==
  ASSUME IInv, Busy, step.i \in DOMAIN IdTable[step.driver],
         NEW w \in {"alloc", "probe"}, NEW T \in SUBSET Resources, NEW z \in Ids \cup {None},
         step' = [at |-> w, driver |-> step.driver, i |-> step.i, slot |-> Entry,
                  todo |-> T, saved |-> z],
         UNCHANGED <<machine, cards, removed, asleep, suspended>>,
         shorted' \subseteq Ids, shorted \subseteq shorted',
         pci_devices' \in [1 .. Slots -> Devices],
         \A t \in 1 .. Slots : t # Entry => pci_devices'[t] = pci_devices[t],
         /\ pci_devices'[Entry].driver = pci_devices[Entry].driver
         /\ pci_devices'[Entry].data = pci_devices[Entry].data
         /\ pci_devices'[Entry].id = Wanted
         /\ pci_devices'[Entry].used <=> w = "probe" /\ Wanted \notin origin,
         NEW H \in SUBSET Resources, NEW R \in SUBSET Resources,
         object' = [dev |-> Wanted, held |-> H, resources |-> R],
         allocated' \subseteq Ids \X Resources,
         \A d \in Ids : d # Wanted => HeldBy(allocated', d) = Held(d),
         HeldBy(allocated', Wanted) = H,
         w = "alloc" => /\ z = None /\ hResMgr' = None /\ T \subseteq Bars[Wanted]
                        /\ H = Bars[Wanted] \ T /\ R = H,
         w = "probe" => /\ hResMgr' = Wanted /\ Bars[Wanted] \subseteq R
                        /\ Wanted \in shorted' \/ Bars[Wanted] \subseteq H
  PROVE  IInv'
  <1>b. ASSUME NEW d PROVE Held(d)' = HeldBy(allocated', d)
    BY DEF Held, HeldBy
  <1>0. /\ step'.at = w /\ step'.driver = step.driver /\ step'.i = step.i
        /\ step'.slot = Entry /\ step'.todo = T /\ step'.saved = z
        /\ step.i \in Nat \ {0} /\ step.driver \in Drivers /\ Entry' = Entry /\ Busy'
        /\ Wanted \in Ids /\ Wanted' = Wanted /\ Entry \in 1 .. Slots
        /\ object'.dev = Wanted /\ object'.held = H /\ object'.resources = R
        /\ Skipped' = Skipped /\ origin' = origin
    BY AtWork DEF Entry, Busy, Wanted, Skipped, machine
  <1>a. /\ Early <=> step.driver \in Cards
        /\ Early' <=> step.driver \in Cards
        /\ step.driver \notin Cards => \A v \in Cards : Wanted \notin Range(IdTable[v])
    BY <1>0, AtWork DEF Early, Busy
  <1>1. TypeOK'
    <2>1. step' \in [at : {"modules", "search", "alloc", "probe", "up", "failed", "down"},
               driver : Drivers \cup {None}, i : Nat, slot : 0 .. Slots,
               todo : SUBSET Resources, saved : Ids \cup {None}]
      <3>1. Entry \in 0 .. Slots
        BY <1>0, PciAssumption
      <3> QED BY <1>0, <3>1
    <2>2. object' \in [dev : Ids \cup {None}, held : SUBSET Resources,
                       resources : SUBSET Resources]
      BY <1>0
    <2>3. hResMgr' \in Ids \cup {None}
      BY <1>0
    <2> QED BY <2>1, <2>2, <2>3 DEF IInv, TypeOK, machine, Devices
  <1>2. /\ Device' = Wanted
    BY <1>0 DEF Device
  <1>3. Held(Wanted)' = H
    <2>1. PICK d : d = Wanted
      OBVIOUS
    <2>2. Held(d)' = H
      BY <1>b, <2>1
    <2>3. Held(Wanted)' = {r \in Resources : <<Wanted', r>> \in allocated'}
      BY DEF Held
    <2> QED BY <1>0, <2>1, <2>2, <2>3 DEF Held
  <1>4. StepOK' /\ EntryOK'
    BY <1>0, <1>2, <1>3 DEF StepOK, EntryOK
  <1>5. ObjectOK'
    BY <1>0 DEF ObjectOK
  <1>6. HandleMatchesProbe'
    BY <1>0, <1>2 DEF HandleMatchesProbe
  <1>7. TableOK'
    <2>0. TableOK /\ step.at # "down" /\ step.at # "up"
      BY DEF IInv, Busy
    <2>1. CASE step.driver \in Cards
      <3>1. Early /\ Early' /\ Entry = 1 /\ Busy'
        BY <1>0, <1>a, <2>1 DEF Entry
      <3>2. \A s \in 2 .. Slots : s \in 1 .. Slots /\ s # 1
        BY PciAssumption
      <3>3. \A s \in 1 .. Slots : pci_devices'[s].driver = None /\ pci_devices'[s].data = None
        BY <2>0, <3>1 DEF TableOK
      <3>4. \A s \in 2 .. Slots : ~pci_devices'[s].used /\ pci_devices'[s].id = None
        BY <2>0, <3>1, <3>2 DEF TableOK
      <3>5. cards' = {} /\ removed' = {}
        BY <2>0, <3>1 DEF TableOK
      <3> QED BY <3>1, <3>3, <3>4, <3>5 DEF TableOK
    <2>2. CASE step.driver \notin Cards /\ ~Skipped
      <3>1. ~Early /\ ~Early' /\ Entry = 2 /\ 1 \in 1 .. Slots /\ ~Skipped'
        BY <1>0, <1>a, <2>2, PciAssumption DEF Entry
      <3>2. \A s \in 3 .. Slots : s \in 1 .. Slots /\ s # 2
        BY PciAssumption
      <3>0. MarkedOK /\ \E c \in Ids, v \in Cards : cards = {c} /\ c \in Range(IdTable[v])
        BY <2>0, <2>2, <3>1 DEF TableOK
      <3>3. pci_devices'[1] = pci_devices[1]
        BY <3>1
      <3>4. \A s \in 3 .. Slots : pci_devices'[s] = Empty
        BY <3>0, <3>1, <3>2 DEF MarkedOK
      <3>5. pci_devices[2].driver = None /\ pci_devices[2].data = None /\ cards = {pci_devices[1].id}
        BY <2>0, <3>0 DEF MarkedOK, Busy
      <3>6. None \notin Cards
        BY Places
      <3>7. MarkedOK'
        BY <1>0, <1>a, <2>2, <3>0, <3>1, <3>3, <3>4, <3>5, <3>6 DEF MarkedOK
      <3> QED BY <3>0, <3>1, <3>7 DEF TableOK
    <2>3. CASE step.driver \notin Cards /\ Skipped
      <3>1. ~Early /\ ~Early' /\ Entry = 1 /\ Skipped'
        BY <1>0, <1>a, <2>3 DEF Entry
      <3>2. \A s \in 2 .. Slots : s \in 1 .. Slots /\ s # 1
        BY PciAssumption
      <3>3. SkippedOK /\ \E c \in Ids, v \in Cards : cards = {c} /\ c \in Range(IdTable[v])
        BY <2>0, <2>3, <3>1 DEF TableOK
      <3>4. SkippedOK'
        BY <1>0, <3>1, <3>2, <3>3 DEF SkippedOK
      <3> QED BY <3>1, <3>3, <3>4 DEF TableOK
    <2> QED BY <2>1, <2>2, <2>3
  <1>8. NotYet'
    <2>1. Searched(step') = Searched(step)
      BY <1>0 DEF Searched
    <2>2. ASSUME NEW d \in Ids, Held(d)' # {} \/ d \in cards'
          PROVE  d \in Searched(step') \/ d = Wanted
      <3>1. SUFFICES ASSUME d # Wanted PROVE d \in Searched(step')
        OBVIOUS
      <3>2. Held(d) # {} \/ d \in cards
        BY <1>b, <2>2, <3>1
      <3> QED BY <2>1, <3>1, <3>2 DEF IInv, NotYet
    <2>3. (\A d \in Ids : Held(d) # {} \/ d \in cards => d \in Searched(step) \/ d = Wanted)'
      BY <1>0, <2>2 DEF Searched
    <2> QED BY <1>0, <2>3 DEF NotYet
  <1>9. AllOrNone'
    <2>1. ASSUME NEW d \in Ids
          PROVE  \/ Held(d)' = {} \/ Bars[d] \subseteq Held(d)' \/ d \in shorted'
                 \/ step'.at = "alloc" /\ object'.dev = d
      <3>1. CASE d = Wanted
        BY <1>0, <1>b, <3>1
      <3>2. CASE d # Wanted
        <4>1. Held(d)' = Held(d)
          BY <1>b, <3>2
        <4>2. \/ Held(d) = {} \/ Bars[d] \subseteq Held(d) \/ d \in shorted
              \/ step.at = "alloc" /\ object.dev = d
          BY DEF IInv, AllOrNone
        <4>3. step.at = "alloc" => object.dev = Wanted
          BY DEF IInv, StepOK
        <4> QED BY <3>2, <4>1, <4>2, <4>3
      <3> QED BY <3>1, <3>2
    <2> QED BY <2>1 DEF AllOrNone
  <1>10. CardHoldsResources'
    <2>1. Wanted \notin cards /\ cards \subseteq Ids
      BY AtWork DEF IInv, TypeOK
    <2>2. \A c \in cards \ shorted : Held(c)' = Held(c) /\ Bars[c] \subseteq Held(c)
      BY <1>b, <2>1 DEF IInv, CardHoldsResources
    <2> QED BY <2>2 DEF CardHoldsResources
  <1>11. AsleepOK' /\ RemovedOK'
    BY <1>0 DEF IInv, AsleepOK, RemovedOK, RemovedOnce, Busy
  <1> QED BY <1>1, <1>4, <1>5, <1>6, <1>7, <1>8, <1>9, <1>10, <1>11 DEF IInv

(* What is read out of the invariant at the start of most proofs. *)
LEMMA Parts ==
  ASSUME IInv
  PROVE  /\ pci_devices \in [1 .. Slots -> Devices] /\ allocated \subseteq Ids \X Resources
         /\ object \in [dev : Ids \cup {None}, held : SUBSET Resources,
                        resources : SUBSET Resources]
         /\ step.todo \subseteq Resources /\ shorted \subseteq Ids
         /\ hResMgr \in Ids \cup {None}
         /\ \A d : HeldBy(allocated, d) = Held(d)
  BY DEF IInv, TypeOK, Devices, HeldBy, Held

(* A search for a device the machine does not have. *)
LEMMA SearchAbsentIInv ==
  ASSUME IInv, SearchAbsent
  PROVE  IInv'
  <1>1. /\ step.at = "search" /\ Busy /\ step.i \in DOMAIN IdTable[step.driver]
    <2>1. step.at = "search" /\ Busy /\ step.i <= Len(IdTable[step.driver])
      BY DEF SearchAbsent, Searching, Busy
    <2>2. step.driver \in Drivers /\ step.i \in Nat \ {0}
      BY <2>1 DEF IInv, StepOK
    <2> QED BY <2>1, <2>2, Tables
  <1>2. pci_devices' = [pci_devices EXCEPT ![Entry].id = Wanted] /\ allocated' = allocated
    BY <1>1, FirstFreeIsEntry DEF SearchAbsent, Enter
  <1>3. pci_devices' \in [1 .. Slots -> Devices]
    BY <1>1, <1>2, AtWork, Parts DEF Devices
  <1>4. /\ \A t \in 1 .. Slots : t # Entry => pci_devices'[t] = pci_devices[t]
        /\ pci_devices'[Entry].driver = pci_devices[Entry].driver
        /\ pci_devices'[Entry].data = pci_devices[Entry].data
        /\ pci_devices'[Entry].id = Wanted
        /\ pci_devices'[Entry].used = pci_devices[Entry].used
    BY <1>1, <1>2, AtWork, Parts DEF Devices
  <1>5. pci_devices[Entry].used = FALSE
    <2>1. Entry \in FreeSlots
      BY <1>1, FirstFreeIsEntry
    <2>2. Entry \in 1 .. Slots /\ pci_devices[Entry].used \in BOOLEAN
      BY <1>1, AtWork, Parts DEF Devices
    <2> QED BY <2>1, <2>2 DEF FreeSlots
  <1>6. Held(Wanted) = {}
    BY <1>1, AtWork DEF IInv, NotYet
  <1>7. /\ step' = At("search", step.driver, step.i + 1) /\ object' = object /\ hResMgr' = hResMgr
        /\ UNCHANGED <<machine, cards, removed, asleep, suspended, shorted>>
    BY DEF SearchAbsent
  <1>8. object' = NoObject /\ hResMgr' = None
    BY <1>1, <1>7 DEF IInv, HandleMatchesProbe
  <1> QED BY <1>1, <1>2, <1>3, <1>4, <1>5, <1>6, <1>7, <1>8, BackToSearch, Parts

(* A search for a device that is there: its object is made. *)
LEMMA SearchPresentIInv ==
  ASSUME IInv, SearchPresent
  PROVE  IInv'
  <1>1. /\ step.at = "search" /\ Busy /\ step.i \in DOMAIN IdTable[step.driver]
    <2>1. step.at = "search" /\ Busy /\ step.i <= Len(IdTable[step.driver])
      BY DEF SearchPresent, Searching, Busy
    <2>2. step.driver \in Drivers /\ step.i \in Nat \ {0}
      BY <2>1 DEF IInv, StepOK
    <2> QED BY <2>1, <2>2, Tables
  <1>2. pci_devices' = [pci_devices EXCEPT ![Entry].id = Wanted] /\ allocated' = allocated
    BY <1>1, FirstFreeIsEntry DEF SearchPresent, Enter
  <1>3. pci_devices' \in [1 .. Slots -> Devices]
    BY <1>1, <1>2, AtWork, Parts DEF Devices
  <1>4. /\ \A t \in 1 .. Slots : t # Entry => pci_devices'[t] = pci_devices[t]
        /\ pci_devices'[Entry].driver = pci_devices[Entry].driver
        /\ pci_devices'[Entry].data = pci_devices[Entry].data
        /\ pci_devices'[Entry].id = Wanted
        /\ pci_devices'[Entry].used = pci_devices[Entry].used
    BY <1>1, <1>2, AtWork, Parts DEF Devices
  <1>5. pci_devices[Entry].used = FALSE
    <2>1. Entry \in FreeSlots
      BY <1>1, FirstFreeIsEntry
    <2>2. Entry \in 1 .. Slots /\ pci_devices[Entry].used \in BOOLEAN
      BY <1>1, AtWork, Parts DEF Devices
    <2> QED BY <2>1, <2>2 DEF FreeSlots
  <1>6. Held(Wanted) = {} /\ Wanted \in Ids /\ Bars[Wanted] \in SUBSET Resources
    BY <1>1, AtWork DEF IInv, NotYet, Resources
  <1>7. /\ UNCHANGED <<machine, cards, removed, asleep, suspended>> /\ shorted' = shorted
        /\ object' = [dev |-> Wanted, held |-> {}, resources |-> {}]
        /\ hResMgr = None /\ hResMgr' = None
    BY <1>1 DEF SearchPresent, NoObject, IInv, HandleMatchesProbe
  <1>8. step' = [at |-> "alloc", driver |-> step.driver, i |-> step.i, slot |-> Entry,
                 todo |-> Bars[Wanted], saved |-> None]
    BY <1>1, <1>7, FirstFreeIsEntry DEF SearchPresent, IInv, TypeOK
  <1>9. {} \in SUBSET Resources /\ None \in Ids \cup {None} /\ "alloc" \in {"alloc", "probe"}
    OBVIOUS
  <1>10. /\ {} = Bars[Wanted] \ Bars[Wanted] /\ HeldBy(allocated', Wanted) = {}
         /\ \A d \in Ids : d # Wanted => HeldBy(allocated', d) = Held(d)
         /\ allocated' \subseteq Ids \X Resources /\ shorted' \subseteq Ids /\ shorted \subseteq shorted'
         /\ pci_devices'[Entry].used <=> "alloc" = "probe" /\ Wanted \notin origin
    BY <1>2, <1>4, <1>5, <1>6, <1>7, Parts
  <1> QED BY <1>1, <1>3, <1>4, <1>6, <1>7, <1>8, <1>9, <1>10, StaysAtWork

(* The object after a request, by the answer. *)
LEMMA Answer ==
  ASSUME IInv, NEW r \in Resources
  PROVE  \/ r \in object.resources /\ Granted(object, r) /\ Request(object, r) = object
         \/ /\ r \notin object.resources /\ Granted(object, r)
            /\ Request(object, r) = [dev |-> object.dev, held |-> object.held \cup {r},
                                     resources |-> object.resources \cup {r}]
         \/ /\ r \notin object.resources /\ ~Granted(object, r)
            /\ Request(object, r) = [dev |-> object.dev, held |-> {},
                                     resources |-> object.resources]
  BY Parts DEF Request, Granted, releaseAllResources

(* The grants on record change for the device of the object only. *)
LEMMA Grants ==
  ASSUME IInv, NEW d \in Ids, object.dev = d, Held(d) = object.held,
         NEW p, p.dev = d, p.held \subseteq Resources
  PROVE  /\ GrantsOf(object, p) \subseteq Ids \X Resources
         /\ HeldBy(GrantsOf(object, p), d) = p.held
         /\ \A e \in Ids : e # d => HeldBy(GrantsOf(object, p), e) = Held(e)
  <1>1. allocated \subseteq Ids \X Resources
    BY Parts
  <1>2. \A e, r : <<e, r>> \in GrantsOf(object, p) <=>
                    IF e = d THEN r \in p.held \/ (<<d, r>> \in allocated /\ r \notin object.held)
                    ELSE <<e, r>> \in allocated
    BY DEF GrantsOf
  <1>3. GrantsOf(object, p) \subseteq Ids \X Resources
    BY <1>1 DEF GrantsOf
  <1>4. \A r : <<d, r>> \in allocated => r \in object.held
    BY <1>1 DEF Held
  <1>5. HeldBy(GrantsOf(object, p), d) = p.held
    BY <1>2, <1>4 DEF HeldBy
  <1>6. \A e \in Ids : e # d => HeldBy(GrantsOf(object, p), e) = Held(e)
    BY <1>2 DEF HeldBy, Held
  <1> QED BY <1>3, <1>5, <1>6

(* Inside the search or the probe of a device. *)
LEMMA AtDevice ==
  ASSUME IInv, step.at \in {"alloc", "probe"}
  PROVE  /\ Busy /\ step.i \in DOMAIN IdTable[step.driver] /\ step.slot = Entry
         /\ Device = Wanted /\ pci_devices[Entry].id = Wanted /\ Entry \in 1 .. Slots
         /\ Wanted \in Ids /\ object.dev = Wanted /\ Held(Wanted) = object.held
         /\ pci_devices[Entry].used <=> step.at = "probe" /\ Wanted \notin origin
         /\ Bars[Wanted] \subseteq Resources
  <1>1. Busy
    BY DEF Busy
  <1>2. /\ step.i \in DOMAIN IdTable[step.driver] /\ step.slot = Entry
        /\ Device = Wanted /\ object.dev = Wanted /\ Held(Wanted) = object.held
    BY DEF IInv, StepOK
  <1>3. Wanted \in Ids /\ Entry \in 1 .. Slots
    BY <1>1, <1>2, AtWork
  <1>5. pci_devices[Entry].id = Wanted
    BY <1>2 DEF Device
  <1>4. pci_devices[Entry].used <=> step.at = "probe" /\ Wanted \notin origin
    BY <1>1, <1>5 DEF IInv, EntryOK
  <1>6. Bars[Wanted] \subseteq Resources
    BY <1>3 DEF Resources
  <1> QED BY <1>1, <1>2, <1>3, <1>4, <1>5, <1>6

(* One resource of a device that was found is requested; a refusal gives    *)
(* back those granted before it.                                            *)
LEMMA AllocDetectedIInv ==
  ASSUME IInv, NEW r \in Resources, AllocDetected(r)
  PROVE  IInv'
  <1> DEFINE o == Request(object, r)
  <1>0. /\ step.at = "alloc" /\ r \in step.todo /\ allocated' = GrantsOf(object, o)
        /\ UNCHANGED <<machine, pci_devices, cards, shorted, removed, asleep, suspended>>
    BY DEF AllocDetected
  <1>1. /\ Busy /\ step.i \in DOMAIN IdTable[step.driver] /\ step.slot = Entry
        /\ pci_devices[Entry].id = Wanted /\ Entry \in 1 .. Slots
        /\ Wanted \in Ids /\ object.dev = Wanted /\ Held(Wanted) = object.held
        /\ ~pci_devices[Entry].used /\ Bars[Wanted] \subseteq Resources
    BY <1>0, AtDevice
  <1>2. /\ step.saved = None /\ step.todo \subseteq Bars[Wanted]
        /\ object.held = Bars[Wanted] \ step.todo /\ object.resources = object.held
    BY <1>0 DEF IInv, ObjectOK
  <1>3. hResMgr = None
    BY <1>0 DEF IInv, HandleMatchesProbe
  <1>4. /\ pci_devices' \in [1 .. Slots -> Devices] /\ pci_devices' = pci_devices
        /\ pci_devices'[Entry].used = FALSE /\ shorted' = shorted /\ shorted' \subseteq Ids
    <2>1. pci_devices[Entry].used \in BOOLEAN
      BY <1>1, Parts DEF Devices
    <2> QED BY <1>0, <1>1, <2>1, Parts
  <1>5. CASE ~Granted(object, r)
    <2>1. o = [dev |-> Wanted, held |-> {}, resources |-> object.resources]
      BY <1>1, <1>5, Answer
    <2>2. o.dev = Wanted /\ o.held = {}
      BY <2>1
    <2>3. /\ allocated' \subseteq Ids \X Resources /\ HeldBy(allocated', Wanted) = {}
          /\ \A e \in Ids : e # Wanted => HeldBy(allocated', e) = Held(e)
      BY <1>0, <1>1, <2>2, Grants
    <2>4. /\ object' = NoObject /\ hResMgr' = None
          /\ step' = At("search", step.driver, step.i + 1)
      BY <1>2, <1>5 DEF AllocDetected
    <2> QED BY <1>0, <1>1, <1>4, <2>3, <2>4, BackToSearch
  <1>6. CASE Granted(object, r)
    <2> DEFINE H == object.held \cup {r}
               T == step.todo \ {r}
    <2>1. r \notin object.resources
      BY <1>0, <1>2
    <2>2. o = [dev |-> Wanted, held |-> H, resources |-> object.resources \cup {r}]
      BY <1>1, <1>6, <2>1, Answer
    <2>3. /\ H = Bars[Wanted] \ T /\ object.resources \cup {r} = H /\ H \in SUBSET Resources
          /\ T \subseteq Bars[Wanted] /\ T \in SUBSET Resources
      BY <1>0, <1>1, <1>2
    <2>4. /\ object' = o /\ hResMgr' = None /\ step' = [step EXCEPT !.todo = step.todo \ {r}]
      BY <1>3, <1>6 DEF AllocDetected
    <2>5. step' = [at |-> "alloc", driver |-> step.driver, i |-> step.i, slot |-> Entry,
                   todo |-> T, saved |-> None]
      BY <1>0, <1>1, <1>2, <2>4 DEF IInv, TypeOK
    <2> HIDE DEF H, T
    <2>6. object' = [dev |-> Wanted, held |-> H, resources |-> H]
      BY <2>2, <2>3, <2>4
    <2>7. o.dev = Wanted /\ o.held = H
      BY <2>2
    <2>8. /\ allocated' \subseteq Ids \X Resources /\ HeldBy(allocated', Wanted) = H
          /\ \A e \in Ids : e # Wanted => HeldBy(allocated', e) = Held(e)
      BY <1>0, <1>1, <2>3, <2>7, Grants
    <2>9. /\ "alloc" \in {"alloc", "probe"} /\ None \in Ids \cup {None}
          /\ pci_devices'[Entry].used <=> "alloc" = "probe" /\ Wanted \notin origin
          /\ \A t \in 1 .. Slots : t # Entry => pci_devices'[t] = pci_devices[t]
          /\ pci_devices'[Entry].driver = pci_devices[Entry].driver
          /\ pci_devices'[Entry].data = pci_devices[Entry].data
          /\ pci_devices'[Entry].id = Wanted /\ hResMgr' = None
      BY <1>1, <1>4, <2>4
    <2>10. /\ UNCHANGED <<machine, cards, removed, asleep, suspended>> /\ shorted \subseteq shorted'
           /\ pci_devices' \in [1 .. Slots -> Devices] /\ shorted' \subseteq Ids
      BY <1>0, <1>4
    <2> QED BY <1>1, <2>3, <2>5, <2>6, <2>8, <2>9, <2>10, StaysAtWork
  <1> QED BY <1>5, <1>6

(* All resources are granted: the entry is marked and the probe starts. *)
LEMMA FoundDeviceIInv ==
  ASSUME IInv, FoundDevice
  PROVE  IInv'
  <1> DEFINE T == ProbeRequests(step.driver, Wanted)
             H == object.held
             R == object.resources
  <1>0. step.at = "alloc" /\ step.todo = {}
    BY DEF FoundDevice
  <1>1. /\ Busy /\ step.i \in DOMAIN IdTable[step.driver] /\ step.slot = Entry
        /\ pci_devices[Entry].id = Wanted /\ Entry \in 1 .. Slots
        /\ Wanted \in Ids /\ object.dev = Wanted /\ Held(Wanted) = H
        /\ Bars[Wanted] \subseteq Resources
    BY <1>0, AtDevice
  <1>2. step.saved = None /\ H = Bars[Wanted] /\ R = H
    BY <1>0 DEF IInv, ObjectOK
  <1>b. PICK b \in BOOLEAN : b = (Wanted \notin origin)
    BY Zenon
  <1>3. /\ pci_devices' = [pci_devices EXCEPT ![Entry].used = b]
        /\ hResMgr' = Wanted /\ object' = object
        /\ step' = [step EXCEPT !.at = "probe", !.todo = T]
        /\ UNCHANGED <<machine, allocated, cards, shorted, removed, asleep, suspended>>
    BY <1>1, <1>2, <1>b DEF FoundDevice
  <1>4. T \in SUBSET Resources /\ H \in SUBSET Resources /\ R \in SUBSET Resources
    <2>1. step.driver \in Drivers
      BY <1>1, AtWork
    <2>2. \A v \in Drivers : Legacy[v] \subseteq UNION {Legacy[w] : w \in Drivers}
      OBVIOUS
    <2>3. Legacy[step.driver] \subseteq Resources
      BY <2>1, <2>2 DEF Resources
    <2> QED BY <1>1, <1>2, <2>3 DEF ProbeRequests
  <1>5. step' = [at |-> "probe", driver |-> step.driver, i |-> step.i, slot |-> Entry,
                 todo |-> T, saved |-> None]
    BY <1>1, <1>2, <1>3 DEF IInv, TypeOK
  <1>6. object' = [dev |-> Wanted, held |-> H, resources |-> R]
    BY <1>1, <1>3, Parts
  <1> HIDE DEF T, H, R
  <1>7. /\ pci_devices' \in [1 .. Slots -> Devices]
        /\ \A t \in 1 .. Slots : t # Entry => pci_devices'[t] = pci_devices[t]
        /\ pci_devices'[Entry].driver = pci_devices[Entry].driver
        /\ pci_devices'[Entry].data = pci_devices[Entry].data
        /\ pci_devices'[Entry].id = Wanted
        /\ pci_devices'[Entry].used = b
    BY <1>1, <1>3, Parts DEF Devices
  <1>c. pci_devices'[Entry].used <=> "probe" = "probe" /\ Wanted \notin origin
    BY <1>b, <1>7
  <1>8. /\ HeldBy(allocated', Wanted) = H
        /\ \A d \in Ids : d # Wanted => HeldBy(allocated', d) = Held(d)
        /\ allocated' \subseteq Ids \X Resources /\ shorted' \subseteq Ids /\ shorted \subseteq shorted'
    BY <1>1, <1>3, Parts
  <1>9. /\ "probe" \in {"alloc", "probe"} /\ None \in Ids \cup {None}
        /\ UNCHANGED <<machine, cards, removed, asleep, suspended>>
        /\ hResMgr' = Wanted /\ Bars[Wanted] \subseteq R /\ Bars[Wanted] \subseteq H
    BY <1>2, <1>3
  <1> QED BY <1>1, <1>4, <1>5, <1>6, <1>7, <1>8, <1>9, <1>c, StaysAtWork

(* The probe requests one resource.  Its own it holds already; a refused FM *)
(* or MPU port takes all the others away, and shorted remembers it.         *)
LEMMA RequestIInv ==
  ASSUME IInv, NEW r \in Resources, __request_region(r)
  PROVE  IInv'
  <1> DEFINE o == Request(object, r)
             T == step.todo \ {r}
  <1>0. /\ step.at = "probe" /\ r \in step.todo /\ allocated' = GrantsOf(object, o)
        /\ UNCHANGED <<machine, cards, removed, asleep, suspended>>
        /\ shorted' = IF Granted(object, r) THEN shorted ELSE shorted \cup {Device}
    BY DEF __request_region
  <1>1. /\ Busy /\ step.i \in DOMAIN IdTable[step.driver] /\ step.slot = Entry
        /\ pci_devices[Entry].id = Wanted /\ Entry \in 1 .. Slots
        /\ pci_devices[Entry].used <=> Wanted \notin origin
        /\ Wanted \in Ids /\ object.dev = Wanted /\ Held(Wanted) = object.held
        /\ Device = Wanted
    BY <1>0, AtDevice
  <1>2. /\ Bars[Wanted] \subseteq object.resources
        /\ Wanted \in shorted \/ Bars[Wanted] \subseteq object.held
    BY <1>0 DEF IInv, ObjectOK
  <1>3. hResMgr = Wanted
    BY <1>0, <1>1 DEF IInv, HandleMatchesProbe
  <1>4. r \in Bars[Wanted] => Granted(object, r)
    BY <1>2 DEF Granted
  <1>5. /\ object' = o /\ UNCHANGED <<pci_devices, hResMgr>>
        /\ step' = [step EXCEPT !.todo = step.todo \ {r}]
    BY <1>1, <1>4 DEF __request_region, Own
  <1>6. PICK H \in SUBSET Resources, R \in SUBSET Resources :
          /\ o = [dev |-> Wanted, held |-> H, resources |-> R]
          /\ Bars[Wanted] \subseteq R
          /\ Wanted \in shorted' \/ Bars[Wanted] \subseteq H
    <2>1. object.held \subseteq Resources /\ object.resources \subseteq Resources
      BY Parts
    <2>2. CASE ~Granted(object, r)
      <3>1. o = [dev |-> Wanted, held |-> {}, resources |-> object.resources]
        BY <1>1, <2>2, Answer
      <3>2. Wanted \in shorted'
        BY <1>0, <1>1, <2>2
      <3> HIDE DEF o
      <3> QED BY <1>2, <2>1, <3>1, <3>2
    <2>3. CASE Granted(object, r) /\ r \in object.resources
      <3>1. o = object
        BY <2>3, Answer
      <3>2. object = [dev |-> Wanted, held |-> object.held, resources |-> object.resources]
        BY <1>1, Parts
      <3>3. shorted' = shorted
        BY <1>0, <2>3
      <3> HIDE DEF o
      <3> QED BY <1>2, <2>1, <3>1, <3>2, <3>3
    <2>4. CASE Granted(object, r) /\ r \notin object.resources
      <3>1. o = [dev |-> Wanted, held |-> object.held \cup {r},
                 resources |-> object.resources \cup {r}]
        BY <1>1, <2>4, Answer
      <3>2. shorted' = shorted
        BY <1>0, <2>4
      <3>3. /\ object.held \cup {r} \in SUBSET Resources /\ object.resources \cup {r} \in SUBSET Resources
            /\ Bars[Wanted] \subseteq object.resources \cup {r}
            /\ Wanted \in shorted' \/ Bars[Wanted] \subseteq object.held \cup {r}
        BY <1>2, <2>1, <3>2
      <3> HIDE DEF o
      <3> QED BY <3>1, <3>3
    <2> QED BY <2>2, <2>3, <2>4
  <1>7. step' = [at |-> "probe", driver |-> step.driver, i |-> step.i, slot |-> Entry,
                 todo |-> T, saved |-> step.saved]
    BY <1>0, <1>1, <1>5 DEF IInv, TypeOK
  <1>8. T \in SUBSET Resources /\ step.saved \in Ids \cup {None}
    BY DEF IInv, TypeOK
  <1> HIDE DEF o, T
  <1>9. /\ HeldBy(allocated', Wanted) = H
        /\ \A d \in Ids : d # Wanted => HeldBy(allocated', d) = Held(d)
        /\ allocated' \subseteq Ids \X Resources
    <2>1. o.dev = Wanted /\ o.held = H
      BY <1>6
    <2> QED BY <1>0, <1>1, <1>6, <2>1, Grants
  <1>10. object' = [dev |-> Wanted, held |-> H, resources |-> R]
    BY <1>5, <1>6
  <1>11. /\ pci_devices' \in [1 .. Slots -> Devices]
         /\ \A t \in 1 .. Slots : t # Entry => pci_devices'[t] = pci_devices[t]
         /\ pci_devices'[Entry].driver = pci_devices[Entry].driver
         /\ pci_devices'[Entry].data = pci_devices[Entry].data
         /\ pci_devices'[Entry].id = Wanted
         /\ pci_devices'[Entry].used <=> "probe" = "probe" /\ Wanted \notin origin
    BY <1>1, <1>5, Parts
  <1>12. /\ "probe" \in {"alloc", "probe"} /\ UNCHANGED <<machine, cards, removed, asleep, suspended>>
         /\ hResMgr' = Wanted /\ shorted' \subseteq Ids /\ shorted \subseteq shorted'
    BY <1>0, <1>1, <1>3, <1>5, Parts
  <1> QED BY <1>1, <1>6, <1>7, <1>8, <1>9, <1>10, <1>11, <1>12, StaysAtWork

(* A probe that fails leaves the device what it holds. *)
LEMMA ProbeFailsIInv ==
  ASSUME IInv, ProbeFails
  PROVE  IInv'
  <1>0. step.at = "probe"
    BY DEF ProbeFails
  <1>1. /\ Busy /\ step.i \in DOMAIN IdTable[step.driver] /\ step.slot = Entry
        /\ pci_devices[Entry].id = Wanted /\ Entry \in 1 .. Slots
        /\ Wanted \in Ids /\ Held(Wanted) = object.held
    BY <1>0, AtDevice
  <1>2. Wanted \in shorted \/ Bars[Wanted] \subseteq object.held
    BY <1>0 DEF IInv, ObjectOK
  <1>3. /\ pci_devices' = [pci_devices EXCEPT ![Entry].used = FALSE]
        /\ object' = NoObject /\ hResMgr' = None
        /\ step' = At("search", step.driver, step.i + 1) /\ allocated' = allocated
        /\ UNCHANGED <<machine, cards, removed, asleep, suspended, shorted>>
    BY <1>1 DEF ProbeFails, Unclaim
  <1>4. /\ pci_devices' \in [1 .. Slots -> Devices]
        /\ \A t \in 1 .. Slots : t # Entry => pci_devices'[t] = pci_devices[t]
        /\ pci_devices'[Entry].driver = pci_devices[Entry].driver
        /\ pci_devices'[Entry].data = pci_devices[Entry].data
        /\ pci_devices'[Entry].id = Wanted /\ pci_devices'[Entry].used = FALSE
    BY <1>1, <1>3, Parts DEF Devices
  <1>5. /\ \A d \in Ids : HeldBy(allocated', d) = Held(d)
        /\ allocated' \subseteq Ids \X Resources
    BY <1>3, Parts
  <1> QED BY <1>1, <1>2, <1>3, <1>4, <1>5, BackToSearch

(***************************************************************************)
(* Between the drivers, and after initialisation.                          *)
(***************************************************************************)

(* A step to another place outside the work on a device. *)
LEMMA StepType ==
  ASSUME NEW w \in {"modules", "search", "up", "failed", "down"},
         NEW v \in Drivers \cup {None}, NEW n \in Nat
  PROVE  /\ At(w, v, n) \in [at : {"modules", "search", "alloc", "probe", "up", "failed", "down"},
                            driver : Drivers \cup {None}, i : Nat, slot : 0 .. Slots,
                            todo : SUBSET Resources, saved : Ids \cup {None}]
         /\ At(w, v, n).at = w /\ At(w, v, n).driver = v /\ At(w, v, n).i = n
  BY PciAssumption DEF At

(* Before a card is found: the table and the grants are as they were. *)
LEMMA StaysEarly ==
  ASSUME IInv, Early, step.at \in {"modules", "search"},
         UNCHANGED <<machine, pci_devices, hResMgr, object, allocated, cards,
                     shorted, removed, asleep, suspended>>,
         \/ step' = At("failed", None, 0)
         \/ \E j \in DOMAIN CardDrivers :
              /\ step' = At("search", CardDrivers[j], 1)
              /\ step.at = "search" => Searched(step) \subseteq Searched(At("search", CardDrivers[j], 1))
  PROVE  IInv'
  <1>1. PICK w \in {"search", "failed"}, v \in Drivers \cup {None}, n \in Nat :
          /\ step' = At(w, v, n) /\ (w = "search" => v \in Cards /\ n = 1)
          /\ w = "search" /\ step.at = "search" => Searched(step) \subseteq Searched(step')
    <2>1. CASE step' = At("failed", None, 0)
      BY <2>1
    <2>2. ASSUME NEW j \in DOMAIN CardDrivers, step' = At("search", CardDrivers[j], 1),
                 step.at = "search" => Searched(step) \subseteq Searched(At("search", CardDrivers[j], 1))
          PROVE  \E w \in {"search", "failed"}, v \in Drivers \cup {None}, n \in Nat :
                   /\ step' = At(w, v, n) /\ (w = "search" => v \in Cards /\ n = 1)
                   /\ w = "search" /\ step.at = "search" => Searched(step) \subseteq Searched(step')
      <3>1. CardDrivers[j] \in Cards /\ CardDrivers[j] \in Drivers \cup {None} /\ 1 \in Nat
        BY Places
      <3> QED BY <2>2, <3>1
    <2> QED BY <2>1, <2>2
  <1>2. step'.at = w /\ step'.driver = v /\ step'.i = n
    BY <1>1, StepType
  <1>3. TypeOK'
    <2>1. step' \in [at : {"modules", "search", "alloc", "probe", "up", "failed", "down"},
                     driver : Drivers \cup {None}, i : Nat, slot : 0 .. Slots,
                     todo : SUBSET Resources, saved : Ids \cup {None}]
      BY <1>1, StepType
    <2> QED BY <2>1 DEF IInv, TypeOK, machine
  <1>4. StepOK' /\ ObjectOK'
    BY <1>1, <1>2, Places DEF StepOK, ObjectOK, Busy
  <1>10. ~pci_devices[1].used /\ Skipped' = Skipped /\ cards = {}
    <2>1. CASE step.at = "modules"
      BY <2>1 DEF IInv, TableOK, Busy, Skipped, machine
    <2>2. CASE step.at = "search"
      <3>1. Busy /\ Entry = 1
        BY <2>2 DEF Busy, Early, Entry
      <3> QED BY <2>2, <3>1 DEF IInv, EntryOK, TableOK, Skipped, machine
    <2> QED BY <2>1, <2>2
  <1>11. EntryOK'
    <2>1. CASE w = "failed"
      BY <1>2, <2>1 DEF EntryOK, Busy
    <2>2. CASE w = "search"
      <3>1. Entry' = 1 /\ step'.at # "probe"
        BY <1>1, <1>2, <2>2 DEF Entry
      <3> QED BY <1>10, <3>1 DEF EntryOK
    <2> QED BY <2>1, <2>2
  <1>5. HandleMatchesProbe'
    BY <1>1, <1>2 DEF IInv, HandleMatchesProbe
  <1>6. TableOK' /\ AsleepOK' /\ RemovedOK'
    <2>1. Early'
      BY <1>1, <1>2 DEF Early, Busy
    <2>2. TableOK'
      BY <1>1, <1>2, <1>10, <2>1 DEF IInv, TableOK
    <2>3. ~suspended /\ (~Skipped => asleep = {})
      BY DEF IInv, AsleepOK
    <2> QED BY <1>1, <1>2, <1>10, <2>2, <2>3 DEF AsleepOK, RemovedOK, RemovedOnce
  <1>7. \A d : Held(d)' = Held(d)
    BY DEF Held
  <1>8. NotYet'
    <2>1. CASE w = "failed"
      BY <1>2, <2>1 DEF NotYet, Busy
    <2>2. CASE w = "search"
      <3>1. ASSUME NEW d \in Ids, Held(d)' # {} \/ d \in cards' PROVE d \in Searched(step')
        <4>1. Held(d) # {} \/ d \in cards
          BY <1>7, <3>1
        <4>2. cards = {}
          BY DEF IInv, TableOK
        <4>3. d \in Searched(step) /\ step.at = "search"
          BY <4>1, <4>2 DEF IInv, NotYet, Busy
        <4> QED BY <1>1, <2>2, <4>3
      <3>2. (\A d \in Ids : Held(d) # {} \/ d \in cards => d \in Searched(step))'
        BY <3>1 DEF Searched
      <3> QED BY <1>2, <2>2, <3>2 DEF NotYet
    <2> QED BY <2>1, <2>2
  <1>9. AllOrNone' /\ CardHoldsResources'
    BY <1>7 DEF IInv, AllOrNone, CardHoldsResources
  <1> QED BY <1>3, <1>4, <1>5, <1>6, <1>8, <1>9, <1>11 DEF IInv

(* The modules are initialised, or one fails. *)
LEMMA InitModulesIInv ==
  ASSUME IInv, InitModules
  PROVE  IInv'
  <1>1. step.at = "modules" /\ Early
    BY DEF InitModules, Early
  <1>2. \/ step' = At("failed", None, 0)
        \/ \E j \in DOMAIN CardDrivers : step' = At("search", CardDrivers[j], 1)
    BY NextToTry DEF InitModules
  <1> QED BY <1>1, <1>2, StaysEarly DEF InitModules

(* From here on the table holds the card: the grants are as they were. *)
LEMMA GoesOn ==
  ASSUME IInv, NEW w \in {"search", "up"}, NEW v \in Drivers \cup {None}, NEW n \in Nat,
         w = "search" => v \in Drivers \ Cards /\ n = 1,
         step' = At(w, v, n), object' = NoObject, hResMgr' = None,
         UNCHANGED <<machine, allocated, shorted, removed, asleep, suspended>>,
         pci_devices' \in [1 .. Slots -> Devices], cards' \subseteq Ids, cards \subseteq cards',
         TableOK', EntryOK', step.at # "alloc",
         w = "search" => \A d \in Ids : Held(d) # {} \/ d \in cards' => d \in Searched(At(w, v, n)),
         \A c \in cards' \ shorted : Bars[c] \subseteq Held(c),
         AsleepOK', asleep \subseteq cards
  PROVE  IInv'
  <1>1. step'.at = w /\ step'.driver = v /\ step'.i = n
    BY DEF At
  <1>2. TypeOK'
    <2>1. step' \in [at : {"modules", "search", "alloc", "probe", "up", "failed", "down"},
                     driver : Drivers \cup {None}, i : Nat, slot : 0 .. Slots,
                     todo : SUBSET Resources, saved : Ids \cup {None}]
      BY StepType
    <2>2. /\ object' \in [dev : Ids \cup {None}, held : SUBSET Resources,
                          resources : SUBSET Resources]
          /\ hResMgr' \in Ids \cup {None}
      BY DEF NoObject
    <2>3. asleep' \subseteq cards'
      OBVIOUS
    <2> QED BY <2>1, <2>2, <2>3 DEF IInv, TypeOK, machine, Devices
  <1>3. StepOK' /\ ObjectOK' /\ HandleMatchesProbe' /\ RemovedOK'
    BY <1>1 DEF StepOK, ObjectOK, HandleMatchesProbe, RemovedOK, RemovedOnce, Busy
  <1>4. \A d : Held(d)' = Held(d)
    BY DEF Held
  <1>5. NotYet'
    <2>1. CASE w = "up"
      BY <1>1, <2>1 DEF NotYet, Busy
    <2>2. CASE w = "search"
      <3>1. ASSUME NEW d \in Ids, Held(d)' # {} \/ d \in cards' PROVE d \in Searched(step')
        BY <1>4, <2>2, <3>1
      <3>2. (\A d \in Ids : Held(d) # {} \/ d \in cards => d \in Searched(step))'
        BY <3>1 DEF Searched
      <3> QED BY <1>1, <2>2, <3>2 DEF NotYet
    <2> QED BY <2>1, <2>2
  <1>6. AllOrNone'
    BY <1>4 DEF IInv, AllOrNone
  <1>7. CardHoldsResources'
    BY <1>4 DEF CardHoldsResources
  <1> QED BY <1>2, <1>3, <1>5, <1>6, <1>7 DEF IInv

(* A card driver's probe succeeds: the card is stored in the first entry. *)
LEMMA CardSucceedsIInv ==
  ASSUME IInv, ProbeSucceeds, step.driver \in Cards
  PROVE  IInv'
  <1>0. step.at = "probe" /\ "probe" \in {"alloc", "probe"}
    BY DEF ProbeSucceeds
  <1>1. /\ Busy /\ step.i \in DOMAIN IdTable[step.driver] /\ step.slot = Entry
        /\ Device = Wanted /\ pci_devices[1].id = Wanted /\ Entry = 1 /\ 1 \in 1 .. Slots
        /\ Wanted \in Ids /\ Held(Wanted) = object.held /\ Early
        /\ pci_devices[1].used <=> Wanted \notin origin
        /\ Wanted \in Range(IdTable[step.driver]) /\ step.driver \in Drivers
    BY <1>0, AtDevice, AtWork DEF Entry
  <1>2. Wanted \in shorted \/ Bars[Wanted] \subseteq object.held
    BY <1>0 DEF IInv, ObjectOK
  <1>3. /\ pci_devices' = [pci_devices EXCEPT ![1].driver = step.driver, ![1].data = Wanted]
        /\ cards' = cards \cup {Wanted} /\ object' = NoObject /\ hResMgr' = None
        /\ step' = WithCompanion(step.driver)
        /\ UNCHANGED <<machine, allocated, shorted, removed, asleep, suspended>>
    BY <1>1 DEF ProbeSucceeds
  <1>4. cards = {} /\ asleep = {} /\ ~suspended
    BY <1>0, <1>1 DEF IInv, TableOK, TypeOK, AsleepOK
  <1>5. /\ pci_devices' \in [1 .. Slots -> Devices]
        /\ \A t \in 1 .. Slots : t # 1 => pci_devices'[t] = pci_devices[t]
        /\ pci_devices'[1].driver = step.driver /\ pci_devices'[1].data = Wanted
        /\ pci_devices'[1].id = Wanted
        /\ pci_devices'[1].used <=> Wanted \notin origin
    BY <1>1, <1>3, Parts DEF Devices
  <1>6. PICK w \in {"search", "up"}, v \in Drivers \cup {None}, n \in Nat :
          /\ WithCompanion(step.driver) = At(w, v, n)
          /\ w = "search" => v \in Drivers \ Cards /\ n = 1
    <2>1. Companion[step.driver] \in (Drivers \ Cards) \cup {None} /\ 0 \in Nat /\ 1 \in Nat
      BY PciAssumption
    <2>2. CASE Companion[step.driver] # None
      BY <2>1, <2>2 DEF WithCompanion
    <2>3. CASE Companion[step.driver] = None
      BY <2>1, <2>3 DEF WithCompanion
    <2> QED BY <2>2, <2>3
  <1>7. step' = At(w, v, n) /\ step'.at = w /\ step'.driver = v
    BY <1>3, <1>6, StepType
  <1>8. TableOK' /\ EntryOK'
    <2>1. ~Early'
      BY <1>6, <1>7 DEF Early, Busy
    <2>2. \A s \in 2 .. Slots : s \in 1 .. Slots /\ s # 1
      BY PciAssumption
    <2>3. \A s \in 2 .. Slots : pci_devices'[s] = Empty
      <3> SUFFICES ASSUME NEW s \in 2 .. Slots PROVE pci_devices'[s] = Empty
        OBVIOUS
      <3>1. pci_devices'[s] = pci_devices[s] /\ pci_devices[s] \in Devices
        BY <1>5, <2>2, Parts
      <3>2. /\ pci_devices[s].driver = None /\ pci_devices[s].data = None
            /\ ~pci_devices[s].used /\ pci_devices[s].id = None
        BY <1>1, <2>2 DEF IInv, TableOK
      <3>3. pci_devices[s].used = FALSE
        BY <3>1, <3>2 DEF Devices
      <3> QED BY <3>1, <3>2, <3>3 DEF Devices, Empty
    <2>4. /\ pci_devices'[2] = Empty /\ \A s \in 3 .. Slots : pci_devices'[s] = Empty
      BY <2>3, PciAssumption
    <2>5. None \notin Cards /\ \A u \in Cards : None \notin Range(IdTable[u])
      <3>1. \A u \in Cards : Range(IdTable[u]) \subseteq Ids
        BY Places, Tables DEF Range
      <3> QED BY <3>1, Places
    <2>6. cards' = {Wanted} /\ w # "probe" /\ (Skipped' <=> Wanted \in origin)
      BY <1>3, <1>4 DEF Skipped, machine
    <2>7. /\ pci_devices'[2].data = None /\ pci_devices'[2].driver = None
          /\ pci_devices'[2].id = None /\ ~pci_devices'[2].used
      BY <2>4 DEF Empty
    <2>8. /\ pci_devices'[1].data = pci_devices'[1].id
          /\ pci_devices'[1].driver \in Cards
          /\ pci_devices'[1].id \in Range(IdTable[pci_devices'[1].driver])
          /\ cards' = {pci_devices'[1].id}
      BY <1>1, <1>5, <2>6
    <2>9. \E c \in Ids, u \in Cards : cards' = {c} /\ c \in Range(IdTable[u])
      <3>1. Wanted \in Range(IdTable[pci_devices'[1].driver])
        BY <1>5, <2>8
      <3> QED BY <1>1, <2>6, <2>8, <3>1
    <2>10. ASSUME Wanted \notin origin PROVE TableOK'
      <3>1. MarkedOK'
        BY <1>5, <1>7, <2>4, <2>5, <2>6, <2>7, <2>8, <2>10 DEF MarkedOK
      <3> QED BY <2>1, <2>6, <2>10, <2>9, <3>1 DEF TableOK
    <2>11. ASSUME Wanted \in origin PROVE TableOK'
      <3>1. \A s \in 2 .. Slots : ~pci_devices'[s].used
        BY <2>3 DEF Empty
      <3>2. SkippedOK'
        BY <1>5, <2>5, <2>11, <3>1 DEF SkippedOK
      <3> QED BY <2>1, <2>6, <2>11, <2>9, <3>2 DEF TableOK
    <2>12. EntryOK'
      <3>1. Skipped' => Entry' = 1 /\ ~pci_devices'[1].used
        BY <1>5, <2>6 DEF Entry
      <3>2. ~Skipped' /\ w = "search" => Entry' = 2 /\ ~pci_devices'[2].used
        BY <1>6, <1>7, <2>7 DEF Entry
      <3> QED BY <1>6, <1>7, <3>1, <3>2 DEF EntryOK, Busy
    <2> QED BY <2>10, <2>11, <2>12
  <1>9. w = "search" => \A d \in Ids : Held(d) # {} \/ d \in cards' => d \in Searched(At(w, v, n))
    <2> SUFFICES ASSUME w = "search", NEW d \in Ids, Held(d) # {} \/ d \in cards'
                 PROVE  d \in Searched(At(w, v, n))
      OBVIOUS
    <2>1. Searched(step) \cup {Wanted} \subseteq Searched(At(w, v, n))
      BY <1>1, <1>6, SearchedCompanion
    <2>2. d \in Searched(step) \/ d = Wanted
      BY <1>1, <1>3 DEF IInv, NotYet
    <2> QED BY <2>1, <2>2
  <1>10. \A c \in cards' \ shorted : Bars[c] \subseteq Held(c)
    BY <1>1, <1>2, <1>3, <1>4
  <1>11. AsleepOK'
    BY <1>3, <1>4 DEF AsleepOK
  <1> QED BY <1>0, <1>1, <1>3, <1>4, <1>5, <1>6, <1>7, <1>8, <1>9, <1>10, <1>11, GoesOn

(* A joystick driver's probe succeeds: the card's entry stays as it is. *)
LEMMA CompanionSucceedsIInv ==
  ASSUME IInv, ProbeSucceeds, step.driver \notin Cards
  PROVE  IInv'
  <1>0. step.at = "probe" /\ "probe" \in {"alloc", "probe"}
    BY DEF ProbeSucceeds
  <1>1. /\ Busy /\ step.i \in DOMAIN IdTable[step.driver] /\ step.slot = Entry
        /\ pci_devices[Entry].id = Wanted /\ Entry \in 1 .. Slots /\ 1 \in 1 .. Slots
        /\ Wanted \in Ids /\ ~Early /\ step.driver \in Drivers
        /\ \A u \in Cards : Wanted \notin Range(IdTable[u])
    BY <1>0, AtDevice, AtWork
  <1>2. step.driver # None
    BY <1>1, Places
  <1>3. /\ pci_devices' = [pci_devices EXCEPT ![Entry].driver = step.driver]
        /\ cards' = cards /\ object' = NoObject /\ hResMgr' = None
        /\ step' = At("up", None, 0)
        /\ UNCHANGED <<machine, allocated, shorted, removed, asleep, suspended>>
    BY <1>1 DEF ProbeSucceeds, WithCompanion
  <1>4. /\ pci_devices' \in [1 .. Slots -> Devices]
        /\ \A t \in 1 .. Slots : t # Entry => pci_devices'[t] = pci_devices[t]
        /\ pci_devices'[Entry].driver = step.driver
        /\ pci_devices'[Entry].data = pci_devices[Entry].data
        /\ pci_devices'[Entry].id = Wanted
        /\ pci_devices'[Entry].used = pci_devices[Entry].used
    BY <1>1, <1>3, Parts DEF Devices
  <1>5. step'.at = "up" /\ None \in Drivers \cup {None} /\ 0 \in Nat /\ "up" \in {"search", "up"}
    BY <1>3 DEF At
  <1>6. TableOK' /\ EntryOK'
    <2>1. ~Early' /\ ~Busy' /\ Skipped' = Skipped
      BY <1>3, <1>5 DEF Early, Busy, Skipped, machine
    <2>2. TableOK /\ step.at # "down"
      BY <1>0 DEF IInv
    <2>3. \E c \in Ids, v \in Cards : cards = {c} /\ c \in Range(IdTable[v])
      BY <1>1, <2>2 DEF TableOK
    <2>4. CASE Skipped
      <3>1. SkippedOK /\ Entry = 1
        BY <1>1, <2>2, <2>4 DEF TableOK, Entry
      <3>2. \A s \in 2 .. Slots : s \in 1 .. Slots /\ s # 1
        BY PciAssumption
      <3>3. SkippedOK'
        BY <1>2, <1>4, <3>1, <3>2 DEF SkippedOK
      <3> QED BY <1>3, <2>1, <2>3, <2>4, <3>3 DEF TableOK, EntryOK
    <2>5. CASE ~Skipped
      <3>1. MarkedOK /\ Entry = 2
        BY <1>1, <2>2, <2>5 DEF TableOK, Entry
      <3>2. \A s \in 3 .. Slots : s \in 1 .. Slots /\ s # 2
        BY PciAssumption
      <3>3. \A s \in 3 .. Slots : pci_devices'[s] = Empty
        BY <1>4, <3>1, <3>2 DEF MarkedOK
      <3>4. pci_devices'[1] = pci_devices[1]
        BY <1>1, <1>4, <3>1
      <3>5. MarkedOK'
        BY <1>1, <1>2, <1>3, <1>4, <1>5, <3>1, <3>3, <3>4 DEF MarkedOK
      <3> QED BY <1>3, <2>1, <2>3, <2>5, <3>5 DEF TableOK, EntryOK
    <2> QED BY <2>4, <2>5
  <1>7. \A c \in cards' \ shorted : Bars[c] \subseteq Held(c)
    BY <1>3 DEF IInv, CardHoldsResources
  <1>8. AsleepOK' /\ asleep \subseteq cards /\ cards' \subseteq Ids /\ cards \subseteq cards'
    BY <1>0, <1>3, <1>5 DEF IInv, AsleepOK, TypeOK, Skipped, machine
  <1> QED BY <1>0, <1>3, <1>4, <1>5, <1>6, <1>7, <1>8, GoesOn

(* The end of a driver's table. *)
LEMMA NotFoundIInv ==
  ASSUME IInv, NotFound
  PROVE  IInv'
  <1>0. /\ step.at = "search" /\ step.i > Len(IdTable[step.driver])
        /\ UNCHANGED <<machine, pci_devices, hResMgr, object, allocated, cards,
                       shorted, removed, asleep, suspended>>
    BY DEF NotFound
  <1>1. CASE step.driver \in Cards
    <2>1. Early
      BY <1>0, <1>1 DEF Early, Busy
    <2>2. step' = TryAfter(PlaceOf(step.driver)) /\ PlaceOf(step.driver) \in Nat
      BY <1>1, Places DEF NotFound
    <2>3. CASE step' = At("failed", None, 0)
      BY <1>0, <2>1, <2>3, StaysEarly
    <2>4. CASE \E j \in DOMAIN CardDrivers :
                 j > PlaceOf(step.driver) /\ step' = At("search", CardDrivers[j], 1)
      BY <1>0, <1>1, <2>1, <2>4, StaysEarly, SearchedTable
    <2> QED BY <2>2, <2>3, <2>4, NextToTry
  <1>2. CASE step.driver \notin Cards
    <2>1. step' = At("up", None, 0) /\ ~Early
      BY <1>0, <1>2 DEF NotFound, Early, Busy
    <2>2. step'.at = "up" /\ None \in Drivers \cup {None} /\ 0 \in Nat /\ "up" \in {"search", "up"}
      BY <2>1 DEF At
    <2>3. TableOK' /\ EntryOK'
      <3>1. ~Early' /\ ~Busy' /\ Busy /\ Skipped' = Skipped
        BY <1>0, <2>2 DEF Early, Busy, Skipped, machine
      <3>2. TableOK /\ ~pci_devices[Entry].used
        BY <1>0, <3>1 DEF IInv, EntryOK
      <3>3. \E c \in Ids, v \in Cards : cards = {c} /\ c \in Range(IdTable[v])
        BY <1>0, <2>1, <3>2 DEF TableOK
      <3>4. CASE Skipped
        <4>1. SkippedOK /\ Entry = 1
          BY <1>0, <2>1, <3>2, <3>4 DEF TableOK, Entry
        <4>2. SkippedOK'
          BY <1>0, <3>2, <4>1 DEF SkippedOK
        <4> QED BY <1>0, <3>1, <3>3, <3>4, <4>2 DEF TableOK, EntryOK
      <3>5. CASE ~Skipped
        <4>1. MarkedOK /\ Entry = 2
          BY <1>0, <1>2, <2>1, <3>2, <3>5 DEF TableOK, Entry
        <4>2. MarkedOK'
          BY <1>0, <2>2, <3>2, <4>1 DEF MarkedOK
        <4> QED BY <1>0, <3>1, <3>3, <3>5, <4>2 DEF TableOK, EntryOK
      <3> QED BY <3>4, <3>5
    <2>4. object' = NoObject /\ hResMgr' = None
      BY <1>0 DEF IInv, HandleMatchesProbe
    <2>5. \A c \in cards' \ shorted : Bars[c] \subseteq Held(c)
      BY <1>0 DEF IInv, CardHoldsResources
    <2>6. /\ AsleepOK' /\ asleep \subseteq cards /\ cards' \subseteq Ids /\ cards \subseteq cards'
          /\ pci_devices' \in [1 .. Slots -> Devices] /\ step.at # "alloc"
      BY <1>0, <2>2, Parts DEF IInv, AsleepOK, TypeOK, Skipped, machine
    <2>7. UNCHANGED <<machine, allocated, shorted, removed, asleep, suspended>>
      BY <1>0
    <2> QED BY <2>1, <2>2, <2>3, <2>4, <2>5, <2>6, <2>7, GoesOn
  <1> QED BY <1>1, <1>2

(* Once the driver is loaded: the entry of the card, and no other with a    *)
(* driver that has suspend and resume functions.                            *)
LEMMA LoadedTable ==
  ASSUME IInv, step.at = "up", ~Skipped
  PROVE  \E c \in Ids, v \in Cards :
           /\ cards = {c} /\ c \in Range(IdTable[v])
           /\ \A u \in Cards : c \in Range(IdTable[u]) => u = v
           /\ pci_devices[1].used /\ pci_devices[1].driver = v
           /\ pci_devices[1].data = c /\ pci_devices[1].id = c
           /\ pci_devices[2].driver \notin Cards
           /\ \A u \in Cards : pci_devices[2].id \notin Range(IdTable[u])
           /\ pci_devices[2].used => pci_devices[2].driver # None
           /\ \A s \in 3 .. Slots : pci_devices[s] = Empty
  <1>1. MarkedOK
    <2>1. TableOK /\ ~Early
      BY DEF IInv, Early, Busy
    <2> QED BY <2>1 DEF TableOK
  <1> DEFINE c == pci_devices[1].id
             v == pci_devices[1].driver
  <1>2. /\ cards = {c} /\ c \in Range(IdTable[v]) /\ v \in Cards
        /\ pci_devices[1].used /\ pci_devices[1].data = c
        /\ pci_devices[2].driver \notin Cards
        /\ \A u \in Cards : pci_devices[2].id \notin Range(IdTable[u])
        /\ pci_devices[2].used => pci_devices[2].driver # None
        /\ \A s \in 3 .. Slots : pci_devices[s] = Empty
    BY <1>1 DEF MarkedOK
  <1>3. c \in Ids
    BY <1>2 DEF IInv, TypeOK
  <1>4. pci_devices[1].id = c /\ pci_devices[1].driver = v
    OBVIOUS
  <1> HIDE DEF c, v
  <1>5. \A u \in Cards : c \in Range(IdTable[u]) => u = v
    <2>1. v \in Drivers /\ \A u \in Cards : u \in Drivers
      BY <1>2, Places
    <2>2. \A u \in Cards : u # v => Range(IdTable[u]) \cap Range(IdTable[v]) = {}
      BY <2>1, PciAssumption
    <2> QED BY <1>2, <2>2
  <1> QED BY <1>2, <1>3, <1>4, <1>5

(* ... or no entry that suspend and resume look at, and the device table of *)
(* either kind has a driver in every entry in use.                          *)
LEMMA SkippedTable ==
  ASSUME IInv, step.at = "up", Skipped
  PROVE  /\ Managed = {} /\ pci_devices[1].driver # None
         /\ \A s \in 2 .. Slots : ~pci_devices[s].used
  <1>1. SkippedOK
    <2>1. TableOK /\ ~Early
      BY DEF IInv, Early, Busy
    <2> QED BY <2>1 DEF TableOK
  <1>2. \A s \in 1 .. Slots : s = 1 \/ s \in 2 .. Slots
    BY PciAssumption
  <1>3. PowerManaged \subseteq Cards
    BY PciAssumption
  <1>4. Managed = {}
    BY <1>1, <1>2, <1>3 DEF Managed, SkippedOK
  <1> QED BY <1>1, <1>4 DEF SkippedOK

(* Suspend and resume reach the card that has power management. *)
LEMMA ManagedCards ==
  ASSUME IInv, step.at = "up", ~Skipped
  PROVE  {pci_devices[s].data : s \in Managed}
           = {c \in cards : \E v \in PowerManaged : c \in Range(IdTable[v])}
  <1> DEFINE D == {pci_devices[s].data : s \in Managed}
             P == {c \in cards : \E v \in PowerManaged : c \in Range(IdTable[v])}
  <1> SUFFICES D = P
    OBVIOUS
  <1>1. PICK c \in Ids, v \in Cards :
         /\ cards = {c} /\ c \in Range(IdTable[v])
         /\ \A u \in Cards : c \in Range(IdTable[u]) => u = v
         /\ pci_devices[1].used /\ pci_devices[1].driver = v
         /\ pci_devices[1].data = c /\ pci_devices[2].driver \notin Cards
         /\ \A s \in 3 .. Slots : pci_devices[s] = Empty
    BY LoadedTable
  <1>2. PowerManaged \subseteq Cards /\ None \notin Cards
    BY PciAssumption, Places
  <1>3. \A s \in 1 .. Slots : s = 1 \/ s = 2 \/ s \in 3 .. Slots
    BY PciAssumption
  <1>4. \A s \in Managed : s = 1
    BY <1>1, <1>2, <1>3 DEF Managed, Empty
  <1>5. 1 \in Managed <=> v \in PowerManaged
    BY <1>1, PciAssumption DEF Managed
  <1>6. CASE v \in PowerManaged
    <2>1. Managed = {1}
      BY <1>4, <1>5, <1>6
    <2>2. D = {c}
      BY <1>1, <2>1
    <2>3. P = {c}
      BY <1>1, <1>6
    <2> QED BY <2>2, <2>3
  <1>7. CASE v \notin PowerManaged
    <2>1. Managed = {}
      BY <1>4, <1>5, <1>7
    <2>2. D = {}
      BY <2>1
    <2>3. P = {}
      BY <1>1, <1>2, <1>7
    <2> QED BY <2>2, <2>3
  <1> QED BY <1>6, <1>7

(* Suspend and resume. *)
LEMMA PowerIInv ==
  ASSUME IInv, OSS32_APMSuspend \/ OSS32_APMResume
  PROVE  IInv'
  <1> DEFINE D == {pci_devices[s].data : s \in Managed}
             P == {c \in cards : \E v \in PowerManaged : c \in Range(IdTable[v])}
  <1>1. /\ \/ asleep' = asleep \cup D /\ suspended' = TRUE
           \/ asleep' = asleep \ D /\ suspended' = FALSE
        /\ UNCHANGED <<machine, pci_devices, hResMgr, object, allocated, step, cards,
                       shorted, removed>>
    BY DEF OSS32_APMSuspend, OSS32_APMResume
  <1>2. step.at = "up" /\ Skipped' = Skipped
    BY <1>1 DEF OSS32_APMSuspend, OSS32_APMResume, Skipped, machine
  <1>3. Skipped => D = {}
    BY <1>2, SkippedTable
  <1>4. ~Skipped => D = P
    BY <1>2, ManagedCards
  <1>a. P' = P /\ P \subseteq cards /\ asleep \subseteq cards
    BY <1>1 DEF IInv, TypeOK
  <1>b. ~Skipped => asleep = IF suspended THEN P ELSE {}
    BY DEF IInv, AsleepOK
  <1> HIDE DEF D, P
  <1>5. /\ asleep' \subseteq cards' /\ suspended' \in BOOLEAN
        /\ ~Skipped => asleep' = IF suspended' THEN P' ELSE {}
    BY <1>1, <1>3, <1>4, <1>a, <1>b
  <1>c. AsleepOK'
    BY <1>1, <1>2, <1>5 DEF AsleepOK, P
  <1>6. TypeOK'
    BY <1>1, <1>5 DEF IInv, TypeOK, machine
  <1>7. \A d : Held(d)' = Held(d)
    BY <1>1 DEF Held
  <1>8. StepOK' /\ EntryOK' /\ ObjectOK' /\ HandleMatchesProbe' /\ NotYet' /\ RemovedOK'
    BY <1>1, <1>2 DEF IInv, StepOK, EntryOK, ObjectOK, HandleMatchesProbe, NotYet, RemovedOK,
                      RemovedOnce, Busy
  <1>9. AllOrNone' /\ CardHoldsResources'
    BY <1>1, <1>7 DEF IInv, AllOrNone, CardHoldsResources
  <1>10. TableOK'
    <2>1. ~Early /\ ~Early' /\ ~Busy'
      BY <1>1, <1>2 DEF Early, Busy
    <2> QED BY <1>1, <1>2, <2>1 DEF IInv, TableOK, MarkedOK, SkippedOK
  <1> QED BY <1>c, <1>6, <1>8, <1>9, <1>10 DEF IInv

(* Shutdown: the remove function is called for the entry of the card alone. *)
LEMMA ShutdownIInv ==
  ASSUME IInv, OSS32_Shutdown
  PROVE  IInv'
  <1>0. /\ step.at = "up" /\ step' = At("down", None, 0)
        /\ UNCHANGED <<machine, hResMgr, object, allocated, cards, shorted, asleep, suspended>>
    BY DEF OSS32_Shutdown
  <1>1. PICK v \in Cards :
          /\ cards \cap Range(IdTable[v]) # {}
          /\ removed' = {<<s, pci_devices[s].data>> : s \in Matches(v)}
          /\ pci_devices' = [s \in 1 .. Slots |->
                               IF s \in Matches(v)
                               THEN [pci_devices[s] EXCEPT !.data = None]
                               ELSE pci_devices[s]]
    BY DEF OSS32_Shutdown
  <1>2. Skipped' = Skipped
    BY <1>0 DEF Skipped, machine
  <1>3. /\ \A s \in 1 .. Slots : s = 1 \/ s = 2 \/ s \in 3 .. Slots
        /\ 1 \in 1 .. Slots
    BY PciAssumption
  <1>4. \A t \in Cards : None \notin Range(IdTable[t])
    <2>1. \A t \in Cards : Range(IdTable[t]) \subseteq Ids
      BY Places, Tables DEF Range
    <2> QED BY <2>1, Places
  <1>8. /\ step'.at = "down"
        /\ step' \in [at : {"modules", "search", "alloc", "probe", "up", "failed", "down"},
                     driver : Drivers \cup {None}, i : Nat, slot : 0 .. Slots,
                     todo : SUBSET Resources, saved : Ids \cup {None}]
    BY <1>0, PciAssumption DEF At
  <1>9. RemovedOK'
    <2> SUFFICES ASSUME ~Skipped PROVE RemovedOnce'
      BY <1>2 DEF RemovedOK
    <2>1. PICK c \in Ids, u \in Cards :
            /\ cards = {c} /\ c \in Range(IdTable[u])
            /\ \A t \in Cards : c \in Range(IdTable[t]) => t = u
            /\ pci_devices[1].data = c /\ pci_devices[1].id = c
            /\ \A t \in Cards : pci_devices[2].id \notin Range(IdTable[t])
            /\ \A s \in 3 .. Slots : pci_devices[s] = Empty
      BY <1>0, LoadedTable
    <2>2. v = u
      BY <1>1, <2>1
    <2>3. Matches(v) = {1}
      BY <1>3, <1>4, <2>1, <2>2 DEF Matches, Empty
    <2>4. removed' = {<<1, c>>}
      BY <1>1, <2>1, <2>3
    <2>5. {p[2] : p \in removed'} = cards' /\ \A p, q \in removed' : p[2] = q[2] => p = q
      BY <1>0, <2>1, <2>4
    <2> QED BY <2>5 DEF RemovedOnce
  <1>10. TypeOK'
    <2>1. pci_devices' \in [1 .. Slots -> Devices]
      BY <1>1, Parts DEF Devices
    <2>2. removed' \subseteq (1 .. Slots) \X (Ids \cup {None})
      <3>1. \A s \in 1 .. Slots : pci_devices[s].data \in Ids \cup {None}
        BY Parts DEF Devices
      <3> QED BY <1>1, <3>1 DEF Matches
    <2> QED BY <1>0, <1>8, <2>1, <2>2 DEF IInv, TypeOK, machine, Devices
  <1>11. \A d : Held(d)' = Held(d)
    BY <1>0 DEF Held
  <1>12. /\ StepOK' /\ EntryOK' /\ ObjectOK' /\ HandleMatchesProbe' /\ NotYet' /\ AsleepOK'
         /\ TableOK'
    BY <1>0, <1>2, <1>8
       DEF IInv, StepOK, EntryOK, ObjectOK, HandleMatchesProbe, NotYet, AsleepOK, TableOK,
           Early, Busy
  <1>13. AllOrNone' /\ CardHoldsResources'
    BY <1>0, <1>11 DEF IInv, AllOrNone, CardHoldsResources
  <1> QED BY <1>9, <1>10, <1>12, <1>13 DEF IInv

(***************************************************************************)
(* The theorems.                                                           *)
(***************************************************************************)

(* The inductive invariant holds in every reachable state. *)
THEOREM Invariance == Spec => []IInv
  <1>1. Init => IInv
    <2> SUFFICES ASSUME Init PROVE IInv
      OBVIOUS
    <2>1. step.at = "modules" /\ Early /\ ~Busy
      BY DEF Init, At, Early, Busy
    <2>2. TypeOK
      <3>1. step \in [at : {"modules", "search", "alloc", "probe", "up", "failed", "down"},
                     driver : Drivers \cup {None}, i : Nat, slot : 0 .. Slots,
                     todo : SUBSET Resources, saved : Ids \cup {None}]
        BY PciAssumption DEF Init, At
      <3>2. origin \subseteq Ids
        BY PciAssumption DEF Init
      <3> QED BY <3>1, <3>2 DEF Init, TypeOK, Empty, NoObject
    <2>3. \A d : Held(d) = {}
      BY DEF Init, Held
    <2>4. TableOK
      BY <2>1, PciAssumption DEF Init, TableOK, Empty
    <2>5. /\ StepOK /\ EntryOK /\ ObjectOK /\ HandleMatchesProbe /\ NotYet /\ AsleepOK
          /\ RemovedOK
      BY <2>1, <2>3 DEF Init, StepOK, EntryOK, ObjectOK, HandleMatchesProbe, NotYet, AsleepOK,
                        RemovedOK, RemovedOnce
    <2>6. AllOrNone /\ CardHoldsResources
      BY <2>3 DEF Init, AllOrNone, CardHoldsResources
    <2> QED BY <2>2, <2>4, <2>5, <2>6 DEF IInv
  <1>2. IInv /\ [Next]_vars => IInv'
    <2> SUFFICES ASSUME IInv, [Next]_vars PROVE IInv'
      OBVIOUS
    <2>1. CASE UNCHANGED vars
      <3>1. TypeOK' /\ AsleepOK' /\ RemovedOK'
        BY <2>1 DEF vars, IInv, TypeOK, AsleepOK, RemovedOK, RemovedOnce, Skipped
      <3>2. TableOK' /\ HandleMatchesProbe'
        BY <2>1 DEF vars, IInv, TableOK, MarkedOK, SkippedOK, HandleMatchesProbe, Busy, Early,
                    Skipped, Device
      <3>3. StepOK' /\ EntryOK' /\ ObjectOK'
        BY <2>1 DEF vars, IInv, StepOK, EntryOK, ObjectOK, Busy, Entry, Skipped, Wanted, Device,
                    Held
      <3>4. NotYet' /\ AllOrNone' /\ CardHoldsResources'
        BY <2>1 DEF vars, IInv, NotYet, AllOrNone, CardHoldsResources, Busy, Wanted, Held, Searched
      <3> QED BY <3>1, <3>2, <3>3, <3>4 DEF IInv
    <2>2. CASE ProbeSucceeds
      BY <2>2, CardSucceedsIInv, CompanionSucceedsIInv
    <2> QED BY <2>1, <2>2, InitModulesIInv, SearchAbsentIInv, SearchPresentIInv,
               FoundDeviceIInv, AllocDetectedIInv, RequestIInv, ProbeFailsIInv,
               NotFoundIInv, PowerIInv, ShutdownIInv DEF Next
  <1> QED BY <1>1, <1>2, PTL DEF Spec

(* Whatever was refused on the way, resources are requested for the device  *)
(* being probed; pci_find_device and rm.cpp keep those of a device whole    *)
(* and for as long as its card is there, unless an FM or MPU port was       *)
(* refused to it.                                                           *)
THEOREM ResourcesStayHeld == Spec => []ResourcesHeld
  <1>1. IInv => ResourcesHeld
    BY DEF IInv, ResourcesHeld
  <1> QED BY <1>1, Invariance, PTL

(* Whatever failed searches left in the device table: suspend puts every    *)
(* card with power management to sleep, resume wakes it, and shutdown       *)
(* removes the card that was brought up and nothing else, unless its devfn  *)
(* is 0; and every entry in use has a driver.                               *)
THEOREM CardsStayManaged == Spec => []CardsManaged
  <1>1. IInv => CardsManaged
    <2> SUFFICES ASSUME IInv PROVE CardsManaged
      OBVIOUS
    <2>1. ~Skipped => RemovedOnce /\ PowerReachesCards
      BY DEF IInv, RemovedOK, AsleepOK, PowerReachesCards
    <2>2. EntriesHaveDrivers
      <3> SUFFICES ASSUME step.at = "up", NEW s \in 1 .. Slots, pci_devices[s].used
                   PROVE  pci_devices[s].driver # None
        BY DEF EntriesHaveDrivers
      <3>1. s = 1 \/ s = 2 \/ s \in 3 .. Slots
        BY PciAssumption
      <3>2. CASE Skipped
        <4>1. s = 1 \/ s \in 2 .. Slots
          BY PciAssumption
        <4> QED BY <3>2, <4>1, SkippedTable
      <3>3. CASE ~Skipped
        <4>1. /\ pci_devices[1].driver # None
              /\ pci_devices[2].used => pci_devices[2].driver # None
              /\ \A t \in 3 .. Slots : pci_devices[t] = Empty
          BY <3>3, LoadedTable, Places
        <4> QED BY <3>1, <4>1 DEF Empty
      <3> QED BY <3>2, <3>3
    <2> QED BY <2>1, <2>2 DEF CardsManaged, Skipped
  <1> QED BY <1>1, Invariance, PTL
=============================================================================
