------------------------------- MODULE PciBus -------------------------------
(***************************************************************************)
(* Finding the card: OSS32_Initialize and OSS32_Shutdown of                *)
(* lib32/ossidc.cpp, the device table of lib32/pci.c and the resource      *)
(* manager object of drv32/rm.cpp that holds a device's I/O ranges, memory *)
(* and interrupt while its driver is probed.                               *)
(*                                                                         *)
(* All of this runs at INIT or task time, one call after the other; what   *)
(* varies is the machine: which devices it has, which resources other      *)
(* OS/2 drivers hold, which probes fail and where.  An entry of            *)
(* pci_devices is free when its devfn is 0; every search writes the ids    *)
(* it looks for into the first free entry, found or not.                   *)
(***************************************************************************)
EXTENDS Naturals, Sequences, SequencesExt

CONSTANTS CardDrivers,   \* the pci_drivers OSS32_Initialize tries, in order
          Companion,     \* [CardDrivers -> the joystick driver it adds, or None]
          IdTable,       \* [drivers -> sequence of vendor and device ids]
          Bars,          \* [ids -> resources read from configuration space]
          Legacy,        \* [drivers -> FM and MPU ports its probe asks for]
          Shareable,     \* resources granted more than once (interrupts)
          PowerManaged,  \* drivers with suspend and resume functions
          Layouts,       \* which devices may be at device 0, function 0 of a bus
          Slots,         \* MAX_PCI_DEVICES
          None           \* a NULL pointer, a zero handle

Cards == {CardDrivers[k] : k \in DOMAIN CardDrivers}
Drivers == DOMAIN IdTable
Ids == DOMAIN Bars
Resources == (UNION {Bars[d] : d \in Ids}) \cup (UNION {Legacy[v] : v \in Drivers})

(* The tables of the drivers name different devices; the joystick drivers   *)
(* have no suspend and resume functions.                                    *)
ASSUME PciAssumption ==
  /\ Slots \in Nat \ {0, 1} /\ None \notin Ids \cup Drivers
  /\ CardDrivers \in Seq(Drivers) /\ IsInjective(CardDrivers)
  /\ DOMAIN Companion = Cards
  /\ \A v \in Cards : Companion[v] \in (Drivers \ Cards) \cup {None}
  /\ \A v \in Drivers : /\ IdTable[v] \in Seq(Ids) /\ IsInjective(IdTable[v])
                        /\ Legacy[v] \cap UNION {Bars[d] : d \in Ids} = {}
  /\ \A v, w \in Drivers : v # w => Range(IdTable[v]) \cap Range(IdTable[w]) = {}
  /\ \A d \in Ids : Bars[d] # {}
  /\ PowerManaged \subseteq Cards /\ Layouts \subseteq SUBSET Ids

VARIABLES present,      \* the devices the machine has
          origin,       \* the devices whose devfn is 0
          taken,        \* resources held by other OS/2 drivers
          force,        \* ForceCard, or None
          pci_devices,  \* the device table
          hResMgr,      \* device whose object the global handle names, or None
          object,       \* the ResourceManager object that exists, or NoObject
          allocated,    \* <<device, resource>> the OS/2 resource manager granted
          step,         \* where initialisation has got to
          cards,        \* cards the successful probes created
          shorted,      \* devices whose probe was refused an FM or MPU port
          removed,      \* what the drivers' remove functions were called with
          asleep,       \* cards whose driver's suspend function was called
          suspended     \* the last power event was a suspend

vars == <<present, origin, taken, force, pci_devices, hResMgr, object, allocated,
          step, cards, shorted, removed, asleep, suspended>>
machine == <<present, origin, taken, force>>

NoObject == [dev |-> None, held |-> {}, resources |-> {}]
Empty == [id |-> None, used |-> FALSE, driver |-> None, data |-> None]

(* step.at: "search" (pci_find_device for entry i of driver's table is next), *)
(* "alloc" (inside it, todo not yet requested), "probe", then "up" or         *)
(* "failed", and "down" after shutdown.  saved is hResMgrTmp.                 *)
At(where, v, i) == [at |-> where, driver |-> v, i |-> i, slot |-> 0,
                    todo |-> {}, saved |-> None]

Init ==
  /\ present \in SUBSET Ids /\ origin \in Layouts
  /\ taken \in SUBSET (Resources \ Shareable)
  /\ force \in Cards \cup {None}
  /\ pci_devices = [s \in 1 .. Slots |-> Empty]
  /\ hResMgr = None /\ object = NoObject /\ allocated = {}
  /\ step = At("modules", None, 0)
  /\ cards = {} /\ shorted = {} /\ removed = {} /\ asleep = {}
  /\ suspended = FALSE

(***************************************************************************)
(* The resource manager object.                                            *)
(***************************************************************************)
Held(d) == {r \in Resources : <<d, r>> \in allocated}

(* RMAllocResource: exclusive ranges go to one owner, an interrupt to many. *)
RMAllocResource(r) ==
  r \notin taken /\ (r \in Shareable \/ \A d \in Ids : r \notin Held(d))

(* Mutant: what was granted before the refusal is kept. *)
ReleaseNothing(o) == o

(* Gives the granted resources back; the list of them is not cleared. *)
releaseAllResources(o) == [o EXCEPT !.held = {}]

(* requestIORange, requestMemRange, requestIRQ and requestDMA: the object    *)
(* after the request.  The arrays have room for more than any driver wants.  *)
Request(o, r) ==
  IF r \in o.resources THEN o
  ELSE IF RMAllocResource(r)
  THEN [o EXCEPT !.held = @ \cup {r}, !.resources = @ \cup {r}]
  ELSE releaseAllResources(o)

(* The answer, and the grants OS/2 has on record once the request is over. *)
Granted(o, r) == r \in o.resources \/ RMAllocResource(r)
GrantsOf(o, p) == (allocated \ {<<o.dev, r>> : r \in o.held})
                    \cup {<<p.dev, r>> : r \in p.held}

(***************************************************************************)
(* pci_find_device and FindPCIDevice.                                      *)
(***************************************************************************)
FreeSlots == {s \in 1 .. Slots : ~pci_devices[s].used}
FirstFree == CHOOSE s \in FreeSlots : \A t \in FreeSlots : s <= t
Wanted == IdTable[step.driver][step.i]
Searching == step.at = "search" /\ step.i <= Len(IdTable[step.driver])

(* The search starts by writing the ids into the entry, and fails at once   *)
(* when configuration space has no such device (RMFindPCIDevice: the object *)
(* is made and deleted again).                                              *)
Enter(s, d) == pci_devices' = [pci_devices EXCEPT ![s].id = d]

SearchAbsent ==
  /\ Searching /\ FreeSlots # {} /\ Wanted \notin present
  /\ Enter(FirstFree, Wanted)
  /\ step' = At("search", step.driver, step.i + 1)
  /\ UNCHANGED <<machine, hResMgr, object, allocated, cards, shorted, removed,
                 asleep, suspended>>

SearchPresent ==
  /\ Searching /\ FreeSlots # {} /\ Wanted \in present
  /\ Enter(FirstFree, Wanted)
  /\ object' = [NoObject EXCEPT !.dev = Wanted]
  /\ step' = [step EXCEPT !.at = "alloc", !.slot = FirstFree,
                          !.todo = Bars[Wanted], !.saved = hResMgr]
  /\ hResMgr' = None
  /\ UNCHANGED <<machine, allocated, cards, shorted, removed, asleep, suspended>>

(* _pahRMAllocDetectedResources, one resource; a refusal ends the search. *)
AllocDetected(r) ==
  /\ step.at = "alloc" /\ r \in step.todo
  /\ LET o == Request(object, r)
     IN  /\ allocated' = GrantsOf(object, o)
         /\ IF Granted(object, r)
            THEN /\ object' = o
                 /\ step' = [step EXCEPT !.todo = @ \ {r}]
                 /\ UNCHANGED hResMgr
            ELSE /\ object' = NoObject /\ hResMgr' = step.saved
                 /\ step' = At("search", step.driver, step.i + 1)
  /\ UNCHANGED <<machine, pci_devices, cards, shorted, removed, asleep, suspended>>

(* Requests of a probe: the device's own resources, then the legacy ports. *)
ProbeRequests(v, d) == IF v \in Cards THEN Bars[d] \cup Legacy[v] ELSE {}

(* Mutant: devfn is not copied, so the entry still counts as free. *)
FoundUnmarked ==
  /\ step.at = "alloc" /\ step.todo = {}
  /\ hResMgr' = object.dev
  /\ step' = [step EXCEPT !.at = "probe",
                          !.todo = ProbeRequests(step.driver, object.dev)]
  /\ UNCHANGED <<machine, pci_devices, object, allocated, cards, shorted,
                 removed, asleep, suspended>>

(* The device is there and its resources are ours.  A devfn of 0 leaves the *)
(* entry free.  A handle that was set before the search is put back, and    *)
(* then the new object is destroyed.                                        *)
FoundDevice ==
  /\ step.at = "alloc" /\ step.todo = {}
  /\ pci_devices' = [pci_devices EXCEPT ![step.slot].used = (object.dev \notin origin)]
  /\ IF step.saved = None
     THEN hResMgr' = object.dev /\ UNCHANGED object
     ELSE hResMgr' = step.saved /\ object' = NoObject
  /\ step' = [step EXCEPT !.at = "probe",
                          !.todo = ProbeRequests(step.driver, object.dev)]
  /\ UNCHANGED <<machine, allocated, cards, shorted, removed, asleep, suspended>>

(***************************************************************************)
(* The probe, called by pci_register_driver.  request_region and           *)
(* request_irq go to the object hResMgr names.  A driver gives up when its *)
(* own resources are refused; without FM or MPU ports it goes on.          *)
(***************************************************************************)
Device == pci_devices[step.slot].id
Own(r) == r \in Bars[Device]

(* A failed probe: devfn is cleared and RMDestroy deletes the object, which *)
(* gives nothing back to OS/2.                                              *)
Unclaim ==
  /\ pci_devices' = [pci_devices EXCEPT ![step.slot].used = FALSE]
  /\ object' = NoObject
  /\ hResMgr' = None

__request_region(r) ==
  /\ step.at = "probe" /\ r \in step.todo
  /\ Own(r) \/ \A q \in step.todo : ~Own(q)
  /\ LET o == Request(object, r)
     IN  /\ allocated' = GrantsOf(object, o)
         /\ IF Own(r) /\ ~Granted(object, r)
            THEN /\ Unclaim
                 /\ step' = At("search", step.driver, step.i + 1)
            ELSE /\ object' = o
                 /\ step' = [step EXCEPT !.todo = @ \ {r}]
                 /\ UNCHANGED <<pci_devices, hResMgr>>
  /\ shorted' = IF Granted(object, r) THEN shorted ELSE shorted \cup {Device}
  /\ UNCHANGED <<machine, cards, removed, asleep, suspended>>

(* The probe fails on the hardware or for want of memory. *)
ProbeFails ==
  /\ step.at = "probe"
  /\ Unclaim
  /\ step' = At("search", step.driver, step.i + 1)
  /\ UNCHANGED <<machine, allocated, cards, shorted, removed, asleep, suspended>>

(***************************************************************************)
(* OSS32_Initialize: the drivers are tried in turn until one finds its     *)
(* card.                                                                   *)
(***************************************************************************)
ToTry(k) == {j \in DOMAIN CardDrivers : j > k /\ force \in {None, CardDrivers[j]}}
TryAfter(k) ==
  IF ToTry(k) = {} THEN At("failed", None, 0)
  ELSE LET j == CHOOSE j \in ToTry(k) : \A l \in ToTry(k) : j <= l
       IN  At("search", CardDrivers[j], 1)
PlaceOf(v) == CHOOSE k \in DOMAIN CardDrivers : CardDrivers[k] = v
WithCompanion(v) ==
  IF v \in Cards /\ Companion[v] # None THEN At("search", Companion[v], 1)
  ELSE At("up", None, 0)

(* The ALSA modules that come before the cards; one may fail. *)
InitModules ==
  /\ step.at = "modules"
  /\ step' \in {TryAfter(0), At("failed", None, 0)}
  /\ UNCHANGED <<machine, pci_devices, hResMgr, object, allocated, cards,
                 shorted, removed, asleep, suspended>>

(* The driver is stored in the table, its card in the entry's driver data;  *)
(* RMFinialize registers the resources and deletes the object.              *)
ProbeSucceeds ==
  /\ step.at = "probe" /\ step.todo = {}
  /\ object' = NoObject /\ hResMgr' = None
  /\ IF step.driver \in Cards
     THEN /\ pci_devices' = [pci_devices EXCEPT
                               ![step.slot].driver = step.driver,
                               ![step.slot].data = Device]
          /\ cards' = cards \cup {Device}
     ELSE /\ pci_devices' = [pci_devices EXCEPT
                               ![step.slot].driver = step.driver]
          /\ UNCHANGED cards
  /\ step' = WithCompanion(step.driver)
  /\ UNCHANGED <<machine, allocated, shorted, removed, asleep, suspended>>

(* The end of an id table: pci_module_init returns -ENODEV. *)
NotFound ==
  /\ step.at = "search" /\ step.i > Len(IdTable[step.driver])
  /\ step' = IF step.driver \in Cards THEN TryAfter(PlaceOf(step.driver))
             ELSE At("up", None, 0)
  /\ UNCHANGED <<machine, pci_devices, hResMgr, object, allocated, cards,
                 shorted, removed, asleep, suspended>>

(***************************************************************************)
(* Once the driver is loaded: power management and shutdown.               *)
(***************************************************************************)
Managed == {s \in 1 .. Slots : pci_devices[s].used
                                 /\ pci_devices[s].driver \in PowerManaged}

OSS32_APMSuspend ==
  /\ step.at = "up"
  /\ asleep' = asleep \cup {pci_devices[s].data : s \in Managed}
  /\ suspended' = TRUE
  /\ UNCHANGED <<machine, pci_devices, hResMgr, object, allocated, step, cards,
                 shorted, removed>>

OSS32_APMResume ==
  /\ step.at = "up"
  /\ asleep' = asleep \ {pci_devices[s].data : s \in Managed}
  /\ suspended' = FALSE
  /\ UNCHANGED <<machine, pci_devices, hResMgr, object, allocated, step, cards,
                 shorted, removed>>

(* pci_unregister_driver goes by the ids alone, used entries and others. *)
Matches(v) == {s \in 1 .. Slots : pci_devices[s].id \in Range(IdTable[v])}

(* The exit function of the driver that was started; a joystick driver has *)
(* no remove function.                                                     *)
OSS32_Shutdown ==
  /\ step.at = "up"
  /\ \E v \in Cards :
       /\ cards \cap Range(IdTable[v]) # {}
       /\ removed' = {<<s, pci_devices[s].data>> : s \in Matches(v)}
       /\ pci_devices' = [s \in 1 .. Slots |->
                            IF s \in Matches(v)
                            THEN [pci_devices[s] EXCEPT !.data = None]
                            ELSE pci_devices[s]]
  /\ step' = At("down", None, 0)
  /\ UNCHANGED <<machine, hResMgr, object, allocated, cards, shorted, asleep,
                 suspended>>

Next == \/ InitModules \/ SearchAbsent \/ SearchPresent \/ FoundDevice
        \/ \E r \in Resources : AllocDetected(r) \/ __request_region(r)
        \/ ProbeFails \/ ProbeSucceeds \/ NotFound
        \/ OSS32_APMSuspend \/ OSS32_APMResume \/ OSS32_Shutdown

Spec == Init /\ [][Next]_vars

(***************************************************************************)
(* Properties.                                                             *)
(***************************************************************************)

(* Every variable has the type its declaration gives it. *)
TypeOK ==
  /\ present \subseteq Ids /\ origin \subseteq Ids /\ taken \subseteq Resources
  /\ force \in Cards \cup {None}
  /\ pci_devices \in [1 .. Slots -> [id : Ids \cup {None}, used : BOOLEAN,
                        driver : Drivers \cup {None}, data : Ids \cup {None}]]
  /\ hResMgr \in Ids \cup {None}
  /\ object \in [dev : Ids \cup {None}, held : SUBSET Resources,
                 resources : SUBSET Resources]
  /\ allocated \subseteq Ids \X Resources
  /\ step \in [at : {"modules", "search", "alloc", "probe", "up", "failed", "down"},
               driver : Drivers \cup {None}, i : Nat, slot : 0 .. Slots,
               todo : SUBSET Resources, saved : Ids \cup {None}]
  /\ cards \subseteq Ids /\ shorted \subseteq Ids /\ asleep \subseteq cards
  /\ suspended \in BOOLEAN
  /\ removed \subseteq (1 .. Slots) \X (Ids \cup {None})

(* While a probe runs, the global handle names the object of the device     *)
(* being probed, so its requests are made for that device; at every other   *)
(* time it is 0 and no object is left, whichever searches and probes failed *)
(* before.                                                                  *)
HandleMatchesProbe ==
  IF step.at = "probe" THEN hResMgr = Device /\ object.dev = Device
  ELSE hResMgr = None /\ (object # NoObject => step.at = "alloc")

(* "Either all resources are allocated, or none": a device that holds       *)
(* anything outside its own search holds all that its configuration space   *)
(* names, unless an FM or MPU port was refused to its probe.                *)
AllOrNone ==
  \A d \in Ids : \/ Held(d) = {} \/ Bars[d] \subseteq Held(d)
                 \/ step.at = "alloc" /\ object.dev = d
                 \/ d \in shorted

(* A card that was brought up owns the resources it works with, so that no  *)
(* driver loaded later can be given them; its FM and MPU ports must not     *)
(* have been refused for this.                                              *)
CardHoldsResources == \A c \in cards \ shorted : Bars[c] \subseteq Held(c)

(* Whatever was refused on the way, resources are requested for the device  *)
(* being probed.  A device that was refused no FM or MPU port keeps its own *)
(* whole, and as long as its card is there; for one that was, see           *)
(* EveryCardHoldsResources.                                                 *)
ResourcesHeld == TypeOK /\ HandleMatchesProbe /\ AllOrNone /\ CardHoldsResources

(* What rm.cpp says the allocation is for: every card holds its resources.  *)
(* A card whose FM or MPU port was refused has lost them and works on.      *)
EveryCardHoldsResources == \A c \in cards : Bars[c] \subseteq Held(c)

(* At shutdown the remove function is called for the entry of the card that *)
(* was brought up, once, and for no entry that failed searches left behind. *)
RemovedOnce ==
  step.at = "down" => /\ {p[2] : p \in removed} = cards
                      /\ \A p, q \in removed : p[2] = q[2] => p = q

(* After a suspend every card that has power management is asleep, and      *)
(* after a resume none is.                                                  *)
PowerReachesCards ==
  step.at = "up" =>
    asleep = IF suspended
             THEN {c \in cards : \E v \in PowerManaged : c \in Range(IdTable[v])}
             ELSE {}

(* Every entry in use has a driver for suspend and resume to look at once   *)
(* initialisation is over.                                                  *)
EntriesHaveDrivers ==
  step.at = "up" =>
    \A s \in 1 .. Slots : pci_devices[s].used => pci_devices[s].driver # None

(* The table of devices leads suspend, resume and shutdown to the cards     *)
(* that were brought up and to nothing else, unless a card has devfn 0: its *)
(* entry counts as free (EveryCardManaged).                                 *)
CardsManaged ==
  EntriesHaveDrivers /\ (cards \cap origin = {} => RemovedOnce /\ PowerReachesCards)

(* The same for every card.  It fails for a card at device 0, function 0 of *)
(* a secondary bus: suspend and resume skip its entry, and the search for   *)
(* its joystick takes the entry over, so that the card is never removed.    *)
EveryCardManaged == RemovedOnce /\ PowerReachesCards
=============================================================================
