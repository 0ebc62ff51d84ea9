------------------------------ MODULE IrqTable ------------------------------
(***************************************************************************)
(* Interrupt registration and dispatch: the handler table of lib32/irq.c   *)
(* and the hooking of lines with OS/2 of drv32/irq.cpp.                    *)
(*                                                                         *)
(* Card drivers register and remove handlers at task time; a raised        *)
(* request makes OS/2 call ALSA_Interrupt, which offers it to the handlers *)
(* of the line in table order until one claims it by calling eoi_irq.      *)
(* Lines are level triggered: a request nobody served asserts them again.  *)
(* A line whose interrupt nobody claims is shut down by OS/2.              *)
(***************************************************************************)
EXTENDS Naturals, FiniteSets

CONSTANTS Devices,       \* the x2 arguments: one per chip
          Lines,         \* the interrupt numbers in use
          Hookable,      \* those with an entry stub in pISR
          MaxShared,     \* MAX_SHAREDIRQS
          None,          \* a NULL pointer
          RmMayRefuse,   \* lines for which RMRequestIRQ may return FALSE
          HookMayFail,   \* lines for which DevIRQSet may fail, shared and exclusive
          MaxRaises      \* bound: requests each device makes

ASSUME IrqAssumption ==
  /\ None \notin Devices /\ None \notin Lines
  /\ Hookable \subseteq Lines
  /\ MaxShared \in Nat \ {0}
  /\ RmMayRefuse \subseteq Lines /\ HookMayFail \subseteq Lines
  /\ MaxRaises \in Nat

VARIABLES irqHandlers,    \* [Lines -> [Slots -> device or None]]
          nrIrqHandlers,  \* [Lines -> Nat]
          eoiIrq,         \* [Lines -> Nat]
          hooked,         \* lines OS/2 delivers to ALSA_Interrupt
          shutdown,       \* lines OS/2 has shut down
          driver,         \* [Devices -> phase of the card driver]
          line,           \* [Devices -> line it requested, or None]
          raised,         \* devices whose interrupt request is pending
          raises,         \* [Devices -> requests made so far]
          isr             \* the dispatch under way

vars == <<irqHandlers, nrIrqHandlers, eoiIrq, hooked, shutdown, driver, line,
          raised, raises, isr>>

(* Lines on which nothing is refused: what the code promises, it promises there. *)
Reliable == Hookable \ (RmMayRefuse \cup HookMayFail)
Slots == 0 .. MaxShared - 1
Phases == {"off", "bound", "failed", "unhooking"}

(* isr.at: "none", "offer" (about to call slot isr.slot), "check" (its handler *)
(* has returned) or "claimed" (DevEOI is next).                                *)
NoIsr == [at |-> "none", irq |-> None, slot |-> 0]

Init ==
  /\ irqHandlers = [q \in Lines |-> [i \in Slots |-> None]]
  /\ nrIrqHandlers = [q \in Lines |-> 0]
  /\ eoiIrq = [q \in Lines |-> 0]
  /\ hooked = {} /\ shutdown = {}
  /\ driver = [d \in Devices |-> "off"]
  /\ line = [d \in Devices |-> None]
  /\ raised = {} /\ raises = [d \in Devices |-> 0]
  /\ isr = NoIsr

(* The task runs only outside interrupts, one driver call at a time. *)
Task == isr.at = "none"
TaskIdle == Task /\ \A d \in Devices : driver[d] # "unhooking"

Used(q) == {i \in Slots : irqHandlers[q][i] # None}
(* Mutant: the first slot is taken without a look at what is in it. *)
FreeSlotsAll(q) == Slots

FreeSlots(q) == Slots \ Used(q)
First(S) == {i \in S : \A j \in S : i <= j}

(***************************************************************************)
(* request_irq.  A driver whose call returned 0 goes on to enable its      *)
(* interrupt ("bound"); one that got 1 gives up and frees its chip.        *)
(***************************************************************************)
Answer(d, q, phase) ==
  /\ driver' = [driver EXCEPT ![d] = phase]
  /\ line' = [line EXCEPT ![d] = q]

RMSetIrq(q, hookOk) == q \in Hookable /\ hookOk

(* "RMRequestIRQ failed": returns NULL.  A line above 15 ends the same way. *)
RequestRefused(d, q) ==
  /\ q \in RmMayRefuse
  /\ Answer(d, q, "bound")
  /\ UNCHANGED <<irqHandlers, nrIrqHandlers, hooked>>

RequestTableFull(d, q) ==
  /\ FreeSlots(q) = {}
  /\ Answer(d, q, "failed")
  /\ UNCHANGED <<irqHandlers, nrIrqHandlers, hooked>>

(* Mutant: a handler whose line could not be hooked stays, uncounted. *)
RequestUncounted(d, q, hookOk) ==
  /\ \E i \in First(FreeSlots(q)) :
       irqHandlers' = [irqHandlers EXCEPT ![q][i] = d]
  /\ IF nrIrqHandlers[q] # 0 \/ RMSetIrq(q, hookOk)
     THEN /\ hooked' = hooked \cup {q} /\ Answer(d, q, "bound")
          /\ nrIrqHandlers' = [nrIrqHandlers EXCEPT ![q] = @ + 1]
     ELSE hooked' = hooked /\ nrIrqHandlers' = nrIrqHandlers
          /\ Answer(d, q, "failed")

RequestSlot(d, q, hookOk) ==
  /\ \E i \in First(FreeSlots(q)) :
       irqHandlers' = [irqHandlers EXCEPT ![q][i] = d]
  /\ nrIrqHandlers' = [nrIrqHandlers EXCEPT ![q] = @ + 1]
  /\ IF nrIrqHandlers[q] # 0
     THEN hooked' = hooked /\ Answer(d, q, "bound")
     ELSE IF RMSetIrq(q, hookOk)
     THEN hooked' = hooked \cup {q} /\ Answer(d, q, "bound")
     ELSE hooked' = hooked /\ Answer(d, q, "failed")

request_irq(d, q) ==
  /\ TaskIdle /\ driver[d] = "off"
  /\ \/ RequestRefused(d, q)
     \/ RequestTableFull(d, q)
     \/ \E hookOk \in {TRUE, q \notin HookMayFail} : RequestSlot(d, q, hookOk)
  /\ UNCHANGED <<eoiIrq, shutdown, raised, raises, isr>>

(***************************************************************************)
(* free_irq, called once the chip's interrupt is disabled.  An interrupt   *)
(* may come between clearing the slot and RMFreeIrq.                       *)
(***************************************************************************)
SlotsOf(d, q) == {i \in Slots : irqHandlers[q][i] = d}

(* Mutant: the count drops even when the handler is not in the table. *)
FreeUncheckedCount(d) ==
  /\ TaskIdle /\ driver[d] = "bound"
  /\ irqHandlers' = [irqHandlers EXCEPT ![line[d]] =
                       [i \in Slots |-> IF @[i] = d THEN None ELSE @[i]]]
  /\ nrIrqHandlers' = [nrIrqHandlers EXCEPT ![line[d]] = @ - 1]
  /\ driver' = [driver EXCEPT ![d] = "off"]
  /\ raised' = raised \ {d}
  /\ UNCHANGED <<eoiIrq, hooked, shutdown, line, raises, isr>>

(* Mutant: the line is never unhooked. *)
FreeStaysHooked(d) ==
  /\ TaskIdle /\ driver[d] = "bound"
  /\ \E i \in First(SlotsOf(d, line[d])) :
       irqHandlers' = [irqHandlers EXCEPT ![line[d]][i] = None]
  /\ nrIrqHandlers' = [nrIrqHandlers EXCEPT ![line[d]] = @ - 1]
  /\ driver' = [driver EXCEPT ![d] = "off"]
  /\ raised' = raised \ {d}
  /\ UNCHANGED <<eoiIrq, hooked, shutdown, line, raises, isr>>

(* Mutant: the line is unhooked with every handler, not only the last. *)
FreeAlwaysUnhooks(d) ==
  /\ TaskIdle /\ driver[d] = "bound"
  /\ \E i \in First(SlotsOf(d, line[d])) :
       irqHandlers' = [irqHandlers EXCEPT ![line[d]][i] = None]
  /\ nrIrqHandlers' = [nrIrqHandlers EXCEPT ![line[d]] = @ - 1]
  /\ driver' = [driver EXCEPT ![d] = "unhooking"]
  /\ raised' = raised \ {d}
  /\ UNCHANGED <<eoiIrq, hooked, shutdown, line, raises, isr>>

free_irq(d) ==
  /\ TaskIdle /\ driver[d] = "bound"
  /\ LET q == line[d]
         s == SlotsOf(d, q)
     IN  IF s = {}
         THEN /\ driver' = [driver EXCEPT ![d] = "off"]
              /\ UNCHANGED <<irqHandlers, nrIrqHandlers>>
         ELSE /\ \E i \in First(s) :
                   irqHandlers' = [irqHandlers EXCEPT ![q][i] = None]
              /\ nrIrqHandlers' = [nrIrqHandlers EXCEPT ![q] = @ - 1]
              /\ driver' = [driver EXCEPT
                              ![d] = IF nrIrqHandlers'[q] = 0 THEN "unhooking"
                                                              ELSE "off"]
  /\ raised' = raised \ {d}
  /\ UNCHANGED <<eoiIrq, hooked, shutdown, line, raises, isr>>

RMFreeIrq(d) ==
  /\ Task /\ driver[d] = "unhooking"
  /\ hooked' = hooked \ {line[d]}
  /\ driver' = [driver EXCEPT ![d] = "off"]
  /\ UNCHANGED <<irqHandlers, nrIrqHandlers, eoiIrq, shutdown, line, raised,
                 raises, isr>>

(* A chip that has been set up requests service, at any moment. *)
Raise(d) ==
  /\ driver[d] = "bound" /\ d \notin raised
  /\ raises[d] < MaxRaises
  /\ raised' = raised \cup {d}
  /\ raises' = [raises EXCEPT ![d] = @ + 1]
  /\ UNCHANGED <<irqHandlers, nrIrqHandlers, eoiIrq, hooked, shutdown, driver,
                 line, isr>>

(***************************************************************************)
(* ALSA_Interrupt and oss_process_interrupt.                               *)
(***************************************************************************)
Asserted(q) == \E d \in raised : line[d] = q

ALSA_Interrupt(q) ==
  /\ Task /\ q \in hooked \ shutdown /\ Asserted(q)
  /\ isr' = [at |-> "offer", irq |-> q, slot |-> 0]
  /\ UNCHANGED <<irqHandlers, nrIrqHandlers, eoiIrq, hooked, shutdown, driver,
                 line, raised, raises>>

(* One handler: if the request is its chip's it serves it and calls eoi_irq. *)
OfferToHandler ==
  /\ isr.at = "offer" /\ isr.slot \in Slots
  /\ LET d == irqHandlers[isr.irq][isr.slot]
     IN  IF d = None
         THEN isr' = [isr EXCEPT !.slot = @ + 1] /\ UNCHANGED <<raised, eoiIrq>>
         ELSE /\ isr' = [isr EXCEPT !.at = "check"]
              /\ raised' = raised \ {d}
              /\ eoiIrq' = IF d \in raised
                           THEN [eoiIrq EXCEPT ![isr.irq] = @ + 1] ELSE eoiIrq
  /\ UNCHANGED <<irqHandlers, nrIrqHandlers, hooked, shutdown, driver, line,
                 raises>>

(* Mutant: the acknowledgement is not taken back once it was seen. *)
CheckEoiKept ==
  /\ isr.at = "check"
  /\ isr' = IF eoiIrq[isr.irq] > 0
            THEN [isr EXCEPT !.at = "claimed"]
            ELSE [isr EXCEPT !.at = "offer", !.slot = @ + 1]
  /\ UNCHANGED <<irqHandlers, nrIrqHandlers, eoiIrq, hooked, shutdown, driver,
                 line, raised, raises>>

(* Mutant: only the first handler of a line is asked. *)
CheckFirstOnly ==
  /\ isr.at = "check"
  /\ IF eoiIrq[isr.irq] > 0
     THEN /\ eoiIrq' = [eoiIrq EXCEPT ![isr.irq] = 0]
          /\ isr' = [isr EXCEPT !.at = "claimed"]
     ELSE /\ isr' = [isr EXCEPT !.at = "offer", !.slot = MaxShared]
          /\ UNCHANGED eoiIrq
  /\ UNCHANGED <<irqHandlers, nrIrqHandlers, hooked, shutdown, driver, line,
                 raised, raises>>

(* rc = (eoiIrq[irq] > 0); when it is, OSS32_ProcessIRQ tells the 16-bit side. *)
CheckEoi ==
  /\ isr.at = "check"
  /\ IF eoiIrq[isr.irq] > 0
     THEN /\ eoiIrq' = [eoiIrq EXCEPT ![isr.irq] = 0]
          /\ isr' = [isr EXCEPT !.at = "claimed"]
     ELSE /\ isr' = [isr EXCEPT !.at = "offer", !.slot = @ + 1]
          /\ UNCHANGED eoiIrq
  /\ UNCHANGED <<irqHandlers, nrIrqHandlers, hooked, shutdown, driver, line,
                 raised, raises>>

DevEOI ==
  /\ isr.at = "claimed"
  /\ isr' = NoIsr
  /\ UNCHANGED <<irqHandlers, nrIrqHandlers, eoiIrq, hooked, shutdown, driver,
                 line, raised, raises>>

NotServiced ==
  /\ isr.at = "offer" /\ isr.slot = MaxShared
  /\ isr' = NoIsr
  /\ shutdown' = shutdown \cup {isr.irq}
  /\ UNCHANGED <<irqHandlers, nrIrqHandlers, eoiIrq, hooked, driver, line,
                 raised, raises>>

Dispatch == \/ \E q \in Lines : ALSA_Interrupt(q)
            \/ OfferToHandler \/ CheckEoi \/ DevEOI \/ NotServiced

Next == \/ \E d \in Devices, q \in Lines : request_irq(d, q)
        \/ \E d \in Devices : free_irq(d) \/ RMFreeIrq(d) \/ Raise(d)
        \/ Dispatch

Spec == Init /\ [][Next]_vars

(* OS/2 keeps delivering a pending interrupt and the handlers return. *)
FairSpec == Spec /\ WF_vars(Dispatch) /\ \A d \in Devices : WF_vars(RMFreeIrq(d))

(***************************************************************************)
(* Properties.                                                             *)
(***************************************************************************)

(* Every variable has the type its declaration gives it. *)
TypeOK ==
  /\ irqHandlers \in [Lines -> [Slots -> Devices \cup {None}]]
  /\ nrIrqHandlers \in [Lines -> Nat]
  /\ eoiIrq \in [Lines -> Nat]
  /\ hooked \subseteq Lines /\ shutdown \subseteq Lines
  /\ driver \in [Devices -> Phases]
  /\ line \in [Devices -> Lines \cup {None}]
  /\ raised \subseteq Devices /\ raises \in [Devices -> Nat]
  /\ isr \in [at : {"none", "offer", "check", "claimed"},
              irq : Lines \cup {None}, slot : 0 .. MaxShared]

(* nrIrqHandlers counts the occupied slots, so request_irq hooks a line for *)
(* the first handler and free_irq unhooks it after the last, even when a    *)
(* request failed half way.                                                 *)
CountMatches == \A q \in Lines : nrIrqHandlers[q] = Cardinality(Used(q))

(* A line is unhooked only after its last handler is gone, and stays hooked *)
(* no longer than the free_irq that removed it.                             *)
HookedHasHandlers ==
  \A q \in hooked : \/ Used(q) # {}
                    \/ \E d \in Devices : driver[d] = "unhooking" /\ line[d] = q

(* eoiIrq says nothing outside a dispatch: an interrupt is never claimed on *)
(* the strength of an earlier one.                                          *)
EoiSpent == \A q \in Lines : eoiIrq[q] > 0 => isr.at = "check" /\ isr.irq = q

(* No interrupt of a registered chip goes unclaimed, so OS/2 never shuts a  *)
(* line down on which nothing was refused, however registrations, removals  *)
(* and requests interleave, there and on a neighbouring line with faults.   *)
NeverShutDown == shutdown \cap Reliable = {}

(* A driver whose request_irq returned 0 has its handler in the table and   *)
(* its line hooked, until it calls free_irq itself, when neither the        *)
(* resource manager nor OS/2 refuses that line.                             *)
SuccessMeansServed ==
  \A d \in Devices : driver[d] = "bound" /\ line[d] \in Reliable =>
     SlotsOf(d, line[d]) # {} /\ line[d] \in hooked

(* A request is served eventually, from whichever slot of a shared line,    *)
(* whatever fails on other lines.                                           *)
EveryRequestServed ==
  \A d \in Devices : d \in raised /\ line[d] \in Reliable ~> d \notin raised
=============================================================================
