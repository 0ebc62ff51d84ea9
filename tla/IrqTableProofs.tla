-------------------------- MODULE IrqTableProofs --------------------------
(***************************************************************************)
(* For any number of chips, lines and slots, and whatever the resource     *)
(* manager and OS/2 refuse: the handler count is exact, a hooked line has  *)
(* handlers, and an interrupt is claimed only on the strength of the       *)
(* handler that served it.  On the lines where nothing is refused every   *)
(* bound driver is served and no line is shut down.                        *)
(***************************************************************************)
EXTENDS IrqTable, FiniteSetTheorems, TLAPS

(* A dispatch has a line, and stands before a slot while it checks one. *)
DispatchOK ==
  /\ isr.at # "none" => isr.irq \in Lines
  /\ isr.at = "check" => isr.slot \in Slots

(* A driver past request_irq knows its line. *)
LineOK ==
  \A d \in Devices : driver[d] \in {"bound", "unhooking"} => line[d] \in Lines

(* CountMatches is inductive with the types alone; HookedHasHandlers needs  *)
(* it to know that the handler free_irq removed was the last one.           *)
IInv == /\ TypeOK /\ DispatchOK /\ LineOK
        /\ CountMatches /\ EoiSpent /\ HookedHasHandlers

(* The table of a line has finitely many slots. *)
LEMMA SlotsFinite == IsFiniteSet(Slots)
  <1>1. 0 \in Int /\ MaxShared - 1 \in Int
    BY IrqAssumption
  <1> QED BY <1>1, FS_Interval DEF Slots

(* Occupying a free slot makes the occupied ones one more. *)
LEMMA OneMore ==
  ASSUME NEW S \in SUBSET Slots, NEW i \in Slots \ S
  PROVE  Cardinality(S \cup {i}) = Cardinality(S) + 1
  BY SlotsFinite, FS_Subset, FS_AddElement

(* Clearing an occupied slot makes them one fewer. *)
LEMMA OneFewer ==
  ASSUME NEW S \in SUBSET Slots, NEW i \in S
  PROVE  /\ Cardinality(S) \in Nat \ {0}
         /\ Cardinality(S \ {i}) = Cardinality(S) - 1
  <1>1. IsFiniteSet(S)
    BY SlotsFinite, FS_Subset
  <1>2. Cardinality(S) \in Nat
    BY <1>1, FS_CardinalityType
  <1>3. Cardinality(S) # 0
    BY <1>1, FS_EmptySet
  <1>4. Cardinality(S \ {i}) = Cardinality(S) - 1
    BY <1>1, FS_RemoveElement
  <1> QED BY <1>2, <1>3, <1>4

(* Initially the table is empty. *)
LEMMA InitIInv == Init => IInv
  <1> SUFFICES ASSUME Init PROVE IInv
    OBVIOUS
  <1> USE IrqAssumption
  <1>1. TypeOK
    BY DEF Init, TypeOK, Slots, Phases, NoIsr
  <1>2. DispatchOK /\ LineOK /\ EoiSpent /\ HookedHasHandlers
    BY DEF Init, DispatchOK, LineOK, EoiSpent, HookedHasHandlers, NoIsr
  <1>3. ASSUME NEW q \in Lines PROVE Used(q) = {}
    BY <1>3 DEF Init, Used
  <1>4. CountMatches
    BY <1>3, FS_EmptySet DEF Init, CountMatches
  <1> QED BY <1>1, <1>2, <1>4 DEF IInv

(* request_irq keeps the invariant, whichever way it ends. *)
LEMMA RequestIInv ==
  ASSUME IInv, NEW d \in Devices, NEW q \in Lines, request_irq(d, q)
  PROVE  IInv'
  <1> USE IrqAssumption
  <1>0. TypeOK /\ DispatchOK /\ LineOK /\ CountMatches /\ EoiSpent
        /\ HookedHasHandlers
    BY DEF IInv
  <1>a. isr' = isr /\ eoiIrq' = eoiIrq /\ driver[d] = "off"
        /\ \A e \in Devices : driver[e] # "unhooking"
    BY DEF request_irq, TaskIdle
  <1>b. DispatchOK' /\ EoiSpent'
    BY <1>0, <1>a DEF DispatchOK, EoiSpent
  <1>1. CASE RequestRefused(d, q) \/ RequestTableFull(d, q)
    <2>1. PICK phase \in {"bound", "failed"} : Answer(d, q, phase)
      BY <1>1 DEF RequestRefused, RequestTableFull
    <2>2. UNCHANGED <<irqHandlers, nrIrqHandlers, hooked>>
      BY <1>1 DEF RequestRefused, RequestTableFull
    <2>3. TypeOK'
      BY <1>0, <2>1, <2>2 DEF TypeOK, request_irq, Answer, Phases
    <2>4. LineOK'
      BY <1>0, <2>1 DEF TypeOK, LineOK, Answer
    <2>5. CountMatches'
      BY <1>0, <2>2 DEF CountMatches, Used
    <2>6. HookedHasHandlers'
      BY <1>0, <1>a, <2>2 DEF HookedHasHandlers, Used
    <2> QED BY <1>b, <2>3, <2>4, <2>5, <2>6 DEF IInv
  <1>2. ASSUME NEW hookOk \in BOOLEAN, RequestSlot(d, q, hookOk)
        PROVE  IInv'
    <2>1. PICK i \in FreeSlots(q) : irqHandlers' = [irqHandlers EXCEPT ![q][i] = d]
      BY <1>2 DEF RequestSlot, First
    <2>2. PICK phase \in {"bound", "failed"} : Answer(d, q, phase)
      BY <1>2 DEF RequestSlot
    <2>3. /\ nrIrqHandlers' = [nrIrqHandlers EXCEPT ![q] = @ + 1]
          /\ hooked' \in {hooked, hooked \cup {q}}
      BY <1>2 DEF RequestSlot
    <2>4. i \in Slots \ Used(q)
      BY <2>1 DEF FreeSlots
    <2>5. TypeOK'
      BY <1>0, <2>1, <2>2, <2>3, <2>4 DEF TypeOK, request_irq, Answer, Phases
    <2>6. LineOK'
      BY <1>0, <2>2 DEF TypeOK, LineOK, Answer
    <2>7. Used(q)' = Used(q) \cup {i}
      BY <1>0, <2>1, <2>4 DEF TypeOK, Used
    <2>8. ASSUME NEW p \in Lines, p # q PROVE Used(p)' = Used(p)
      BY <1>0, <2>1, <2>8 DEF TypeOK, Used
    <2>9. CountMatches'
      <3>1. Cardinality(Used(q)') = Cardinality(Used(q)) + 1
        BY <2>4, <2>7, OneMore DEF Used
      <3>2. ASSUME NEW p \in Lines
            PROVE  nrIrqHandlers'[p] = Cardinality(Used(p)')
        BY <1>0, <2>3, <2>8, <3>1 DEF CountMatches, TypeOK
      <3> QED BY <3>2 DEF CountMatches
    <2>10. HookedHasHandlers'
      BY <1>0, <1>a, <2>3, <2>7, <2>8 DEF HookedHasHandlers, TypeOK
    <2> QED BY <1>b, <2>5, <2>6, <2>9, <2>10 DEF IInv
  <1>3. \A hookOk \in {TRUE, q \notin HookMayFail} : hookOk \in BOOLEAN
    OBVIOUS
  <1> QED BY <1>1, <1>2, <1>3 DEF request_irq

(* free_irq keeps the invariant: only the last handler starts the unhooking. *)
LEMMA FreeIInv ==
  ASSUME IInv, NEW d \in Devices, free_irq(d)
  PROVE  IInv'
  <1> USE IrqAssumption
  <1>0. TypeOK /\ DispatchOK /\ LineOK /\ CountMatches /\ EoiSpent
        /\ HookedHasHandlers
    BY DEF IInv
  <1>a. PICK q \in Lines : q = line[d] /\ driver[d] = "bound"
    BY <1>0 DEF free_irq, LineOK
  <1>b. isr' = isr /\ eoiIrq' = eoiIrq /\ line' = line /\ hooked' = hooked
        /\ \A e \in Devices : driver[e] # "unhooking"
    BY DEF free_irq, TaskIdle
  <1>c. DispatchOK' /\ EoiSpent'
    BY <1>0, <1>b DEF DispatchOK, EoiSpent
  <1>1. CASE SlotsOf(d, q) = {}
    <2>1. /\ driver' = [driver EXCEPT ![d] = "off"]
          /\ UNCHANGED <<irqHandlers, nrIrqHandlers>>
      BY <1>a, <1>1 DEF free_irq
    <2>2. TypeOK'
      BY <1>0, <2>1 DEF TypeOK, free_irq, Phases
    <2>3. LineOK'
      BY <1>0, <1>b, <2>1 DEF TypeOK, LineOK
    <2>4. CountMatches'
      BY <1>0, <2>1 DEF CountMatches, Used
    <2>5. HookedHasHandlers'
      BY <1>0, <1>b, <2>1 DEF HookedHasHandlers, Used
    <2> QED BY <1>c, <2>2, <2>3, <2>4, <2>5 DEF IInv
  <1>2. CASE SlotsOf(d, q) # {}
    <2>1. PICK i \in SlotsOf(d, q) :
            irqHandlers' = [irqHandlers EXCEPT ![q][i] = None]
      BY <1>a, <1>2 DEF free_irq, First
    <2>2. /\ nrIrqHandlers' = [nrIrqHandlers EXCEPT ![q] = @ - 1]
          /\ driver' = [driver EXCEPT
                          ![d] = IF nrIrqHandlers'[q] = 0 THEN "unhooking"
                                                          ELSE "off"]
      BY <1>a, <1>2 DEF free_irq
    <2>3. i \in Slots /\ i \in Used(q)
      BY <2>1 DEF SlotsOf, Used
    <2>4. Used(q)' = Used(q) \ {i}
      BY <1>0, <1>a, <2>1, <2>3 DEF TypeOK, Used
    <2>5. ASSUME NEW p \in Lines, p # q PROVE Used(p)' = Used(p)
      BY <1>0, <2>1, <2>5 DEF TypeOK, Used
    <2>6. /\ nrIrqHandlers[q] \in Nat \ {0}
          /\ Cardinality(Used(q)') = nrIrqHandlers[q] - 1
      <3>1. Used(q) \in SUBSET Slots
        BY DEF Used
      <3>2. nrIrqHandlers[q] = Cardinality(Used(q))
        BY <1>0, <1>a DEF CountMatches
      <3> QED BY <2>3, <2>4, <3>1, <3>2, OneFewer
    <2>7. TypeOK'
      <3>1. irqHandlers' \in [Lines -> [Slots -> Devices \cup {None}]]
        BY <1>0, <2>1, <2>3 DEF TypeOK
      <3>2. nrIrqHandlers' \in [Lines -> Nat]
        <4>1. nrIrqHandlers[q] - 1 \in Nat
          BY <2>6
        <4> QED BY <1>0, <2>2, <4>1 DEF TypeOK
      <3>3. driver' \in [Devices -> Phases]
        BY <1>0, <2>2 DEF TypeOK, Phases
      <3> QED BY <1>0, <3>1, <3>2, <3>3 DEF TypeOK, free_irq
    <2>8. LineOK'
      BY <1>0, <1>a, <1>b, <2>2 DEF TypeOK, LineOK
    <2>9. CountMatches'
      <3>1. ASSUME NEW p \in Lines
            PROVE  nrIrqHandlers'[p] = Cardinality(Used(p)')
        BY <1>0, <1>a, <2>2, <2>5, <2>6 DEF CountMatches, TypeOK
      <3> QED BY <3>1 DEF CountMatches
    <2>10. HookedHasHandlers'
      <3>1. CASE nrIrqHandlers'[q] = 0
        <4>1. driver'[d] = "unhooking" /\ line'[d] = q
          BY <1>0, <1>a, <1>b, <2>2, <3>1 DEF TypeOK
        <4> QED BY <1>0, <1>b, <2>5, <4>1 DEF HookedHasHandlers, TypeOK
      <3>2. CASE nrIrqHandlers'[q] # 0
        <4>1. Cardinality(Used(q)') # 0
          BY <1>0, <1>a, <2>2, <2>6, <3>2 DEF TypeOK
        <4>2. Used(q)' # {}
          BY <4>1, FS_EmptySet
        <4> QED BY <1>0, <1>b, <2>5, <4>2 DEF HookedHasHandlers, TypeOK
      <3> QED BY <3>1, <3>2
    <2> QED BY <1>c, <2>7, <2>8, <2>9, <2>10 DEF IInv
  <1> QED BY <1>1, <1>2

(* RMFreeIrq and a chip's request keep the invariant. *)
LEMMA UnhookRaiseIInv ==
  ASSUME IInv, NEW d \in Devices, RMFreeIrq(d) \/ Raise(d)
  PROVE  IInv'
  <1> USE IrqAssumption
  <1>0. TypeOK /\ DispatchOK /\ LineOK /\ CountMatches /\ EoiSpent
        /\ HookedHasHandlers
    BY DEF IInv
  <1>1. UNCHANGED <<irqHandlers, nrIrqHandlers, eoiIrq, isr, line>>
    BY DEF RMFreeIrq, Raise
  <1>2. TypeOK'
    BY <1>0 DEF TypeOK, RMFreeIrq, Raise, Phases
  <1>3. LineOK'
    BY <1>0 DEF TypeOK, LineOK, RMFreeIrq, Raise
  <1>4. DispatchOK' /\ EoiSpent' /\ CountMatches'
    BY <1>0, <1>1 DEF DispatchOK, EoiSpent, CountMatches, Used
  <1>5. HookedHasHandlers'
    BY <1>0, <1>1 DEF TypeOK, HookedHasHandlers, Used, RMFreeIrq, Raise
  <1> QED BY <1>2, <1>3, <1>4, <1>5 DEF IInv

(* The steps of a dispatch keep the invariant. *)
LEMMA DispatchIInv ==
  ASSUME IInv, Dispatch
  PROVE  IInv'
  <1> USE IrqAssumption
  <1>0. TypeOK /\ DispatchOK /\ LineOK /\ CountMatches /\ EoiSpent
        /\ HookedHasHandlers
    BY DEF IInv
  <1>1. UNCHANGED <<irqHandlers, nrIrqHandlers, hooked, driver, line, raises>>
    BY DEF Dispatch, ALSA_Interrupt, OfferToHandler, CheckEoi, DevEOI,
           NotServiced
  <1>2. LineOK' /\ CountMatches' /\ HookedHasHandlers'
    BY <1>0, <1>1 DEF LineOK, CountMatches, HookedHasHandlers, Used
  <1>3. CASE \E q \in Lines : ALSA_Interrupt(q)
    BY <1>0, <1>2, <1>3 DEF IInv, TypeOK, DispatchOK, EoiSpent, ALSA_Interrupt,
                            Task, Slots
  <1>4. CASE OfferToHandler
    <2>0. isr.slot + 1 \in 0 .. MaxShared /\ isr.slot \in Slots /\ isr.at = "offer"
      BY <1>4 DEF OfferToHandler, Slots
    <2>a. isr.irq \in Lines /\ eoiIrq[isr.irq] + 1 \in Nat
      BY <1>0, <1>4 DEF TypeOK, DispatchOK, OfferToHandler
    <2>b. /\ isr' \in {[isr EXCEPT !.slot = @ + 1], [isr EXCEPT !.at = "check"]}
          /\ eoiIrq' \in {eoiIrq, [eoiIrq EXCEPT ![isr.irq] = @ + 1]}
          /\ raised' \subseteq raised /\ shutdown' = shutdown
      BY <1>4 DEF OfferToHandler
    <2>1. TypeOK' /\ DispatchOK'
      <3>1. isr' \in [at : {"none", "offer", "check", "claimed"},
                      irq : Lines \cup {None}, slot : 0 .. MaxShared]
            /\ DispatchOK'
        BY <1>0, <2>0, <2>a, <2>b DEF TypeOK, DispatchOK, Slots
      <3>2. eoiIrq' \in [Lines -> Nat]
        BY <1>0, <2>a, <2>b DEF TypeOK
      <3> QED BY <1>0, <1>1, <2>b, <3>1, <3>2 DEF TypeOK
    <2>2. EoiSpent'
      BY <1>0, <1>4 DEF TypeOK, DispatchOK, EoiSpent, OfferToHandler
    <2> QED BY <1>2, <2>1, <2>2 DEF IInv
  <1>5. CASE CheckEoi
    <2>0. isr.slot + 1 \in 0 .. MaxShared /\ isr.irq \in Lines
      BY <1>0, <1>5 DEF DispatchOK, CheckEoi, Slots
    <2>b. /\ isr' \in {[isr EXCEPT !.at = "claimed"],
                       [isr EXCEPT !.at = "offer", !.slot = @ + 1]}
          /\ eoiIrq' \in {eoiIrq, [eoiIrq EXCEPT ![isr.irq] = 0]}
          /\ raised' = raised /\ shutdown' = shutdown
      BY <1>5 DEF CheckEoi
    <2>1. TypeOK' /\ DispatchOK'
      <3>1. isr' \in [at : {"none", "offer", "check", "claimed"},
                      irq : Lines \cup {None}, slot : 0 .. MaxShared]
            /\ DispatchOK'
        BY <1>0, <2>0, <2>b DEF TypeOK, DispatchOK
      <3>2. eoiIrq' \in [Lines -> Nat]
        BY <1>0, <2>b DEF TypeOK
      <3> QED BY <1>0, <1>1, <2>b, <3>1, <3>2 DEF TypeOK
    <2>2. EoiSpent'
      BY <1>0, <1>5 DEF TypeOK, DispatchOK, EoiSpent, CheckEoi
    <2> QED BY <1>2, <2>1, <2>2 DEF IInv
  <1>6. CASE DevEOI \/ NotServiced
    <2>1. TypeOK' /\ DispatchOK'
      BY <1>0, <1>6 DEF TypeOK, DispatchOK, DevEOI, NotServiced, NoIsr
    <2>2. EoiSpent'
      BY <1>0, <1>6 DEF TypeOK, DispatchOK, EoiSpent, DevEOI, NotServiced, NoIsr
    <2> QED BY <1>2, <2>1, <2>2 DEF IInv
  <1> QED BY <1>3, <1>4, <1>5, <1>6 DEF Dispatch

(* IInv is an invariant. *)
THEOREM Invariance == Spec => []IInv
  <1>1. IInv /\ [Next]_vars => IInv'
    <2> SUFFICES ASSUME IInv, [Next]_vars PROVE IInv'
      OBVIOUS
    <2>1. CASE Next
      BY <2>1, RequestIInv, FreeIInv, UnhookRaiseIInv, DispatchIInv DEF Next
    <2>2. CASE UNCHANGED vars
      BY <2>2 DEF vars, IInv, TypeOK, DispatchOK, LineOK, CountMatches,
                  EoiSpent, HookedHasHandlers, Used
    <2> QED BY <2>1, <2>2
  <1> QED BY <1>1, InitIInv, PTL DEF Spec

(* Type correctness of the interrupt table. *)
THEOREM TypeCorrect == Spec => []TypeOK
  <1>1. IInv => TypeOK
    BY DEF IInv
  <1> QED BY <1>1, Invariance, PTL

(* irq.c's nrIrqHandlers is the number of occupied slots of every line,     *)
(* whatever order handlers are registered, refused and removed in.          *)
THEOREM CountsAreExact == Spec => []CountMatches
  <1>1. IInv => CountMatches
    BY DEF IInv
  <1> QED BY <1>1, Invariance, PTL

(* A line hooked with OS/2 has a handler, or free_irq is about to unhook it. *)
THEOREM HookedLinesHaveHandlers == Spec => []HookedHasHandlers
  <1>1. IInv => HookedHasHandlers
    BY DEF IInv
  <1> QED BY <1>1, Invariance, PTL

(* No interrupt is claimed with an acknowledgement left by an earlier one.  *)
THEOREM EoiIsSpent == Spec => []EoiSpent
  <1>1. IInv => EoiSpent
    BY DEF IInv
  <1> QED BY <1>1, Invariance, PTL

(***************************************************************************)
(* What the code promises on lines where nothing is refused.               *)
(***************************************************************************)

(* The slots of a reliable line belong to drivers whose request succeeded,  *)
(* and each of them has one.                                                *)
SlotsOwned ==
  \A q \in Reliable, i \in Slots : irqHandlers[q][i] # None =>
     /\ driver[irqHandlers[q][i]] = "bound" /\ line[irqHandlers[q][i]] = q
     /\ \A j \in Slots : irqHandlers[q][j] = irqHandlers[q][i] => i = j

(* free_irq unhooks one line at a time, and none that has a handler. *)
UnhookingEmpty ==
  /\ \A d \in Devices : driver[d] = "unhooking" => Used(line[d]) = {}
  /\ \A d \in raised : driver[d] = "bound"

(* The dispatch of a reliable line has not passed the slot of a chip whose  *)
(* request is pending: it is ahead, or has just been served.                *)
PendingAhead ==
  isr.irq \in Reliable =>
    /\ isr.at = "offer" =>
         \E i \in Slots : i >= isr.slot /\ irqHandlers[isr.irq][i] \in raised
    /\ isr.at = "check" =>
         \/ eoiIrq[isr.irq] > 0
         \/ \E i \in Slots : i > isr.slot /\ irqHandlers[isr.irq][i] \in raised

(* SuccessMeansServed needs to know that slots are not taken from others;   *)
(* NeverShutDown needs it, and how far a dispatch has come.                 *)
ServedInv == /\ SlotsOwned /\ UnhookingEmpty /\ PendingAhead
             /\ SuccessMeansServed /\ NeverShutDown

(* A reliable line is a line, and request_irq can only succeed on it. *)
LEMMA ReliableLines ==
  /\ Reliable \subseteq Lines /\ Reliable \subseteq Hookable
  /\ \A q \in Reliable : q \notin RmMayRefuse /\ q \notin HookMayFail
  BY IrqAssumption DEF Reliable

(* Nothing is bound initially. *)
LEMMA InitServed == Init => ServedInv
  <1> SUFFICES ASSUME Init PROVE ServedInv
    OBVIOUS
  <1>1. SlotsOwned /\ SuccessMeansServed
    BY ReliableLines DEF Init, SlotsOwned, SuccessMeansServed
  <1>2. UnhookingEmpty /\ PendingAhead /\ NeverShutDown
    BY DEF Init, UnhookingEmpty, PendingAhead, NeverShutDown, NoIsr
  <1> QED BY <1>1, <1>2 DEF ServedInv

(* request_irq: a driver told 0 on a reliable line has its slot, and its    *)
(* line was hooked by the first handler or is hooked now.                   *)
LEMMA RequestServed ==
  ASSUME IInv, ServedInv, NEW d \in Devices, NEW q \in Lines, request_irq(d, q)
  PROVE  ServedInv'
  <1> USE IrqAssumption, ReliableLines
  <1>0. /\ TypeOK /\ CountMatches /\ SlotsOwned /\ UnhookingEmpty
        /\ PendingAhead /\ SuccessMeansServed /\ NeverShutDown
    BY DEF IInv, ServedInv
  <1>1. /\ isr' = isr /\ eoiIrq' = eoiIrq /\ raised' = raised
        /\ shutdown' = shutdown /\ driver[d] = "off" /\ isr.at = "none"
        /\ \A e \in Devices : driver[e] # "unhooking"
    BY DEF request_irq, TaskIdle, Task
  <1>2. PendingAhead' /\ NeverShutDown'
    BY <1>0, <1>1 DEF PendingAhead, NeverShutDown
  <1>3. PICK phase \in {"bound", "failed"} : Answer(d, q, phase)
    BY DEF request_irq, RequestRefused, RequestTableFull, RequestSlot
  <1>4. /\ driver'[d] = phase /\ line'[d] = q
        /\ \A e \in Devices \ {d} : driver'[e] = driver[e] /\ line'[e] = line[e]
    BY <1>0, <1>3 DEF Answer, TypeOK
  <1>5. UnhookingEmpty'
    BY <1>0, <1>1, <1>4 DEF UnhookingEmpty, TypeOK
  <1>6. \A p \in Reliable, i \in Slots : irqHandlers[p][i] # d
    BY <1>0, <1>1 DEF SlotsOwned
  <1>7. CASE RequestRefused(d, q) \/ RequestTableFull(d, q)
    <2>1. UNCHANGED <<irqHandlers, hooked>>
      BY <1>7 DEF RequestRefused, RequestTableFull
    <2>2. q \in Reliable => driver'[d] = "failed"
      BY <1>0, <1>7 DEF RequestRefused, RequestTableFull, Answer, TypeOK
    <2>3. SlotsOwned'
      BY <1>0, <1>4, <1>6, <2>1 DEF SlotsOwned, TypeOK
    <2>4. SuccessMeansServed'
      BY <1>0, <1>4, <2>1, <2>2 DEF SuccessMeansServed, SlotsOf
    <2> QED BY <1>2, <1>5, <2>3, <2>4 DEF ServedInv
  <1>8. ASSUME NEW hookOk \in {TRUE, q \notin HookMayFail}, RequestSlot(d, q, hookOk)
        PROVE  ServedInv'
    <2>1. PICK i \in FreeSlots(q) : irqHandlers' = [irqHandlers EXCEPT ![q][i] = d]
      BY <1>8 DEF RequestSlot, First
    <2>2. i \in Slots /\ irqHandlers[q][i] = None
      BY <2>1 DEF FreeSlots, Used
    <2>3. /\ irqHandlers'[q][i] = d
          /\ \A p \in Lines, j \in Slots : p # q \/ j # i =>
               irqHandlers'[p][j] = irqHandlers[p][j]
      BY <1>0, <2>1, <2>2 DEF TypeOK
    <2>4. hooked \subseteq hooked'
      BY <1>8 DEF RequestSlot
    <2>5. ASSUME q \in Reliable PROVE driver'[d] = "bound" /\ q \in hooked'
      <3>1. CASE nrIrqHandlers[q] # 0
        <4>1. Used(q) # {}
          BY <1>0, <3>1, FS_EmptySet DEF CountMatches
        <4>2. PICK j \in Slots : irqHandlers[q][j] # None
          BY <4>1 DEF Used
        <4>3. irqHandlers[q][j] \in Devices
          BY <1>0, <4>2 DEF TypeOK
        <4>4. q \in hooked
          BY <1>0, <2>5, <4>2, <4>3 DEF SlotsOwned, SuccessMeansServed
        <4> QED BY <1>0, <1>8, <3>1, <4>4 DEF RequestSlot, Answer, TypeOK
      <3>2. CASE nrIrqHandlers[q] = 0
        <4>1. RMSetIrq(q, hookOk)
          BY <1>8, <2>5 DEF RMSetIrq
        <4> QED BY <1>0, <1>8, <3>2, <4>1 DEF RequestSlot, Answer, TypeOK
      <3> QED BY <3>1, <3>2
    <2>6. SlotsOwned'
      <3> SUFFICES ASSUME NEW p \in Reliable, NEW j \in Slots,
                          irqHandlers'[p][j] # None
                   PROVE  /\ driver'[irqHandlers'[p][j]] = "bound"
                          /\ line'[irqHandlers'[p][j]] = p
                          /\ \A k \in Slots :
                               irqHandlers'[p][k] = irqHandlers'[p][j] => j = k
        BY DEF SlotsOwned
      <3>1. CASE p = q /\ j = i
        BY <1>4, <1>6, <2>3, <2>5, <3>1
      <3>2. CASE ~(p = q /\ j = i)
        <4>1. irqHandlers'[p][j] = irqHandlers[p][j]
          BY <2>3, <3>2
        <4>2. irqHandlers[p][j] \in Devices \ {d}
          BY <1>0, <1>6, <4>1 DEF TypeOK
        <4> QED BY <1>0, <1>4, <2>3, <4>1, <4>2 DEF SlotsOwned
      <3> QED BY <3>1, <3>2
    <2>7. SuccessMeansServed'
      <3> SUFFICES ASSUME NEW e \in Devices, driver'[e] = "bound",
                          line'[e] \in Reliable
                   PROVE  /\ \E k \in Slots : irqHandlers'[line'[e]][k] = e
                          /\ line'[e] \in hooked'
        BY DEF SuccessMeansServed, SlotsOf
      <3>1. CASE e = d
        BY <1>4, <2>2, <2>3, <2>5, <3>1 DEF SlotsOf
      <3>2. CASE e # d
        <4>1. driver[e] = "bound" /\ line[e] \in Reliable /\ line'[e] = line[e]
          BY <1>4, <3>2
        <4>2. PICK j \in Slots : irqHandlers[line[e]][j] = e
          BY <1>0, <4>1 DEF SuccessMeansServed, SlotsOf
        <4>3. irqHandlers'[line[e]][j] = e
          BY <2>2, <2>3, <4>1, <4>2
        <4>4. line[e] \in hooked
          BY <1>0, <4>1 DEF SuccessMeansServed
        <4> QED BY <2>4, <4>1, <4>3, <4>4 DEF SlotsOf
      <3> QED BY <3>1, <3>2
    <2> QED BY <1>2, <1>5, <2>6, <2>7 DEF ServedInv
  <1> QED BY <1>7, <1>8 DEF request_irq

(* free_irq takes its own driver's slot only. *)
LEMMA FreeServed ==
  ASSUME IInv, ServedInv, NEW d \in Devices, free_irq(d)
  PROVE  ServedInv'
  <1> USE IrqAssumption, ReliableLines
  <1>0. /\ TypeOK /\ CountMatches /\ LineOK /\ SlotsOwned /\ UnhookingEmpty
        /\ PendingAhead /\ SuccessMeansServed /\ NeverShutDown
    BY DEF IInv, ServedInv
  <1>0a. CountMatches'
    BY FreeIInv DEF IInv
  <1>a. PICK q \in Lines : q = line[d] /\ driver[d] = "bound"
    BY <1>0 DEF free_irq, LineOK
  <1>1. /\ isr' = isr /\ line' = line /\ hooked' = hooked
        /\ shutdown' = shutdown /\ isr.at = "none" /\ raised' = raised \ {d}
        /\ \A e \in Devices : driver[e] # "unhooking"
    BY DEF free_irq, TaskIdle, Task
  <1>2. PendingAhead' /\ NeverShutDown'
    BY <1>0, <1>1 DEF PendingAhead, NeverShutDown
  <1>3. PICK phase \in {"off", "unhooking"} :
          driver' = [driver EXCEPT ![d] = phase]
    BY DEF free_irq
  <1>4. /\ driver'[d] = phase
        /\ \A e \in Devices \ {d} : driver'[e] = driver[e]
    BY <1>0, <1>3 DEF TypeOK
  <1>5. /\ \A p \in Lines, j \in Slots :
             \/ irqHandlers'[p][j] = irqHandlers[p][j]
             \/ irqHandlers'[p][j] = None /\ irqHandlers[p][j] = d
        /\ q \in Reliable => \A j \in Slots : irqHandlers'[q][j] # d
        /\ phase = "unhooking" => nrIrqHandlers'[q] = 0
    <2>1. CASE SlotsOf(d, q) = {}
      BY <1>0, <1>a, <1>4, <2>1 DEF free_irq, SlotsOf, TypeOK
    <2>2. CASE SlotsOf(d, q) # {}
      <3>1. PICK i \in SlotsOf(d, q) :
              irqHandlers' = [irqHandlers EXCEPT ![q][i] = None]
        BY <1>a, <2>2 DEF free_irq, First
      <3>2. driver' = [driver EXCEPT ![d] = IF nrIrqHandlers'[q] = 0
                                            THEN "unhooking" ELSE "off"]
        BY <1>a, <2>2 DEF free_irq
      <3>3. phase = "unhooking" => nrIrqHandlers'[q] = 0
        BY <1>0, <1>4, <3>2 DEF TypeOK
      <3>4. /\ i \in Slots /\ irqHandlers[q][i] = d /\ irqHandlers'[q][i] = None
            /\ \A p \in Lines, j \in Slots : p # q \/ j # i =>
                 irqHandlers'[p][j] = irqHandlers[p][j]
        BY <1>0, <3>1 DEF SlotsOf, TypeOK
      <3>5. q \in Reliable => \A j \in Slots : irqHandlers'[q][j] # d
        BY <1>0, <3>4 DEF SlotsOwned
      <3> QED BY <3>3, <3>4, <3>5
    <2> QED BY <2>1, <2>2
  <1>6. UnhookingEmpty'
    <2>1. phase = "unhooking" => Used(q)' = {}
      <3> SUFFICES ASSUME phase = "unhooking" PROVE Used(q)' = {}
        OBVIOUS
      <3>1. Cardinality(Used(q)') = 0
        BY <1>0a, <1>5 DEF CountMatches
      <3>2. IsFiniteSet(Used(q)')
        BY SlotsFinite, FS_Subset DEF Used
      <3> QED BY <3>1, <3>2, FS_EmptySet
    <2>2. \A e \in Devices : driver'[e] = "unhooking" => e = d
      BY <1>1, <1>4
    <2>3. \A e \in raised' : driver'[e] = "bound"
      BY <1>0, <1>1, <1>4 DEF UnhookingEmpty, TypeOK
    <2> QED BY <1>a, <1>1, <1>4, <2>1, <2>2, <2>3 DEF UnhookingEmpty
  <1>7. SlotsOwned'
    <2> SUFFICES ASSUME NEW p \in Reliable, NEW j \in Slots,
                        irqHandlers'[p][j] # None
                 PROVE  /\ driver'[irqHandlers'[p][j]] = "bound"
                        /\ line'[irqHandlers'[p][j]] = p
                        /\ \A k \in Slots :
                             irqHandlers'[p][k] = irqHandlers'[p][j] => j = k
      BY DEF SlotsOwned
    <2>1. irqHandlers'[p][j] = irqHandlers[p][j]
      BY <1>5
    <2>2. irqHandlers[p][j] \in Devices \ {d}
      BY <1>0, <1>a, <1>5, <2>1 DEF TypeOK, SlotsOwned
    <2> QED BY <1>0, <1>1, <1>4, <1>5, <2>1, <2>2 DEF SlotsOwned
  <1>8. SuccessMeansServed'
    <2> SUFFICES ASSUME NEW e \in Devices, driver'[e] = "bound",
                        line'[e] \in Reliable
                 PROVE  /\ \E k \in Slots : irqHandlers'[line'[e]][k] = e
                        /\ line'[e] \in hooked'
      BY DEF SuccessMeansServed, SlotsOf
    <2>1. e # d /\ driver[e] = "bound" /\ line'[e] = line[e]
      BY <1>1, <1>4
    <2>2. PICK j \in Slots : irqHandlers[line[e]][j] = e
      BY <1>0, <1>1, <2>1 DEF SuccessMeansServed, SlotsOf
    <2>3. irqHandlers'[line[e]][j] = e
      BY <1>1, <1>5, <2>1, <2>2
    <2> QED BY <1>0, <1>1, <2>1, <2>3 DEF SuccessMeansServed, SlotsOf
  <1> QED BY <1>2, <1>6, <1>7, <1>8 DEF ServedInv

(* Unhooking takes no driver's line away, and a request may come any time. *)
LEMMA UnhookRaiseServed ==
  ASSUME IInv, ServedInv, NEW d \in Devices, RMFreeIrq(d) \/ Raise(d)
  PROVE  ServedInv'
  <1> USE IrqAssumption, ReliableLines
  <1>0. /\ TypeOK /\ LineOK /\ SlotsOwned /\ UnhookingEmpty
        /\ PendingAhead /\ SuccessMeansServed /\ NeverShutDown
    BY DEF IInv, ServedInv
  <1>1. CASE RMFreeIrq(d)
    <2>1. /\ UNCHANGED <<irqHandlers, eoiIrq, shutdown, line, raised, isr>>
          /\ driver[d] = "unhooking" /\ hooked' = hooked \ {line[d]}
          /\ driver' = [driver EXCEPT ![d] = "off"]
      BY <1>1 DEF RMFreeIrq
    <2>2. /\ driver'[d] = "off"
          /\ \A e \in Devices \ {d} : driver'[e] = driver[e]
      BY <1>0, <2>1 DEF TypeOK
    <2>3. SlotsOwned'
      BY <1>0, <2>1, <2>2 DEF SlotsOwned, TypeOK
    <2>4. UnhookingEmpty'
      BY <1>0, <2>1, <2>2 DEF UnhookingEmpty, Used, TypeOK
    <2>5. PendingAhead' /\ NeverShutDown'
      BY <1>0, <2>1 DEF PendingAhead, NeverShutDown
    <2>6. SuccessMeansServed'
      <3> SUFFICES ASSUME NEW e \in Devices, driver'[e] = "bound",
                          line'[e] \in Reliable
                   PROVE  /\ \E k \in Slots : irqHandlers'[line'[e]][k] = e
                          /\ line'[e] \in hooked'
        BY DEF SuccessMeansServed, SlotsOf
      <3>1. driver[e] = "bound" /\ line'[e] = line[e]
        BY <2>1, <2>2
      <3>2. SlotsOf(e, line[e]) # {} /\ line[e] \in hooked
        BY <1>0, <2>1, <3>1 DEF SuccessMeansServed
      <3>3. line[e] # line[d]
        BY <1>0, <2>1, <3>2 DEF UnhookingEmpty, SlotsOf, Used
      <3> QED BY <2>1, <3>1, <3>2, <3>3 DEF SlotsOf
    <2> QED BY <2>3, <2>4, <2>5, <2>6 DEF ServedInv
  <1>2. CASE Raise(d)
    <2>1. /\ UNCHANGED <<irqHandlers, eoiIrq, shutdown, line, hooked, driver, isr>>
          /\ driver[d] = "bound" /\ raised' = raised \cup {d}
      BY <1>2 DEF Raise
    <2>2. SlotsOwned' /\ SuccessMeansServed' /\ NeverShutDown'
      BY <1>0, <2>1 DEF SlotsOwned, SuccessMeansServed, NeverShutDown, SlotsOf
    <2>3. UnhookingEmpty' /\ PendingAhead'
      BY <1>0, <2>1 DEF UnhookingEmpty, PendingAhead, Used
    <2> QED BY <2>2, <2>3 DEF ServedInv
  <1> QED BY <1>1, <1>2

(* A dispatch reaches the slot of a chip with a pending request before it   *)
(* runs out of slots.                                                       *)
LEMMA DispatchServed ==
  ASSUME IInv, ServedInv, Dispatch
  PROVE  ServedInv'
  <1> USE IrqAssumption, ReliableLines
  <1>0. /\ TypeOK /\ DispatchOK /\ SlotsOwned /\ UnhookingEmpty
        /\ PendingAhead /\ SuccessMeansServed /\ NeverShutDown
    BY DEF IInv, ServedInv
  <1>1. /\ UNCHANGED <<irqHandlers, hooked, driver, line>>
        /\ raised' \subseteq raised
    BY DEF Dispatch, ALSA_Interrupt, OfferToHandler, CheckEoi, DevEOI,
           NotServiced
  <1>2. SlotsOwned' /\ UnhookingEmpty' /\ SuccessMeansServed'
    BY <1>0, <1>1 DEF SlotsOwned, UnhookingEmpty, SuccessMeansServed, SlotsOf,
                      Used
  <1>3. ASSUME NEW q \in Lines, ALSA_Interrupt(q)
        PROVE  PendingAhead' /\ NeverShutDown'
    <2>1. PICK d \in raised : line[d] = q
      BY <1>3 DEF ALSA_Interrupt, Asserted
    <2>2. q \in Reliable => \E i \in Slots : irqHandlers[q][i] \in raised
      BY <1>0, <2>1 DEF UnhookingEmpty, SuccessMeansServed, SlotsOf, TypeOK
    <2>3. /\ isr' = [at |-> "offer", irq |-> q, slot |-> 0]
          /\ UNCHANGED <<irqHandlers, raised, shutdown>>
      BY <1>3 DEF ALSA_Interrupt
    <2>4. PendingAhead'
      BY <2>2, <2>3 DEF PendingAhead, Slots
    <2> QED BY <1>0, <2>3, <2>4 DEF NeverShutDown
  <1>4. CASE OfferToHandler
    <2>1. /\ isr.at = "offer" /\ isr.slot \in Slots /\ isr.irq \in Lines
          /\ shutdown' = shutdown
      BY <1>0, <1>4 DEF OfferToHandler, DispatchOK
    <2>2. PendingAhead'
      <3> SUFFICES ASSUME isr'.irq \in Reliable
                   PROVE  /\ isr'.at = "offer" =>
                               \E i \in Slots : /\ i >= isr'.slot
                                                /\ irqHandlers'[isr'.irq][i] \in raised'
                          /\ isr'.at = "check" =>
                               \/ eoiIrq'[isr'.irq] > 0
                               \/ \E i \in Slots :
                                    /\ i > isr'.slot
                                    /\ irqHandlers'[isr'.irq][i] \in raised'
        BY DEF PendingAhead
      <3>0. isr'.irq = isr.irq
        BY <1>0, <1>4 DEF OfferToHandler, TypeOK
      <3>1. PICK i \in Slots : /\ i >= isr.slot
                               /\ irqHandlers[isr.irq][i] \in raised
        BY <1>0, <2>1, <3>0 DEF PendingAhead
      <3>2. CASE irqHandlers[isr.irq][isr.slot] = None
        <4>1. /\ isr' = [isr EXCEPT !.slot = @ + 1] /\ raised' = raised
          BY <1>4, <3>2 DEF OfferToHandler
        <4>2. isr'.at = "offer" /\ isr'.slot = isr.slot + 1
          BY <1>0, <2>1, <4>1 DEF TypeOK
        <4>3. i # isr.slot
          BY <1>0, <3>1, <3>2 DEF TypeOK
        <4> QED BY <1>1, <2>1, <3>0, <3>1, <4>1, <4>2, <4>3 DEF Slots
      <3>3. CASE irqHandlers[isr.irq][isr.slot] # None
        <4> DEFINE d == irqHandlers[isr.irq][isr.slot]
        <4>1. /\ isr' = [isr EXCEPT !.at = "check"]
              /\ raised' = raised \ {d}
              /\ eoiIrq' = IF d \in raised
                           THEN [eoiIrq EXCEPT ![isr.irq] = @ + 1] ELSE eoiIrq
          BY <1>4, <3>3 DEF OfferToHandler
        <4>2. isr'.at = "check" /\ isr'.slot = isr.slot
          BY <1>0, <4>1 DEF TypeOK
        <4>3. CASE d \in raised
          BY <1>0, <2>1, <3>0, <4>1, <4>2, <4>3 DEF TypeOK
        <4>4. CASE d \notin raised
          <5>1. raised' = raised /\ i # isr.slot
            BY <3>1, <4>1, <4>4
          <5> QED BY <1>1, <2>1, <3>0, <3>1, <4>2, <5>1 DEF Slots
        <4> QED BY <4>3, <4>4
      <3> QED BY <3>2, <3>3
    <2> QED BY <1>0, <1>2, <2>1, <2>2 DEF ServedInv, NeverShutDown
  <1>5. CASE CheckEoi
    <2>1. /\ isr.at = "check" /\ isr.slot \in Slots /\ isr.irq \in Lines
          /\ UNCHANGED <<shutdown, raised>>
      BY <1>0, <1>5 DEF CheckEoi, DispatchOK
    <2>2. CASE eoiIrq[isr.irq] > 0
      <3>1. isr' = [isr EXCEPT !.at = "claimed"]
        BY <1>5, <2>2 DEF CheckEoi
      <3>2. PendingAhead'
        BY <1>0, <3>1 DEF PendingAhead, TypeOK
      <3> QED BY <1>0, <1>2, <2>1, <3>2 DEF ServedInv, NeverShutDown
    <2>3. CASE ~(eoiIrq[isr.irq] > 0)
      <3>1. isr' = [isr EXCEPT !.at = "offer", !.slot = @ + 1]
        BY <1>5, <2>3 DEF CheckEoi
      <3>2. isr'.at = "offer" /\ isr'.slot = isr.slot + 1 /\ isr'.irq = isr.irq
        BY <1>0, <3>1 DEF TypeOK
      <3>3. PendingAhead'
        BY <1>0, <1>1, <2>1, <2>3, <3>2 DEF PendingAhead, Slots
      <3> QED BY <1>0, <1>2, <2>1, <3>3 DEF ServedInv, NeverShutDown
    <2> QED BY <2>2, <2>3
  <1>6. CASE DevEOI
    BY <1>0, <1>2, <1>6 DEF ServedInv, PendingAhead, NeverShutDown, DevEOI, NoIsr
  <1>7. CASE NotServiced
    <2>1. isr.irq \notin Reliable
      BY <1>0, <1>7 DEF NotServiced, PendingAhead, Slots
    <2>2. NeverShutDown'
      BY <1>0, <1>7, <2>1 DEF NotServiced, NeverShutDown
    <2>3. PendingAhead'
      BY <1>7 DEF NotServiced, PendingAhead, NoIsr
    <2> QED BY <1>2, <2>2, <2>3 DEF ServedInv
  <1> QED BY <1>2, <1>3, <1>4, <1>5, <1>6, <1>7 DEF Dispatch, ServedInv

(* ServedInv is an invariant. *)
THEOREM ServedInvariance == Spec => []ServedInv
  <1>1. IInv /\ ServedInv /\ [Next]_vars => ServedInv'
    <2> SUFFICES ASSUME IInv, ServedInv, [Next]_vars PROVE ServedInv'
      OBVIOUS
    <2>1. CASE Next
      BY <2>1, RequestServed, FreeServed, UnhookRaiseServed, DispatchServed
         DEF Next
    <2>2. CASE UNCHANGED vars
      BY <2>2 DEF vars, ServedInv, SlotsOwned, UnhookingEmpty, PendingAhead,
                  SuccessMeansServed, NeverShutDown, SlotsOf, Used
    <2> QED BY <2>1, <2>2
  <1> QED BY <1>1, InitServed, Invariance, PTL DEF Spec

(* A driver told 0 by request_irq stays in the table with its line hooked   *)
(* until its own free_irq, on every line on which nothing is refused.       *)
THEOREM SuccessIsServed == Spec => []SuccessMeansServed
  <1>1. ServedInv => SuccessMeansServed
    BY DEF ServedInv
  <1> QED BY <1>1, ServedInvariance, PTL

(* OS/2 never finds an unclaimed interrupt on such a line, whatever number  *)
(* of chips share it and however requests come during a dispatch.           *)
THEOREM LinesStayUp == Spec => []NeverShutDown
  <1>1. ServedInv => NeverShutDown
    BY DEF ServedInv
  <1> QED BY <1>1, ServedInvariance, PTL
=============================================================================
