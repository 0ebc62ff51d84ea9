# TLA+ models of the UNIAUD 32-bit driver

UNIAUD is an OS/2 audio driver: the ALSA drivers of Linux compiled into a
32-bit ring-0 driver, with a layer that supplies what ALSA expects of the Linux
kernel and a call interface (the OSS32 calls) for the 16-bit MMPM/2 driver.
This directory models the parts where that combination is delicate: the ring
buffer shared by the application, the interrupt and the DMA engine, and the
negotiation of its sizes; the sharing of interrupt lines; the MIDI port and its
UART, the sequencer and the FM voices behind the MIDI calls; the heap and the
DMA-capable pages everything is allocated from; the search for the card and the
resources it is given.

## 1. Inventory

| Part | Source | State | Operations | Module |
|---|---|---|---|---|
| PCM runtime | `alsa/core/pcm_lib.c`, `pcm_native.c`, `pcm.c`, `include/sound/pcm.h` | stream state, `hw_ptr`, `hw_ptr_base`, `hw_ptr_interrupt`, `appl_ptr`, silenced region, DMA area | open, prepare, start, stop, pause, drop, status, write, read, period elapsed | PcmRuntime |
| Size negotiation | `lib32/sound.c`, `alsa/core/pcm_lib.c`, `pcm_native.c` | an interval for each size, the rules that are due | `OSS32_WaveSetHwParams`, HW_REFINE, HW_PARAMS, SW_PARAMS | HwParams |
| OSS32 wave calls | `lib32/sound.c` | file handles | WaveOpen ... WaveAddBuffer, each a request to the PCM layer | OssPlayback |
| Interrupts | `lib32/irq.c`, `drv32/irq.cpp` | handler table per line, counts, `eoiIrq` | `request_irq`, `free_irq`, dispatch, EOI | IrqTable |
| Heap | `lib32/malloc.cpp` | free list, used list, `uMemFree` | malloc, free, realloc, compact | Heap |
| Pages | `lib32/memory.cpp`, `pci.c` | blocks held, list of shifted base addresses | page allocation with 64 KB retries, vmalloc, consistent memory | Pages |
| PCI bus, resource manager, start and shutdown | `lib32/pci.c`, `drv32/rm.cpp`, `lib32/ossidc.cpp` | device table, resource object of the probe, granted resources | search, probe, request, release, suspend, resume, shutdown | PciBus |
| Raw MIDI, MPU-401 | `alsa/core/rawmidi.c`, `alsa/drivers/mpu401/mpu401_uart.c` | two byte rings, mode bits, UART | open, write, read, drain, close, transmit and receive loops | RawMidi, ByteQueue |
| MIDI calls, sequencer | `lib32/soundmidi.c`, `fminstrload.c`, `alsa/core/seq/` | clients, ports, subscriptions, loaded instruments | open, command, close, device query, shutdown | MidiCalls |
| FM synthesizer | `alsa/drivers/opl3/`, `alsa/core/seq/seq_midi_emul.c` | voices, key-on and connection bits, notes and pedals | note on and off, pedals, controllers | FmVoices |
| Mixer and controls | `lib32/soundmixer.c`, `alsa/core/control.c` | control elements, volumes | query, set | - |
| ALSA timer | `alsa/core/timer.c` | timer instances | start, stop, interrupt | - |
| Linux layer | `lib32/timer.c`, `task.c`, `spinlock.c`, `semaphore.c`, `waitqueue.c` | stubs, interrupt flag | cli/sti, delays | in the others |
| Card drivers | `alsa/pci`, `alsa/isa`, `alsa/drivers` | registers | trigger, pointer, interrupt | - |

How they interact. The 16-bit driver calls in through IDC, one call at a time,
at task time. The OSS32 call builds a file handle with `O_NONBLOCK` set and
enters the PCM, raw MIDI or sequencer layer, which locks its structures. The
card's interrupt enters through `ALSA_Interrupt`, is offered to the handlers of
the line, and the card's handler calls `snd_pcm_period_elapsed` (or the UART's
loops), which changes the runtime and calls back into the 16-bit side. Every part
allocates from the heap or in pages. `OSS32_Initialize` finds the card at INIT,
and suspend, resume and shutdown reach it through the table that search left.

The execution model, on which every notion of atomicity in the modules rests:

* ring 0 of OS/2 is not preempted by other tasks, and the IDC interface issues
  one call at a time; a call that would block returns instead (`O_NONBLOCK`);
* a spin lock is `cli` (`lib32/spinlock.c`): a locked section is atomic, and the
  interrupt runs wherever no lock is held: between calls, between the STATUS
  query and the write of `OSS32_WaveAddBuffer`, while `snd_pcm_lib_write1`
  copies frames (`pcm_lib.c` 1872-1875 drop the lock around the copy), and
  between the critical sections of the raw MIDI calls;
* the card runs concurrently with both.

What is hard here: the position of the card is known only modulo the ring, so
laps are inferred; interrupts are late, merged or left over from before a stop;
the OS/2 port removed the stop from the position query, so an underrun must be
caught by an interrupt; lines are shared and a dispatch stops at the first claim;
task and interrupt run the same transmit loop and hand bytes to each other;
drivers, opens and allocations fail half way; sizes are tied together by rules
that wake each other; the heap's compaction walks a list that it changes; timers
and sleeps are stubs. PROJECT.json lists these as hazards, each at its line.

What makes each part correct:

* PCM: pointers in range for ever, copies only over frames that were played, the
  inferred position less than a lap behind, audio in the order it was written or
  silence in its place, an underrun reported if and only if there is one.
* Sizes: what is installed fits the card, no rule takes away a configuration the
  card has, a refusal has a reason, the rules come to rest.
* Interrupts: count, table and hooked line agree; an interrupt of a registered
  chip is claimed; every request is served.
* Raw MIDI: bytes leave and arrive in order, once; queued bytes are triggered; a
  handler never meets a freed runtime; calls return.
* Sequencer and FM: synthesizers are held by open streams and by nothing else,
  streams do not disturb each other, an ended note is silent, a note always finds
  a voice and is not cut without need.
* Heap and pages: blocks tile the region and do not overlap, owners keep their
  blocks, DMA blocks can be reached whole, nothing is lost.
* Card search: resources are held all or not at all, by the device they were
  requested for; each card is removed once and reached by suspend and resume.

## 2. Modules

**PcmRuntime** is the runtime of one playback substream as a record, and the
functions of `pcm_lib.c` and `pcm_native.c` as operators from runtime to runtime.
`snd_pcm_playback_silence` is split along its three steps (forget what the
application wrote over, see how near noise is, fill), with the OS/2 guard that
cuts the fill at the end of the ring. A frame in `dma_area` is the position it
was written for, so that properties can tell right audio from wrong. The
parameters are those `OSS32_WaveSetHwParams` installs: `xfer_align` is a period,
start threshold 1, stop threshold the buffer, silence size and threshold a period
(half a period when there are only two). The boundary, about 2^31 frames in the
code, is `Laps` buffers.

**OssPlayback** puts the runtime between its three actors. One action per OSS32
call; `OSS32_WaveAddBuffer` is four (`OSS32_WaveAddBuffer` with its STATUS query,
`snd_pcm_lib_write1` up to the unlock, `Transfer`, `Commit`), since the interrupt
may come between them. `DmaAdvance` is the card, playing one frame and raising
its line at a period; `IsrAck` and `snd_pcm_period_elapsed` are the handler, in
two steps because the card can raise the line again after the acknowledgement.
The `ok` parameters are the card's answers to triggers and parameters. `dma`
counts frames since the stream was prepared; `pointer` is what the driver can see
of it.

**HwParams** is where the sizes OssPlayback takes as constants come from: the
whole of `OSS32_WaveSetHwParams`, over ALSA's intervals for six sizes and the
rules that tie them together. The interval operations keep the code's open and
integer bounds, its rounding and its saturation at `UINT_MAX`; an interval that
has become empty keeps the bounds that crossed, because the call's second attempt
reads them. One action is one rule, taken in the code's order; `stamps` is the
set of rules the code's time stamps make due. A card is a record of limits, with
what the drivers' open functions add (a list of period sizes, a bound on the
buffer in frames, a whole number of periods). Calls are repeated on the same
stream with the same or another format, so that a failure meets earlier sizes.

**IrqTable** has the table of `lib32/irq.c` and the hooking of `drv32/irq.cpp`.
`request_irq` has its ways out as disjuncts (refused by the resource manager,
table full, slot taken with or without a successful hook). `free_irq` is two
actions, because the line is unhooked after the slot is cleared and interrupts are
enabled in between. The stores of `request_irq` into one slot are one step. A
dispatch is an action per handler. Refusals are chosen per line: `Reliable` are
the lines on which nothing is refused. Lines are level triggered, and OS/2 shuts
down a line whose interrupt nobody claims: both are assumptions on OS/2, modelled
from how the driver uses it.

**RawMidi** has one port with its output and input runtime (ring, `hw_ptr`,
`appl_ptr`, `avail`), the mode bits of the MPU-401 driver and the UART. The task
and the interrupt each have a place in the code (`cpu`); the transmit and receive
loops are actions either of them takes, one per turn, guarded by the loop bits
`TX_LOOP` and `RX_LOOP`. The UART interrupts for received bytes only, so output is
sent by the write itself and by interrupts that come for input. `add_timer` is
empty and the sleep of the drain returns at once without ever reporting that its
time is up (`waitqueue.c` 58-61). An open is of one direction; one for both is two
opens, and the append mode, which no OSS32 call sets, is left out.

**ByteQueue** is what a direction of the port promises: bytes come out in the
order they went in, once. RawMidi implements it twice, with refinement mappings:
the output queue is the ring's queued bytes, from which nothing may be lost; the
input queue is the ring, the byte in a receive loop's hand and the UART, and may
lose bytes (a full ring, an overrun).

**MidiCalls** has the OSS32 MIDI calls as one action each, since nothing
interrupts these tables, built from an operator per function of the sequencer
they go through (client, port, subscription, use count, synthesizer setup and
cleanup). `clear_subscribers`, which disconnects a client's ports one connection
after the other, is in closed form: what is left of each count, and which synths
its last user left. Every allocation of an open may fail, that of an instrument
too: `sent` has the synthesizers instruments were sent to, `missing` says that some
of them found no room. The interrupt flag and the flags saved in each lock are part
of the state.

**FmVoices** has the note and pedal state of the channels, the voice table with
four-operator pairs, and the key-on and connection bits of the chip. Time in the
voice table is the order of use, renumbered. The loops that end notes or bend
them, voice by voice, are in closed form: which voices they reach, and when it is
each one's turn.

**Heap** has the free list as a sequence (its order matters to first fit and to
compact), the used blocks as a set, the sizes in the headers, `uMemFree` modulo
2^32 (`Word`, small for TLC). `malloc` includes the first call's allocation of the
region; `free` and `realloc` start `compact`, whose loop is an action per element,
so that the properties are seen to hold inside it.

**Pages** has the blocks OS/2 gave, what callers hold, and the list of shifted
addresses. An allocation is an action per attempt: the first block, the retry
that keeps the badly placed one until it has another, the oversized block
returned at a boundary inside it, and the two attempts of
`pci_alloc_consistent`. OS/2 may refuse any of them and put a block anywhere.

**PciBus** has the device table, the resource object of the probe, and what
OS/2's resource manager has granted. The machine varies: which devices it has,
what other drivers hold, which probes fail, and which devices have device and
function number 0 on their bus (`origin`): the number is also the table's mark of
an entry in use, so theirs look free. Initialisation goes driver by driver and id
by id, resource by resource; then power changes and shutdown. `suspended` is the
last power change, for the properties.

**MC...** modules instantiate them for TLC. The theorems about a module *X* are
in *X***Proofs**: OssPlayback, IrqTable, PciBus, Pages, Heap, HwParams, MidiCalls.
Those about RawMidi and FmVoices, the two devices a MIDI stream can play on, are
in **MidiDevicesProofs**.

Operators marked `Mutant:` are plausible mistakes in the definition that follows
them. Nothing uses them; put in place of that definition each makes TLC find a
violation of the property PROJECT.json pairs it with.

## 3. Runs

| Run | Bounds | Shows |
|---|---|---|
| `playback` | ring of 8, periods of 2, boundary 32, 12 frames, interrupts up to 2 frames late, requests of 3 and 8 | `CopiesOverPlayed`, `HwPtrTracksDma`, `QueuedOrSilent`, `NeverBlocks`, `XrunJustified` |
| `playback_ring` | ring of 4, periods of 1, boundary 8, requests of 3, with pause | `TypeOK`, `PointersInRange`, `ChunkInRing`, `DmaMatchesState` |
| `playback_live` | ring of 4, fairness | `UnderrunReported` |
| `hwparams` | 768 cards (every combination of two or three values of each limit), 4 requests, repeated calls, fairness | `InstalledFits`, `NoSolutionLost`, `RefusedForAReason`, `CallReturns` |
| `irq` | 3 chips, 2 requests each, 2 lines of 2 slots; one line where everything may be refused, fairness | `TypeOK`, `CountMatches`, `HookedHasHandlers`, `EoiSpent`; on the other line `SuccessMeansServed`, `NeverShutDown`, `EveryRequestServed` |
| `rawmidi` | ring of 2, messages of 3 bytes, one byte in the UART, one turn per loop, fairness | `PortConsistent`, `OutputInOrder`, `InputInOrder`, `CallsEnd` |
| `midi` | 3 cards, two with a synthesizer and one with an MPU-401, 3 clients, every allocation may fail | `SequencerConsistent`, `PlaysLoadedSynth`, `OthersUndisturbed` |
| `fm` | a pair and two single voices, 2 notes, all kinds of programs | `VoicesConsistent`, `NoteEndsSilent`, `NoNeedlessSteal` |
| `heap` | 96 bytes, header of 12, requests of 0, 1, 4, 23 and one too large | `WellFormed`, `Tiling`, `MemFreeExact`, `OwnedBlocksKept` |
| `pages` | 14 pages, 64 KB of 4 pages, low memory and mask inside them, blocks of 1, 4 and 8 pages, 3 of them | `BlocksConsistent`, `DmaReaches`, `NothingLost` |
| `pci` | 5 devices, 3 card drivers and a joystick driver, 3 table entries, no device, a card, or a card and a joystick at number 0, every refusal | `ResourcesHeld`, `CardsManaged` |
| `heap_compact` | 80 bytes | violation of `AlwaysCompacted` |

Several properties are conjunctions of named parts, each with its own comment:
`PortConsistent`, `SequencerConsistent`, `VoicesConsistent`, `BlocksConsistent`,
`DmaReaches`, `ResourcesHeld`, `CardsManaged`, `WellFormed`. They hold the type
invariant of their module where it is not a property of its own.

What the properties of `hwparams` say together: `InstalledFits` is what
`RuntimeAssumption` of PcmRuntime asks for (an even number of whole periods in
the ring, at least two rings in the boundary), so the playback theorems apply to
what the call installs; `NoSolutionLost` is the correctness of the rules, that no
order of narrowing drops a configuration the card allows; `RefusedForAReason` is
about the call's own arithmetic and its retry: the sizes it works out from the
bounds are accepted, at the latest in the second attempt, unless the card asks
for more than two periods.

Why the bounds are enough. `playback` has four periods, so the "unexpected
pointer" test (half a buffer) and the lap inference are both in play, an odd
request that is no multiple of the period, and more frames than the ring holds,
so chunks wrap and underruns occur (the number of periods is even in every
run, as `InstalledFits` shows it is in the code); a latency of a whole period lets
interrupts merge. Its boundary is beyond what is written: the wrap at the boundary
is the subject of `playback_ring`, where each pointer wraps within the bound. In
`irq` three chips compete for two slots, so the table fills, and a dispatch has a
handler to pass over. `hwparams` mixes limits that divide each other with ones
that do not, frames of 1, 2 and 3 bytes, a period of less than a frame, one
larger than any buffer and a list without it; `UINT_MAX` is far above every
product of two bounds that is not meant to saturate. `rawmidi` has messages longer
than the ring, so that a write needs interrupts to go on, and a ring small enough
to wrap in every message; one turn per loop makes every loop end early. `midi`
has more clients than a synthesizer needs to be shared and one synthesizer that
no instruments are loaded into. `fm` has one pair, so two four-operator notes
steal from each other and from two-operator notes. In `heap` every request meets
both kinds of fit (split and whole) and fragmentation with up to six blocks. In
`pages` there are blocks of a page, of a window and of two, and there is room for
the retry and for its failure. In `pci` the device numbers are 0 of a card alone
and of a card and its joystick, which meet in one entry. The bounds (`MaxFrames`,
`MaxLatency`, `MaxRaises`, `Requests`, `MaxUsers`, `MaxBlocks`, `Slots`) only
restrict inputs.

CHECK_DEADLOCK is off where the system may stop: chips that have used up their
requests and drivers that were turned away (irq), a machine that has read through
a NULL pointer in ring 0 (heap), a driver that has shut down (midi, pci) or has
found no card (pci).

Fairness. `FairSpec` of OssPlayback: the card keeps playing while it is started,
a pending interrupt is served, a call under way finishes. None of them waits for
software: the first is hardware, the second holds because no section disables
interrupts for ever, the third because calls do not block. The application is
under no obligation at all. `FairSpec` of IrqTable: OS/2 delivers an asserted
line and handlers return; the second half of `free_irq` is reached. `FairSpec` of
HwParams: a call under way takes its next step; it is written without ENABLED,
since some action is always enabled (the run checks deadlock). `FairSpec` of
RawMidi: calls and handlers go on, the transmitter becomes free, a pending
interrupt is delivered. Nothing is assumed of the player: received bytes are the
only thing that interrupts and they may stop coming, so `CallsEnd` has the release
that waits for them as its one exception (section 4).

## 4. What was found

* `heap_compact` - once the freed block was joined to the one before it, compact
  goes on with another block as the head, and two neighbours stay apart, against
  the comment of `malloc.cpp` 402-404.

The following need no run of their own; each is reproduced by adding the property
to the module's configuration or changing the constants named.

* Playback. `HwPtrTracksDma` with a boundary of two rings (`MCPlayback_ring.cfg`
  without pause): `snd_pcm_update_hw_ptr_interrupt` does not wrap
  `hw_ptr_interrupt + period_size` at the boundary (the code for it is under
  `#if 0`), so if a position query has moved `hw_ptr_base` to 0 first, the next
  interrupt infers a lap that was not played. It takes 2^31 frames or so.
  `QueuedIntact`: an interrupt between the copy and the update of `appl_ptr` takes
  the new frames for noise and silences them. `ErrorReported`:
  `OSS32_WaveAddBuffer` converts the number of frames, not the error, to its
  return code, so a failed first write is a success. With two periods
  (`BufferSize = 4`, `PeriodSize = 2`) `XrunJustified` fails, because an interrupt
  left over from before a stop looks like a lap; with `CanPause`, `HwPtrTracksDma`
  and `UnderrunReported` fail, because interrupts pending while the stream is
  PAUSED are dropped. `OSS32_WavePause` passes 0 and `OSS32_WaveResume` passes 1
  (`sound.c` 583, 601), the reverse of what `SNDRV_PCM_IOCTL_PAUSE` expects; the
  model keeps the code's values.
* Sizes. A card that asks for at least three periods (`ymfpci_main.c` 775) can
  have its three periods made two by `nrperiods &= ~1` and the request refused;
  `RefusedForAReason` says that no other card is refused so. With a card of one
  period, a wanted period of more than half the buffer is answered with
  OSSERR_INVALID_PARAMETER although shorter periods would do.
* Interrupts. `SuccessMeansServed` for a line in `RmMayRefuse`: `request_irq`
  returns NULL, its callers' success, when the resource manager refuses the line.
  For one in `HookMayFail`: a handler whose hook failed stays in the table and the
  next driver on the line finds the count at 1 and does not hook it.
* Raw MIDI. `DrainEnds`: `snd_rawmidi_drain_output` is meant to give up after ten
  seconds (`rawmidi.c` 123-131), but the port's sleep returns 1 at once
  (`waitqueue.c` 58-61), which reads as time left. Nothing but an interrupt for a
  received byte sends what is queued, so a release with bytes in the queue spins
  until the player sends something.
* Sequencer. `InterruptsRestored`: `snd_seq_ioctl_subscribe_port` releases two
  locks in the order it took them (`seq_clientmgr.c` 1423-1426), and the second
  release restores the flags saved with interrupts disabled. An `OSS32_MidiOpen`
  that fails late leaves its sequencer client behind. `EveryInstrumentThere`:
  `fInstumentsLoaded` is set before the first patch is sent (`fminstrload.c` 109),
  `load_sb` stops without an error at a patch that cannot be allocated (216-219,
  294-295, 369-371), and no later open sends the rest: notes of these programs are
  silent.
* FM. `HeardIsAllocated`: when a four-operator note takes a free voice whose second
  one plays another note, `opl3_midi.c` 411 looks at `vp` where it means `vp2`, so
  the key of the second stays down; once a two-operator note separates the pair
  again, it sounds although no note owns it, until it is used again.
  `SoundsOffSilent`: all sounds off clears the notes of the channel after a call of
  `note_terminate` (`seq_midi_emul.c` 587-600), which is an empty function in
  `opl3_midi.c` 721-732, so their voices play on and no note off ends them.
* Heap. `OutOfMemoryHandled` with `HeapSize = 32`: `malloc` looks at the first free
  block before it asks whether there is one.
* Pages. `WithinMask`: when the first attempt of `pci_alloc_consistent` returns
  NULL, `virt_to_phys(NULL)` passes the mask test of `pci.c` 456 and the second
  attempt is made anywhere, against the comment of 450-452. `WholeWithinMask`: the
  test is of the first byte; a block of more than 64 KB may begin below the mask
  and end beyond it. `NothingLost` with
  `RecordMayFail`: `AddBaseAddress` (`memory.cpp` 84) loses the base of a shifted
  block when the heap has no room for a record. `DmaWindow` with `LookupMayFail`:
  a physical address that cannot be found counts as well placed.
* Card search. `EveryCardHoldsResources`: a refused FM or MPU port releases all of
  the device's resources (`rm.cpp` 607), the ones of its configuration space too,
  though the probe goes on and the card works with them; `rm.cpp` 333-334 requires
  the allocation so that no driver loaded later can be given them.
  `EveryCardManaged`: the search goes through every bus from device 0
  (`rm.cpp` 991-1037), and a card found at device 0, function 0 of a secondary bus
  has `devfn` 0 (`pci.c` 131), which marks a free entry: suspend and resume skip it
  (57, 77), and the search for its joystick takes the entry over (216), so that the
  card is not removed at shutdown.

## 5. Theorems

All proofs hold for every value of the constants that meets the assumptions
named in the modules.

OssPlaybackProofs (assumes `RuntimeAssumption`: at least two periods fit in the
ring and at least two rings in the boundary; `PlaybackAssumption`: types):
`TypeCorrect`, `PointersStayInRange`, `CopiesStayInRing`, `HardwareFollowsState`.
None of these is inductive by itself. The invariant `IInv` is their conjunction:
the pointers stay in range because a commit moves `appl_ptr` by a chunk that ends
at the end of the ring at most, so it meets the boundary exactly; the chunk is the
right one because nothing but the commit itself moves `appl_ptr` while a write is
under way (the interrupt's part of the runtime functions preserves it, lemmas
about `Silence`, `snd_pcm_update_hw_ptr` and the drop); that in turn needs the
types. `hw_ptr_base` is a multiple of the ring below the boundary, so the
equality test with which the code wraps it cannot be jumped over: this is the
lemma about `NextBase`, and it needs `Laps` to be a whole number.

`HwPtrStaysClose`, `CopiesStayBehindCard`, `CardPlaysWhatWasWritten`,
`WritesNeverBlock` and `XrunsAreReal` have the hypothesis `Timely`: the ring is a
whole number of periods (which `InstalledFits` shows of what the call installs),
more than two, interrupts wait for at most half a ring, the session ends two rings
before the boundary, and the card cannot pause. The constants of the run
`playback` meet it, and section 4 has what happens with two periods, near the
boundary and with pause. The invariant `TInv` says of a prepared or running
stream: `hw_ptr_interrupt` is the start of a period, not beyond `hw_ptr`, which is
not beyond the card (`Tracks`); the card is at most a period and the time the
interrupt has waited past it, and within the period if none waits (`Latency`);
what a write has left to hand over fits behind the card (`Room`); and the slots
from `hw_ptr` to the end of what was copied hold their frame or silence (`Kept`).
The heart is `InterruptTracks`: a position in the next lap is at least half a ring
below the expected one and is taken for a lap; a position in the same lap is
either at or past the expected one, or short of it by at most a period, less than
half a ring, and dropped. So hw_ptr is either the card's position or where it was.
`Room` then holds because hw_ptr only grows, `Kept` because the copy's slots are
those of positions a lap ahead of played ones (`TransferKeeps`), and an underrun
found at an interrupt is found with hw_ptr at the card.

IrqTableProofs (assumes `IrqAssumption`): `TypeCorrect`, `CountsAreExact`,
`HookedLinesHaveHandlers`, `EoiIsSpent`, whatever is refused. `IInv` adds that a
dispatch under way is at a slot of a real line, and that a driver that is bound or
about to unhook has a line. The counts rest on two lemmas about finite sets
(taking a free slot adds one to the occupied ones, clearing one takes one away).
`SuccessIsServed` and `LinesStayUp` are about the reliable lines. Their invariant
`ServedInv` says that a slot belongs to the driver that took it, that a line being
unhooked has no handler, and that the chip whose interrupt a dispatch is for is
ahead of the slot the dispatch has come to: so it is met before the table ends,
and the dispatch ends with a claim.

MidiDevicesProofs, on RawMidi (assumes `RawMidiAssumption`: a ring of at least one
byte, types): `PortStaysConsistent`, and both refinements of ByteQueue,
`OutputImplementsQueue` and `InputImplementsQueue`. The first is inductive once
the ring pointers are tied to `avail` (`OutRing`, `InRing`: the pointer that is
ahead is `avail` bytes away, and no byte between the two is stale), the places of
task and interrupt are tied to the mode bits and the loop bits (`TaskOK`,
`IsrOK`), and at most one of the two is in the receive loop (`RxAlone`), so that
the byte in a loop's hand is the next one. From there each action is a step of the
queue or none: the copy of `snd_rawmidi_kernel_write1` appends,
`snd_rawmidi_transmit_ack` removes from the front, and the lemmas on `QueueOf` and
`StoreOf` say so for a ring that wraps. The input queue has three parts; a byte
the ring has no room for is dropped from the middle, which is the `Lose` step of
ByteQueue.

MidiDevicesProofs, on FmVoices (assumes `FmVoicesAssumption`: voices, channels and
notes are some of the chip's 18 voices, 16 channels and 128 notes, a program plays
at most one extra one; `PairsAssumption`: a second voice is modelled with its
first and the other way round, there is a pair and a voice outside the pairs):
`VoicesStayConsistent`, `EndedNotesAreSilent` (all sounds off excepted, section
4), `NoNoteStolenNeedlessly`. The invariant `FmInv` adds to the properties that
only second voices are withheld and only first ones play four operators (`Bound`),
without which the cost of a voice says nothing about its pair, and that a note
with any flag is on (`Sounding`), without which letting go of the sustenuto pedal
could clear the last flag of a note that is not ended. What the operators do to a
table is stated once per operator (`Killed`, `NotesOff`, `Bent`, `Played`,
`Renewed`) and the events are put together from these: killing frees exactly the
seconds of the four-operator notes among the killed; playing on the voice
`opl3_get_voice` found, one that is not withheld, keeps the pairs bound whatever
it played before. That there is such a voice is the least of a finite order by
cost, age and number, over candidates that always exist, because a voice outside
the pairs and a first voice are never withheld. A free voice stays free when the
note to be played again is ended first, and has a lower cost than any that plays:
hence no needless steal.

PciBusProofs (assumes `PciAssumption`: no two drivers have a device id in common,
no id occurs twice in a table, legacy ports are no resources of a configuration
space, and the drivers with power management are card drivers; the tables of the
drivers in `alsa/pci` are so): `ResourcesStayHeld`, `CardsStayManaged`. A device is
searched for once (`NotYet`), so that a search never meets grants of an earlier
one; the resource manager object has the resources of the device being probed and
of no other (`ObjectOK`). A card driver works with the first entry of the table and
its companion with the second (`MarkedOK`), so that what the failed searches leave
behind is overwritten or harmless, and suspend and resume, which go by the entries
in use (`EntryOK`), find the card. If the card has device number 0 (`Skipped`),
companion and card share the first entry; of such a card `CardsStayManaged` claims
only that no entry in use is without a driver (`SkippedOK`).

PagesProofs (assumes `PagesAssumption`: the limits of low memory and of the masks
are whole 64 KB windows, an order stands for a number of pages):
`BlocksStayConsistent`, whatever fails; `DmaIsReached`, with the exceptions in the
comment of `DmaReaches`, if physical addresses can be looked up; `NothingIsLost`
if records can be stored. The hypotheses of the last two are the failures of
section 4 under which they do not hold. The invariant counts the block an
allocation has got and not returned among the holders and says of the blocks, the
list and the holders together: one holder per block, a record's base is the block
its address lies in, and freeing a holder's address finds its block, by the record
that was added last. The arithmetic is that of the third attempt: a block of twice
the size has a window boundary inside it, and the part from there on fits.

HeapProofs (assumes `HeapAssumption`: sizes are multiples of 4, room for one
block): `BlocksTileTheRegion`, `HeapStaysWellFormed`, `OwnersKeepTheirBlocks`,
`FreeBytesAccounted`. The invariant `Tile` is about the set of blocks and the
sizes in their headers, where each block ends at the next or at the end of the
region. It is the same wherever a block hangs: a split adds a block in the gap
behind another, a join takes one away, and `malloc`, `free` and `compact`
otherwise move blocks between lists. A join is made only of blocks that are
neighbours and both on the free list, which is why compact in the middle of its
loop still finds the region tiled, though it leaves neighbours apart
(`heap_compact`). `FreeBytesAccounted` is about the sum over the free list. A list
has one function of running totals (`Counts`, by least counterexample,
`CountUnique`), and three lemmas say what putting a block in front, taking one out
and replacing one does to its last value; `uMemFree` makes the same change modulo
2^32 in every branch of malloc, free and compact.

HwParamsProofs (assumes `HwParamsAssumption`: a period has at least one byte and
there is at least one, and sizes are so far below the largest unsigned int that
the call's own products do not wrap, with three buffers in a long; the largest
buffer of a card in `alsa/` has 1 MB, the most periods are 1024):
`InstalledStaysFit`, `SolutionsAreKept`, `RefusalsHaveAReason`, for all cards,
requests and repetitions.
Each interval operation is shown to keep the values its result ought to have,
rounding, open bounds and saturation included, and `snd_interval_refine` to keep
what both of its arguments have; so no rule takes away the values of a
configuration (`Kept`). What ChooseSizes and HW_PARAMS conclude needs more: that
the rules they depend on have run since their arguments changed. `Refined` and
`Checked` say for each of these rules that it is due or its conclusion holds, and
are inductive because every change wakes the rules that read the interval, except
the one that made it, whose conclusion is shown to survive its own change. In the
second phase every interval is a single value or empty (`Fixed`), so a rule that
leaves something has verified its equation. That the number of bytes asked for is
a whole number of frames, if the period is one the card allows, is the lemma
`WholeFrames` about the two clamps. `RefusalsHaveAReason` has an invariant of its
own on top, `RInv`. `Settled` says in the first phase what each rule has
established when it is not due, so that at rest the bounds agree with each other:
the least period in bytes is the least in frames times the frame, the greatest
fits too, the longest period times the fewest periods fits the buffer. The clamped
period and the number of periods that fit, made even, are then within every
limit but the list of period sizes (`Offered`, the lemmas `PeriodChosen` and
`PeriodsFit`). In the second phase the rules keep these values, or the list, which
is the last to object, crosses the bounds of the period and leaves its greatest
member below the period asked for (`Suggested`). That member is what the second
attempt reads, and with it the sizes are a configuration of the card, which the
rules keep.

MidiCallsProofs (assumes `MidiCallsAssumption`: card numbers are below
`SNDRV_CARDS`, 8, which keeps the client numbers of synths and users apart):
`SynthsHeldByStreams`, `StreamsPlayLoadedSynth`, `NotesOfOthersAreKept`, for any
cards and synths among these, and any number of clients and notes, whatever
allocation fails. The invariant `MInv` has two layers. `Good` is about the
tables alone: the two sides agree, a user has at most one connection, both ends
of it exist, `use_count` is the number of callers, and a synth without callers
is not taken and is silent. Each operator is shown to keep it or, between two of
them, to be off by exactly one connection (`AddedEdge`, `RemovedEdge`,
`TakenBack`): that a user who is not connected yet never meets a synth taken
without users is why connecting can fail for want of memory only. `Held` ties
the tables to the streams: until the shutdown each FM stream is one connection
and each connection a stream, and all of them are on the first synth, because
the search of `OSS32_MidiOpen` starts at client 64 whatever the card
(`FirstSynth`). That is why sending instruments to one synth is enough; that all of
them find room there is not claimed. A
close resets the synth only if `use_count` is 1, and two streams on a synth are
two callers (`TwoCallers`).

Only model-checked: liveness (`UnderrunReported`, `CallReturns`,
`EveryRequestServed`, `CallsEnd`), which is out of the prover's reach.

## 6. Not modelled

* Of the 190,000 lines under `src/`, about 110,000 are vendored ALSA card drivers
  (`alsa/pci`, `alsa/isa`): register programming for one chip each,
  thirty times over, some with firmware images and coefficient tables as C arrays.
  Their state is in hardware this repository does not describe; the models assume
  of them what the PCM, MIDI and interrupt layers use (trigger, pointer, the
  acknowledgement in the handler, probe and remove). Another large part is headers
  and tables (FM instruments, volume tables, PCI ids) and ALSA code that no OSS32
  call reaches: sequencer queues, cells, FIFOs and timers, the ALSA timer core,
  hwdep, the /proc and RTC support. The modules cover the code that is
  the port's own and the ALSA code under it that keeps state between calls; that
  is a small share of the lines, and mapping more of them would mean mapping lines
  no definition translates.
* Capture: `snd_pcm_lib_read1` and the capture side of the pointers. DRAIN and
  RESET, which no OSS32 call reaches for playback; mmap; linked streams.
* HW_PARAMS of a stream that is running (refused with -EBADFD), and 4-bit ADPCM,
  whose frames are no whole number of bytes.
* A card that refuses a stop, pause or prepare: the code ignores or returns the
  answer, the cards in `alsa/` accept.
* Limits of cards that HwParams does not have: lists and steps of the period in
  bytes and fixed buffers (`rme96.c` 1301-1302, `korg1212.c` 1240-1241, `gus_pcm.c`
  737), in drivers `OSS32_Initialize` does not start; and emu10k1's least buffer of
  256 bytes (`emupcm.c` 932), above which the call stays, since it asks for as many
  periods as the largest buffer holds.
* Raw MIDI opens that fail for want of memory (they change nothing that another
  call sees), and the append mode.
* A change of the buffer size between two playback sessions: `BufferSize` is a
  constant of OssPlayback; HwParams has the change, without playback.
* A stream id used after `OSS32_WaveClose`, and IDC calls issued from the
  callback in the interrupt (`irq.c` 134): what the 16-bit driver calls there is not
  in this repository. An interrupt between the stores of `request_irq` into a slot
  (`irq.c` 68), where a handler would meet a NULL chip.
* Mixer calls and control elements: each looks a control up by name and forwards
  one read or write to the card.
* Card registration and device lists, single threaded and at probe time.
* `HeapCheck` and the other DEBUG walks: they are the properties of Heap.
* FM tables, text handling, command line, debugging: no logic of the port.

## 7. Plan

Left to do: capture, as a second direction of PcmRuntime.
