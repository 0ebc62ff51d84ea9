----------------------------- MODULE PcmRuntime -----------------------------
(***************************************************************************)
(* The runtime of one playback substream: the fields of snd_pcm_runtime_t  *)
(* that alsa/core/pcm_lib.c and pcm_native.c compute with, and the         *)
(* functions of those files as operators from a runtime to a runtime.      *)
(* Everything here runs under runtime->lock, which on OS/2 is "cli"        *)
(* (lib32/spinlock.c), so each operator is one atomic section.             *)
(*                                                                         *)
(* Sizes and positions are in frames.  The hardware and software           *)
(* parameters are the ones OSS32_WaveSetHwParams installs.                 *)
(***************************************************************************)
EXTENDS Integers

CONSTANTS BufferSize,    \* runtime->buffer_size
          PeriodSize,    \* runtime->period_size
          Laps           \* runtime->boundary is Laps buffers long

ASSUME RuntimeAssumption ==
  /\ BufferSize \in Nat \ {0}
  /\ PeriodSize \in Nat \ {0}
  /\ Laps \in Nat
  /\ Laps >= 2
  /\ 2 * PeriodSize <= BufferSize

Boundary == Laps * BufferSize

(* The software parameters OSS32_WaveSetHwParams sets for playback. *)
XferAlign == PeriodSize
StartThreshold == 1
StopThreshold == BufferSize
SilenceSize == IF BufferSize <= 2 * PeriodSize THEN PeriodSize \div 2
                                               ELSE PeriodSize
SilenceThreshold == SilenceSize

PcmStates == {"CLOSED", "OPEN", "SETUP", "PREPARED", "RUNNING", "XRUN",
              "PAUSED"}
Slots == 0 .. BufferSize - 1
Silent == -1             \* what snd_pcm_format_set_silence writes
Unknown == -2            \* the DMA area before anything is written
Contents == {Silent, Unknown} \cup Nat      \* or the position of a frame

Runtime ==
  [state            : PcmStates,
   trigger          : {"STOP", "START", "PAUSE_PUSH", "PAUSE_RELEASE"},
   hw_ptr           : Nat,
   hw_ptr_base      : Nat,
   hw_ptr_interrupt : Nat,
   appl_ptr         : Nat,
   silenced_start   : Nat,
   silenced_size    : Nat,
   dma_area         : [Slots -> Contents]]

(* The pointers are positions below the boundary, hw_ptr_base starts the lap *)
(* hw_ptr is in, and the silenced region fits in the buffer.                 *)
LapStarts == {k * BufferSize : k \in 0 .. Laps - 1}
PointersOK(r) ==
  /\ r.appl_ptr < Boundary
  /\ r.hw_ptr < Boundary
  /\ r.hw_ptr_base \in LapStarts
  /\ r.hw_ptr_base <= r.hw_ptr
  /\ r.hw_ptr < r.hw_ptr_base + BufferSize
  /\ r.silenced_start < Boundary
  /\ r.silenced_size <= BufferSize

(***************************************************************************)
(* A runtime as snd_pcm_open leaves it: kcalloc'ed, state OPEN.  dma_area  *)
(* holds, slot by slot, the position of the frame stored there; trigger is *)
(* the last command the low-level driver accepted.                         *)
(***************************************************************************)
FreshRuntime ==
  [state            |-> "OPEN",
   trigger          |-> "STOP",
   hw_ptr           |-> 0,
   hw_ptr_base      |-> 0,
   hw_ptr_interrupt |-> 0,
   appl_ptr         |-> 0,
   silenced_start   |-> 0,
   silenced_size    |-> 0,
   dma_area         |-> [s \in Slots |-> Unknown]]

Running(r) == r.state = "RUNNING"

snd_pcm_playback_avail(r) ==
  LET avail == r.hw_ptr + BufferSize - r.appl_ptr
  IN  CASE avail < 0         -> avail + Boundary
        [] avail >= Boundary -> avail - Boundary
        [] OTHER             -> avail

snd_pcm_playback_hw_avail(r) == BufferSize - snd_pcm_playback_avail(r)

(***************************************************************************)
(* snd_pcm_playback_silence: first forget the part of the silenced region  *)
(* the application has written over, then, when the end of valid data      *)
(* ("noise") is nearer than the threshold, silence some more.              *)
(***************************************************************************)
(* Mutant: the region is shortened even when all of it was written over. *)
SilenceLeftUnguarded(r) ==
  LET d == r.appl_ptr - r.silenced_start
  IN  r.silenced_size - (IF d < 0 THEN d + Boundary ELSE d)

SilenceLeft(r) ==
  LET d == r.appl_ptr - r.silenced_start
      n == IF d < 0 THEN d + Boundary ELSE d
  IN  IF n < r.silenced_size THEN r.silenced_size - n ELSE 0

SilenceFrames(r) ==      \* r.silenced_size is current here
  LET noise  == snd_pcm_playback_hw_avail(r) + r.silenced_size
      wanted == IF SilenceThreshold - noise < SilenceSize
                THEN SilenceSize ELSE SilenceThreshold - noise
  IN  IF r.silenced_size + wanted > BufferSize
      THEN BufferSize - r.silenced_size ELSE wanted

SilenceOffset(r) ==
  LET o == (r.silenced_start % BufferSize) + r.silenced_size
  IN  IF o >= BufferSize THEN o - BufferSize ELSE o

ClampToEnd(ofs, frames) ==      \* the TARGET_OS2 guard
  IF ofs + frames > BufferSize THEN BufferSize - ofs ELSE frames

SetSilence(area, ofs, frames) ==
  [s \in Slots |-> IF s \in ofs .. (ofs + frames - 1) THEN Silent ELSE area[s]]

ForgetWritten(r) == [r EXCEPT !.silenced_start = r.appl_ptr,
                              !.silenced_size  = SilenceLeft(r)]

snd_pcm_playback_silence(r) ==
  LET q      == ForgetWritten(r)
      noise  == snd_pcm_playback_hw_avail(q) + q.silenced_size
      ofs    == SilenceOffset(q)
      frames == ClampToEnd(ofs, SilenceFrames(q))
  IN  IF q.silenced_size = BufferSize \/ noise > SilenceThreshold
      THEN q
      ELSE [q EXCEPT !.dma_area = SetSilence(@, ofs, frames),
                     !.silenced_size = @ + frames]

Silence(r) == IF SilenceSize > 0 THEN snd_pcm_playback_silence(r) ELSE r

(***************************************************************************)
(* The stop, start and pause triggers (snd_pcm_stop, snd_pcm_start,        *)
(* snd_pcm_pause).  ok says whether the low-level driver accepts the       *)
(* trigger; a refused one leaves the state alone.                          *)
(***************************************************************************)
snd_pcm_stop(r, state) == [r EXCEPT !.trigger = "STOP", !.state = state]

snd_pcm_start(r, ok) ==
  IF ok THEN Silence([r EXCEPT !.trigger = "START", !.state = "RUNNING"])
        ELSE r

StartError(r, ok) ==
  IF r.state # "PREPARED" THEN "EBADFD"
  ELSE IF snd_pcm_playback_avail(r) >= BufferSize THEN "EPIPE"
  ELSE IF ok THEN "0" ELSE "EINVAL"

PauseError(r, push) ==
  IF r.state = (IF push THEN "RUNNING" ELSE "PAUSED") THEN "0" ELSE "EBADFD"

snd_pcm_pause(r, push) ==
  IF push THEN [r EXCEPT !.trigger = "PAUSE_PUSH", !.state = "PAUSED"]
          ELSE [r EXCEPT !.trigger = "PAUSE_RELEASE", !.state = "RUNNING"]

(***************************************************************************)
(* The hardware pointer.  pos is what ops->pointer reads: the position     *)
(* inside the ring.  The lap (hw_ptr_base) is inferred: a position that    *)
(* went backwards by half a buffer or more means the ring was wrapped, a   *)
(* smaller step back is dropped as "Unexpected hw_pointer value".          *)
(***************************************************************************)
(* Mutant: the base is never wrapped at the boundary. *)
NextBaseUnwrapped(base) == base + BufferSize

NextBase(base) == IF base + BufferSize = Boundary THEN 0 ELSE base + BufferSize

(* Mutant: every step back is dropped, a lap too. *)
UnexpectedAlways(delta) == delta > 0

Unexpected(delta) == delta > 0 /\ delta < BufferSize \div 2

(* Mutant: a position that has not moved counts as a lap. *)
BaseAfterNoMove(r, delta) == IF delta >= 0 THEN NextBase(r.hw_ptr_base)
                                           ELSE r.hw_ptr_base

BaseAfter(r, delta) == IF delta > 0 THEN NextBase(r.hw_ptr_base)
                                    ELSE r.hw_ptr_base

(* Mutant: a query stops an underrun stream, as it does outside TARGET_OS2. *)
UpdateHwPtrStops(r, pos) ==
  LET delta == r.hw_ptr - (r.hw_ptr_base + pos)
      base  == BaseAfter(r, delta)
      q     == [r EXCEPT !.hw_ptr = base + pos, !.hw_ptr_base = base]
  IN  IF Unexpected(delta) THEN r
      ELSE IF snd_pcm_playback_avail(q) >= StopThreshold
      THEN snd_pcm_stop(q, "XRUN")
      ELSE Silence(q)

(* Called from task time (status, drop): never stops the stream on OS/2. *)
snd_pcm_update_hw_ptr(r, pos) ==
  LET delta == r.hw_ptr - (r.hw_ptr_base + pos)
      base  == BaseAfter(r, delta)
      q     == [r EXCEPT !.hw_ptr = base + pos, !.hw_ptr_base = base]
  IN  IF Unexpected(delta) THEN r
      ELSE IF snd_pcm_playback_avail(q) >= StopThreshold THEN q
      ELSE Silence(q)

(* Mutant: the period interrupt does not stop the stream either. *)
InterruptNeverStops(r, pos) ==
  LET delta == r.hw_ptr_interrupt + PeriodSize - (r.hw_ptr_base + pos)
      base  == BaseAfter(r, delta)
      q     == [r EXCEPT !.hw_ptr = base + pos, !.hw_ptr_base = base,
                         !.hw_ptr_interrupt = base + pos - (pos % PeriodSize)]
  IN  IF Unexpected(delta) \/ snd_pcm_playback_avail(q) >= StopThreshold THEN r
      ELSE Silence(q)

(* Called from the period interrupt: an underrun stops the stream. *)
snd_pcm_update_hw_ptr_interrupt(r, pos) ==
  LET delta == r.hw_ptr_interrupt + PeriodSize - (r.hw_ptr_base + pos)
      base  == BaseAfter(r, delta)
      q     == [r EXCEPT !.hw_ptr = base + pos, !.hw_ptr_base = base,
                         !.hw_ptr_interrupt = base + pos - (pos % PeriodSize)]
  IN  IF Unexpected(delta) THEN r
      ELSE IF snd_pcm_playback_avail(q) >= StopThreshold
      THEN snd_pcm_stop(q, "XRUN")
      ELSE Silence(q)

(* snd_pcm_prepare on a stopped stream: ops->prepare, then the reset. *)
snd_pcm_prepare(r) ==
  [r EXCEPT !.state = "PREPARED", !.hw_ptr = 0, !.hw_ptr_base = 0,
            !.hw_ptr_interrupt = 0, !.appl_ptr = 0, !.trigger = "STOP"]

(* Mutant: a running stream is dropped without the stop trigger. *)
DropWithoutTrigger(r, pos) ==
  LET p == IF r.state = "PAUSED" THEN snd_pcm_pause(r, FALSE) ELSE r
      q == CASE p.state \in {"OPEN", "SETUP"} -> p
             [] p.state = "RUNNING" ->
                  [snd_pcm_update_hw_ptr(p, pos) EXCEPT !.state = "SETUP"]
             [] p.state \in {"PREPARED", "XRUN"} -> [p EXCEPT !.state = "SETUP"]
  IN  [q EXCEPT !.appl_ptr = q.hw_ptr]

(* snd_pcm_playback_drop: whatever is queued is thrown away. *)
snd_pcm_playback_drop(r, pos) ==
  LET p == IF r.state = "PAUSED" THEN snd_pcm_pause(r, FALSE) ELSE r
      q == CASE p.state \in {"OPEN", "SETUP"}    -> p
             [] p.state = "RUNNING"              ->
                  snd_pcm_stop(snd_pcm_update_hw_ptr(p, pos), "SETUP")
             [] p.state \in {"PREPARED", "XRUN"} -> [p EXCEPT !.state = "SETUP"]
  IN  [q EXCEPT !.appl_ptr = q.hw_ptr]

(***************************************************************************)
(* snd_pcm_lib_write1: how many frames one pass of its loop moves, the     *)
(* copy itself, and the application pointer after it.                      *)
(***************************************************************************)
AlignDown(n) == IF n > XferAlign THEN n - (n % XferAlign) ELSE n

MinOf(a, b) == IF a <= b THEN a ELSE b

(* Mutant: a chunk may run past the end of the ring. *)
ChunkPastEnd(r, size) == MinOf(size, AlignDown(snd_pcm_playback_avail(r)))

ChunkFrames(r, size) ==
  MinOf(MinOf(size, AlignDown(snd_pcm_playback_avail(r))),
        BufferSize - (r.appl_ptr % BufferSize))

(* Mutant: the last frame of the chunk is not copied. *)
TransferOneShort(area, appl, frames) ==
  LET ofs == appl % BufferSize
  IN  [s \in Slots |-> IF s \in ofs .. (ofs + frames - 2)
                       THEN appl + (s - ofs) ELSE area[s]]

snd_pcm_lib_write_transfer(area, appl, frames) ==
  LET ofs == appl % BufferSize
  IN  [s \in Slots |-> IF s \in ofs .. (ofs + frames - 1)
                       THEN appl + (s - ofs) ELSE area[s]]

AdvanceAppl(appl, frames) == IF appl + frames >= Boundary THEN 0
                                                          ELSE appl + frames
=============================================================================
