---------------------------- MODULE OssPlayback ----------------------------
(***************************************************************************)
(* One playback stream of UNIAUD, driven from three sides:                 *)
(*                                                                         *)
(*  - the 16-bit driver, through the OSS32_Wave calls of lib32/sound.c,    *)
(*    one call at a time (task time, non-blocking, never preempted by      *)
(*    another task);                                                       *)
(*  - the sound card, whose DMA engine consumes the ring one frame at a    *)
(*    time and latches an interrupt at every period boundary;              *)
(*  - the interrupt handler, which preempts the task wherever interrupts   *)
(*    are enabled: between calls, between the STATUS query and the write   *)
(*    of OSS32_WaveAddBuffer, and while snd_pcm_lib_write1 copies frames   *)
(*    with the lock dropped.                                               *)
(***************************************************************************)
EXTENDS PcmRuntime

CONSTANTS MaxFrames,     \* bound: frames the application writes per session
          MaxLatency,    \* bound: frames played while an interrupt waits
          Requests,      \* sizes, in frames, of the buffers handed over
          CanPause       \* SNDRV_PCM_INFO_PAUSE

ASSUME PlaybackAssumption ==
  /\ MaxFrames \in Nat
  /\ MaxLatency \in Nat
  /\ Requests \subseteq Nat \ {0}
  /\ CanPause \in BOOLEAN

VARIABLES rt,     \* the runtime, with state "CLOSED" when there is no handle
          dma,    \* hardware: frames played since the stream was prepared
          irq,    \* hardware: the interrupt line is raised
          late,   \* frames played since an interrupt began to wait
          isr,    \* the card's interrupt handler: "idle", or "acked"
          pc,     \* where OSS32_WaveAddBuffer is
          w,      \* its locals, and those of snd_pcm_lib_write1
          ret     \* result of the last call: ALSA error, OSSRET, frames

vars == <<rt, dma, irq, late, isr, pc, w, ret>>
hardware == <<dma, irq, late, isr>>

Errors == {"0", "EBADFD", "EBUSY", "EPIPE", "EAGAIN", "EINVAL", "ENOSYS"}
OssCodes == {"SUCCESS", "BUFFER_FULL", "BUSY", "AGAIN", "ACCESS_DENIED",
             "INVALID_PARAMETER", "UNKNOWN"}

(* The locals of a write: size is what OSS32_WaveAddBuffer still has to hand *)
(* over, transferred what it has; left, xfer, appl and frames belong to      *)
(* snd_pcm_lib_write1 (its size, xfer, appl_ptr and frames).                 *)
Writes == [size : Nat, transferred : Nat, left : Nat, xfer : Nat,
           appl : Nat, frames : Nat]
Results == [err : Errors, code : OssCodes, n : Nat]

NoWrite == [size |-> 0, transferred |-> 0, left |-> 0, xfer |-> 0,
            appl |-> 0, frames |-> 0]
Done(err, code, n) == [err |-> err, code |-> code, n |-> n]

UNIXToOSSError(err) ==
  CASE err = "0"                    -> "SUCCESS"
    [] err = "EINVAL"               -> "INVALID_PARAMETER"
    [] err = "EAGAIN"               -> "AGAIN"
    [] err = "EBUSY"                -> "BUSY"
    [] err \in {"EPIPE", "EBADFD"}  -> "ACCESS_DENIED"
    [] OTHER                        -> "UNKNOWN"

Result(err) == Done(err, UNIXToOSSError(err), 0)

Init ==
  /\ rt = [FreshRuntime EXCEPT !.state = "CLOSED"]
  /\ dma = 0 /\ irq = FALSE /\ late = 0 /\ isr = "idle"
  /\ pc = "idle" /\ w = NoWrite /\ ret = Result("0")

(***************************************************************************)
(* The hardware and the interrupt handler.                                 *)
(***************************************************************************)
DmaOn == rt.trigger \in {"START", "PAUSE_RELEASE"}
Waiting == irq \/ isr = "acked"

pointer == dma % BufferSize      \* ops->pointer

DmaAdvance ==
  /\ DmaOn
  /\ dma < MaxFrames + BufferSize
  /\ Waiting => late < MaxLatency
  /\ dma' = dma + 1
  /\ irq' = (irq \/ (dma + 1) % PeriodSize = 0)
  /\ late' = IF Waiting THEN late + 1 ELSE 0
  /\ UNCHANGED <<rt, isr, pc, w, ret>>

(* The card's handler acknowledges the interrupt ... *)
IsrAck ==
  /\ isr = "idle" /\ irq
  /\ isr' = "acked" /\ irq' = FALSE
  /\ UNCHANGED <<rt, dma, late, pc, w, ret>>

(* ... and reports the period: snd_pcm_period_elapsed. *)
snd_pcm_period_elapsed ==
  /\ isr = "acked"
  /\ isr' = "idle"
  /\ rt' = IF Running(rt) THEN snd_pcm_update_hw_ptr_interrupt(rt, pointer)
                          ELSE rt
  /\ late' = 0
  /\ UNCHANGED <<dma, irq, pc, w, ret>>

Interrupt == IsrAck \/ snd_pcm_period_elapsed

(***************************************************************************)
(* The OSS32 calls.  Each sets O_NONBLOCK and issues one request to the    *)
(* PCM layer, which holds the runtime lock throughout.                     *)
(***************************************************************************)
Task == isr = "idle"
TaskIdle == Task /\ pc = "idle"
Opened == TaskIdle /\ rt.state # "CLOSED"

OSS32_WaveOpen ==
  /\ TaskIdle /\ rt.state = "CLOSED"
  /\ rt' = FreshRuntime
  /\ ret' = Result("0")
  /\ dma' = 0
  /\ UNCHANGED <<irq, late, isr, pc, w>>

(* snd_pcm_release drops what is queued (O_NONBLOCK), then frees the stream. *)
OSS32_WaveClose ==
  /\ Opened
  /\ rt' = [snd_pcm_playback_drop(rt, pointer) EXCEPT !.state = "CLOSED"]
  /\ ret' = Result("0")
  /\ UNCHANGED <<hardware, pc, w>>

(* HW_REFINE may already refuse the request; HW_PARAMS refuses it in a running *)
(* stream.  ok: the card accepts the parameters (after the one retry).         *)
OSS32_WaveSetHwParams(ok) ==
  /\ Opened
  /\ \/ ~ok /\ rt' = rt /\ ret' = Result("EINVAL")
     \/ IF rt.state \in {"OPEN", "SETUP", "PREPARED"}
        THEN /\ rt' = [rt EXCEPT !.state = IF ok THEN "SETUP" ELSE "OPEN"]
             /\ ret' = Result(IF ok THEN "0" ELSE "EINVAL")
        ELSE /\ rt' = rt
             /\ ret' = Result("EBADFD")
  /\ UNCHANGED <<hardware, pc, w>>

PrepareError ==
  CASE rt.state = "OPEN"    -> "EBADFD"
    [] rt.state = "RUNNING" -> "EBUSY"
    [] OTHER                -> "0"

OSS32_WavePrepare ==
  /\ Opened
  /\ ret' = Result(PrepareError)
  /\ IF PrepareError = "0"
     THEN rt' = snd_pcm_prepare(rt) /\ dma' = 0
     ELSE UNCHANGED <<rt, dma>>
  /\ UNCHANGED <<irq, late, isr, pc, w>>

OSS32_WaveStart(ok) ==
  /\ Opened
  /\ ret' = Result(StartError(rt, ok))
  /\ rt' = IF StartError(rt, ok) = "0" THEN snd_pcm_start(rt, ok) ELSE rt
  /\ UNCHANGED <<hardware, pc, w>>

OSS32_WaveStop ==
  /\ Opened
  /\ ret' = Result(IF rt.state = "OPEN" THEN "EBADFD" ELSE "0")
  /\ rt' = snd_pcm_playback_drop(rt, pointer)
  /\ UNCHANGED <<hardware, pc, w>>

PauseIoctl(push) ==
  /\ Opened
  /\ LET err == IF CanPause THEN PauseError(rt, push) ELSE "ENOSYS"
     IN  /\ ret' = Result(err)
         /\ rt' = IF err = "0" THEN snd_pcm_pause(rt, push) ELSE rt
  /\ UNCHANGED <<hardware, pc, w>>

OSS32_WavePause == PauseIoctl(FALSE)     \* passes 0 ...
OSS32_WaveResume == PauseIoctl(TRUE)     \* ... and 1

(* SNDRV_PCM_IOCTL_STATUS brings hw_ptr up to date in a running stream. *)
snd_pcm_status(r) ==
  IF Running(r) THEN snd_pcm_update_hw_ptr(r, pointer) ELSE r
(* Mutant: the whole ring is reported, not the room in it. *)
StatusAvailWhole(r) == IF r.state = "OPEN" THEN 0 ELSE BufferSize

StatusAvail(r) == IF r.state = "OPEN" THEN 0 ELSE snd_pcm_playback_avail(r)
StatusHwPtr(r) == IF r.state = "OPEN" THEN 0 ELSE r.hw_ptr

OSS32_WaveGetPosition ==
  /\ Opened
  /\ rt' = snd_pcm_status(rt)
  /\ ret' = Done("0", "SUCCESS", StatusHwPtr(rt'))
  /\ UNCHANGED <<hardware, pc, w>>

OSS32_WaveGetSpace ==
  /\ Opened
  /\ rt' = snd_pcm_status(rt)
  /\ ret' = Done("0", "SUCCESS", StatusAvail(rt'))
  /\ UNCHANGED <<hardware, pc, w>>

(***************************************************************************)
(* OSS32_WaveAddBuffer: ask how much room there is, then write that much.  *)
(***************************************************************************)
OSS32_WaveAddBuffer(n) ==
  /\ Opened
  /\ rt.appl_ptr + n <= MaxFrames
  /\ rt' = snd_pcm_status(rt)
  /\ LET size == MinOf(n, StatusAvail(rt'))
     IN  IF size = 0
         THEN /\ ret' = Done("0", "BUFFER_FULL", 0)
              /\ UNCHANGED <<pc, w>>
         ELSE /\ pc' = "write"
              /\ w' = [NoWrite EXCEPT !.size = size]
              /\ UNCHANGED ret
  /\ UNCHANGED hardware

(* The write loop of OSS32_WaveAddBuffer, given what snd_pcm_write returned. *)
WriteFailed(err) ==
  /\ pc' = "idle" /\ w' = NoWrite
  /\ ret' = Done(err, UNIXToOSSError("0"), w.transferred)

WriteReturned(frames) ==
  IF frames = w.size
  THEN /\ pc' = "idle" /\ w' = NoWrite
       /\ ret' = Done("0", "SUCCESS", w.transferred + frames)
  ELSE /\ pc' = "write"
       /\ w' = [NoWrite EXCEPT !.size = w.size - frames,
                               !.transferred = w.transferred + frames]
       /\ UNCHANGED ret

WriteEnds(err, xfer) == IF xfer > 0 THEN WriteReturned(xfer)
                                    ELSE WriteFailed(err)

(* One turn of snd_pcm_lib_write1's loop up to the point where it unlocks. *)
NextChunk(r, left, xfer) ==
  LET avail == snd_pcm_playback_avail(r)
  IN  CASE avail = 0 /\ r.state = "PREPARED" ->
             WriteEnds("EPIPE", xfer)
        [] r.state # "PREPARED" /\ (avail = 0 \/ (left >= XferAlign
                                                  /\ avail < XferAlign)) ->
             WriteEnds("EAGAIN", xfer)
        [] OTHER ->
             /\ pc' = "copy"
             /\ w' = [w EXCEPT !.left = left, !.xfer = xfer,
                               !.appl = r.appl_ptr,
                               !.frames = ChunkFrames(r, left)]
             /\ UNCHANGED ret

snd_pcm_lib_write1 ==
  /\ Task /\ pc = "write"
  /\ CASE rt.state \in {"PREPARED", "RUNNING"} ->
            NextChunk(rt, AlignDown(w.size), 0)
       [] rt.state = "XRUN" -> WriteFailed("EPIPE")
       [] OTHER             -> WriteFailed("EBADFD")
  /\ UNCHANGED <<rt, hardware>>

(* The copy, with the lock dropped ... *)
Transfer ==
  /\ Task /\ pc = "copy"
  /\ rt' = [rt EXCEPT !.dma_area =
                        snd_pcm_lib_write_transfer(@, w.appl, w.frames)]
  /\ pc' = "commit"
  /\ UNCHANGED <<hardware, w, ret>>

(* ... and what follows once it is taken again. *)
Commit(ok) ==
  /\ Task /\ pc = "commit"
  /\ LET r     == [rt EXCEPT !.appl_ptr = AdvanceAppl(w.appl, w.frames)]
         start == /\ r.state = "PREPARED"
                  /\ snd_pcm_playback_hw_avail(r) >= StartThreshold
         err   == IF start THEN StartError(r, ok) ELSE "0"
         left  == w.left - w.frames
         xfer  == w.xfer + w.frames
     IN  IF rt.state = "XRUN"
         THEN WriteEnds("EPIPE", w.xfer) /\ UNCHANGED rt
         ELSE /\ rt' = IF start /\ err = "0" THEN snd_pcm_start(r, ok) ELSE r
              /\ IF err # "0" \/ left = 0
                 THEN WriteEnds(err, xfer)
                 ELSE NextChunk(rt', left, xfer)
  /\ UNCHANGED hardware

Call ==
  \/ OSS32_WaveOpen \/ OSS32_WaveClose
  \/ \E ok \in BOOLEAN : OSS32_WaveSetHwParams(ok) \/ OSS32_WaveStart(ok)
  \/ OSS32_WavePrepare \/ OSS32_WaveStop
  \/ OSS32_WavePause \/ OSS32_WaveResume
  \/ OSS32_WaveGetPosition \/ OSS32_WaveGetSpace
  \/ \E n \in Requests : OSS32_WaveAddBuffer(n)

WriteStep == snd_pcm_lib_write1 \/ Transfer \/ \E ok \in BOOLEAN : Commit(ok)

Next == Call \/ WriteStep \/ DmaAdvance \/ Interrupt

Spec == Init /\ [][Next]_vars

(* The card keeps playing, its interrupts are served, a call finishes. *)
Fairness == WF_vars(DmaAdvance) /\ WF_vars(Interrupt) /\ WF_vars(WriteStep)
FairSpec == Spec /\ Fairness

(***************************************************************************)
(* Properties.                                                             *)
(***************************************************************************)

(* Every variable has the type its declaration gives it. *)
TypeOK ==
  /\ rt \in Runtime
  /\ dma \in Nat /\ irq \in BOOLEAN /\ late \in Nat
  /\ isr \in {"idle", "acked"}
  /\ pc \in {"idle", "write", "copy", "commit"}
  /\ w \in Writes
  /\ ret \in Results

(***************************************************************************)
(* asound.h declares hw_ptr and appl_ptr as positions "(0...boundary-1)"   *)
(* and snd_pcm_playback_silence asserts that the silenced region is no     *)
(* longer than the buffer.  hw_ptr_base is always the start of a lap, so   *)
(* its wrap test "== boundary" cannot be jumped over.                      *)
(***************************************************************************)
PointersInRange == PointersOK(rt)

(***************************************************************************)
(* The chunk snd_pcm_lib_write1 copies with the lock dropped is not empty  *)
(* (its snd_assert), stays inside the ring, is what the caller still has   *)
(* to give, and goes where the application pointer still points once the   *)
(* lock is taken again.                                                    *)
(***************************************************************************)
ChunkInRing ==
  /\ pc = "write" => w.size > 0
  /\ pc \in {"copy", "commit"} =>
       /\ w.frames > 0
       /\ (w.appl % BufferSize) + w.frames <= BufferSize
       /\ w.frames <= w.left
       /\ w.xfer + w.left <= w.size
       /\ w.appl = rt.appl_ptr

(* The card plays exactly while the stream is RUNNING, on every path of      *)
(* stop, drop, pause and close.                                              *)
DmaMatchesState == DmaOn <=> rt.state = "RUNNING"

(* Frames handed over and not yet played (modulo the boundary): more than a *)
(* buffer means that the card has overtaken the application.                *)
Ahead == (rt.appl_ptr - dma) % Boundary
Underrun == Ahead = 0 \/ Ahead > BufferSize

(* Room for the chunk being copied is room in the ring the card has really  *)
(* played, however many interrupts arrive during the copy.                  *)
CopiesOverPlayed ==
  pc \in {"copy", "commit"} /\ Running(rt) /\ ~Underrun
    => Ahead + w.frames <= BufferSize

(* The hardware pointer the driver infers lags the card by less than a lap. *)
HwPtrTracksDma == Running(rt) => (dma - rt.hw_ptr) % Boundary < BufferSize

(* What the card will play next is what the application wrote, or silence;  *)
(* never the audio of another position.                                     *)
QueuedOrSilent ==
  Running(rt) /\ ~Underrun =>
    \A i \in 0 .. Ahead - 1 :
      rt.dma_area[(dma + i) % BufferSize] \in {(dma + i) % Boundary, Silent}

(* OSS32_WaveAddBuffer asks for the room first "to make sure we don't block *)
(* inside ALSA": the write that follows never finds the ring too full.      *)
NeverBlocks == ret.err # "EAGAIN"

(* Only the period interrupt reports an underrun, and only a real one: a    *)
(* position query "just about when it's done" never stops the stream.       *)
XrunJustified ==
  [][rt.state = "RUNNING" /\ rt'.state = "XRUN"
       => isr = "acked" /\ Underrun]_vars

(* An underrun does not go unnoticed: the stream is stopped or fed again,   *)
(* even if the application does nothing but poll the position.              *)
UnderrunReported == (Running(rt) /\ Underrun) ~> (~Running(rt) \/ ~Underrun)

(***************************************************************************)
(* Statements of the repository that the code does not meet.               *)
(***************************************************************************)

(* Silence is for noise: filling it never destroys a frame that was written *)
(* and accepted (pcm.h: silence filling happens when noise is near).        *)
QueuedIntact ==
  Running(rt) /\ ~Underrun =>
    \A i \in 0 .. Ahead - 1 :
      rt.dma_area[(dma + i) % BufferSize] = (dma + i) % Boundary

(* A write that failed before it moved a frame is not reported as success.  *)
ErrorReported == ret.err # "0" /\ ret.n = 0 => ret.code # "SUCCESS"
=============================================================================
