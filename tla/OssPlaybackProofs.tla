------------------------- MODULE OssPlaybackProofs -------------------------
(***************************************************************************)
(* For every buffer and period size, every boundary and every interleaving *)
(* of calls, card and interrupt: the types, the ranges of the pointers,    *)
(* the copy of snd_pcm_lib_write1, and the agreement of stream state and   *)
(* hardware.  Then, for every session the interrupts keep up with          *)
(* (Timely): that hw_ptr follows the card, that the card plays what was    *)
(* written, that a write never finds less room than was promised, and that *)
(* an underrun is reported only where there is one.                        *)
(***************************************************************************)
EXTENDS OssPlayback, TLAPS

(***************************************************************************)
(* Arithmetic of laps: the boundary is a whole number of buffers, so the   *)
(* last lap ends exactly on it.                                            *)
(***************************************************************************)
LEMMA LapArithmetic ==
  ASSUME NEW k \in 0 .. Laps - 1
  PROVE  /\ k * BufferSize \in Nat
         /\ (k + 1) * BufferSize = k * BufferSize + BufferSize
         /\ k * BufferSize + BufferSize <= Boundary
         /\ k + 1 < Laps => (k + 1) * BufferSize < Boundary
  BY RuntimeAssumption DEF Boundary

(* The boundary is at least two buffers long. *)
LEMMA BoundaryFacts ==
  /\ Boundary \in Nat
  /\ 2 * BufferSize <= Boundary
  BY RuntimeAssumption DEF Boundary

(* The first lap starts at 0, where prepare puts hw_ptr_base. *)
LEMMA ZeroLap == 0 \in LapStarts
  <1>1. 0 \in 0 .. Laps - 1 /\ 0 * BufferSize = 0
    BY RuntimeAssumption
  <1> QED BY <1>1 DEF LapStarts

(* The test "hw_ptr_base == boundary" finds every wrap: the next base is *)
(* again the start of a lap.                                             *)
LEMMA NextBaseLap ==
  ASSUME NEW base \in LapStarts
  PROVE  /\ base \in Nat
         /\ base + BufferSize <= Boundary
         /\ NextBase(base) \in LapStarts
  <1>1. PICK k \in 0 .. Laps - 1 : base = k * BufferSize
    BY DEF LapStarts
  <1>2. base \in Nat /\ base + BufferSize <= Boundary
    BY <1>1, LapArithmetic
  <1>3. CASE base + BufferSize = Boundary
    <2>1. 0 \in 0 .. Laps - 1 /\ 0 * BufferSize = 0
      BY RuntimeAssumption
    <2> QED BY <1>2, <1>3, <2>1 DEF NextBase, LapStarts
  <1>4. CASE base + BufferSize # Boundary
    <2>1. k + 1 # Laps
      BY <1>1, <1>4, LapArithmetic, RuntimeAssumption DEF Boundary
    <2>2. k + 1 \in 0 .. Laps - 1
      BY <2>1, RuntimeAssumption
    <2>3. base + BufferSize = (k + 1) * BufferSize
      BY <1>1, LapArithmetic
    <2> QED BY <1>2, <1>4, <2>2, <2>3 DEF NextBase, LapStarts
  <1> QED BY <1>2, <1>3, <1>4

(* avail is a number of frames below the boundary. *)
LEMMA AvailRange ==
  ASSUME NEW r \in Runtime, PointersOK(r)
  PROVE  snd_pcm_playback_avail(r) \in 0 .. Boundary - 1
  BY BoundaryFacts, RuntimeAssumption
     DEF snd_pcm_playback_avail, PointersOK, Runtime

(* Silence filling moves no pointer and stays within the buffer. *)
LEMMA SilenceKeeps ==
  ASSUME NEW r \in Runtime, PointersOK(r)
  PROVE  /\ Silence(r) \in Runtime
         /\ PointersOK(Silence(r))
         /\ Silence(r).state = r.state
         /\ Silence(r).trigger = r.trigger
         /\ Silence(r).appl_ptr = r.appl_ptr
  <1> DEFINE q == ForgetWritten(r)
             ofs == SilenceOffset(q)
             wanted == SilenceFrames(q)
             frames == ClampToEnd(ofs, wanted)
             s == [q EXCEPT !.dma_area = SetSilence(@, ofs, frames),
                            !.silenced_size = @ + frames]
  <1>1. SilenceLeft(r) \in 0 .. BufferSize
    BY BoundaryFacts, RuntimeAssumption DEF SilenceLeft, PointersOK, Runtime
  <1>2. /\ q \in Runtime /\ PointersOK(q)
        /\ q.state = r.state /\ q.trigger = r.trigger
        /\ q.appl_ptr = r.appl_ptr
    <2>1. SilenceLeft(r) \in Nat /\ SilenceLeft(r) <= BufferSize
      BY <1>1, RuntimeAssumption
    <2>2. q \in Runtime
      BY <2>1 DEF ForgetWritten, Runtime
    <2>3. PointersOK(q)
      BY <2>1 DEF ForgetWritten, Runtime, PointersOK
    <2> QED BY <2>2, <2>3 DEF ForgetWritten, Runtime
  <1>3. snd_pcm_playback_hw_avail(q) \in Int
    BY <1>2, AvailRange, BoundaryFacts, RuntimeAssumption
       DEF snd_pcm_playback_hw_avail
  <1>4. SilenceSize \in Nat /\ SilenceThreshold \in Nat
    BY RuntimeAssumption DEF SilenceSize, SilenceThreshold
  <1>5. wanted \in Nat /\ q.silenced_size + wanted <= BufferSize
    BY <1>2, <1>3, <1>4, RuntimeAssumption
       DEF SilenceFrames, PointersOK, Runtime
  <1>6. q.silenced_size # BufferSize => ofs \in 0 .. BufferSize - 1
    BY <1>2, RuntimeAssumption DEF SilenceOffset, PointersOK, Runtime
  <1>7. q.silenced_size # BufferSize =>
          frames \in Nat /\ q.silenced_size + frames <= BufferSize
    BY <1>2, <1>5, <1>6, RuntimeAssumption DEF ClampToEnd, Runtime
  <1>8. q.silenced_size # BufferSize =>
          /\ s \in Runtime /\ PointersOK(s)
          /\ s.state = r.state /\ s.trigger = r.trigger
          /\ s.appl_ptr = r.appl_ptr
    <2> SUFFICES ASSUME q.silenced_size # BufferSize
                 PROVE  /\ s \in Runtime /\ PointersOK(s)
                        /\ s.state = q.state /\ s.trigger = q.trigger
                        /\ s.appl_ptr = q.appl_ptr
      BY <1>2
    <2> HIDE DEF q, frames, ofs
    <2>1. SetSilence(q.dma_area, ofs, frames) \in [Slots -> Contents]
      BY <1>2 DEF SetSilence, Runtime, Contents
    <2>2. q.silenced_size + frames \in Nat
      BY <1>2, <1>7 DEF Runtime
    <2>3. s \in Runtime
      BY <1>2, <2>1, <2>2 DEF Runtime
    <2>4. PointersOK(s)
      BY <1>2, <1>7 DEF Runtime, PointersOK
    <2> QED BY <1>2, <2>3, <2>4 DEF Runtime
  <1>9. CASE SilenceSize <= 0
    BY <1>4, <1>9 DEF Silence
  <1>10. CASE /\ SilenceSize > 0
              /\ \/ q.silenced_size = BufferSize
                 \/ snd_pcm_playback_hw_avail(q) + q.silenced_size
                      > SilenceThreshold
    <2>1. Silence(r) = q
      BY <1>10 DEF Silence, snd_pcm_playback_silence
    <2> QED BY <1>2, <2>1
  <1>11. CASE /\ SilenceSize > 0
              /\ q.silenced_size # BufferSize
              /\ ~(snd_pcm_playback_hw_avail(q) + q.silenced_size
                      > SilenceThreshold)
    <2>1. Silence(r) = s
      BY <1>11 DEF Silence, snd_pcm_playback_silence
    <2> QED BY <1>8, <1>11, <2>1
  <1> QED BY <1>4, <1>9, <1>10, <1>11

(* The position inferred from the card's: a lap start plus an offset. *)
LEMMA MoveHwPtr ==
  ASSUME NEW r \in Runtime, PointersOK(r), NEW pos \in 0 .. BufferSize - 1,
         NEW delta \in Int, NEW p \in Nat
  PROVE  LET base == BaseAfter(r, delta)
             q == [r EXCEPT !.hw_ptr = base + pos, !.hw_ptr_base = base,
                            !.hw_ptr_interrupt = p]
         IN  /\ base \in Nat
             /\ q \in Runtime /\ PointersOK(q)
  <1>1. BaseAfter(r, delta) \in LapStarts
    BY NextBaseLap DEF BaseAfter, PointersOK
  <1> DEFINE base == BaseAfter(r, delta)
             q == [r EXCEPT !.hw_ptr = base + pos, !.hw_ptr_base = base,
                            !.hw_ptr_interrupt = p]
  <1>2. base \in Nat /\ base + BufferSize <= Boundary
    BY <1>1, NextBaseLap
  <1>3. base + pos \in Nat /\ base + pos < Boundary
        /\ base <= base + pos /\ base + pos < base + BufferSize
    BY <1>2, RuntimeAssumption, BoundaryFacts
  <1> HIDE DEF base
  <1>4. q \in Runtime
    BY <1>2, <1>3 DEF Runtime
  <1>5. PointersOK(q)
    BY <1>1, <1>3 DEF Runtime, PointersOK, base
  <1> QED BY <1>2, <1>4, <1>5 DEF base

(***************************************************************************)
(* A runtime as every operation must find and leave it.                    *)
(***************************************************************************)
Sound(r) ==
  /\ r \in Runtime
  /\ PointersOK(r)
  /\ r.trigger \in {"START", "PAUSE_RELEASE"} <=> r.state = "RUNNING"

(* Reading the position at task time keeps state and application pointer. *)
LEMMA UpdateSound ==
  ASSUME NEW r, Sound(r), NEW pos \in 0 .. BufferSize - 1
  PROVE  LET u == snd_pcm_update_hw_ptr(r, pos)
         IN  Sound(u) /\ u.state = r.state /\ u.appl_ptr = r.appl_ptr
  <1> DEFINE delta == r.hw_ptr - (r.hw_ptr_base + pos)
             base == BaseAfter(r, delta)
             q == [r EXCEPT !.hw_ptr = base + pos, !.hw_ptr_base = base]
             m == [r EXCEPT !.hw_ptr = base + pos, !.hw_ptr_base = base,
                            !.hw_ptr_interrupt = r.hw_ptr_interrupt]
  <1>1. r \in Runtime /\ PointersOK(r) /\ delta \in Int
        /\ r.hw_ptr_interrupt \in Nat
    BY RuntimeAssumption DEF Sound, Runtime
  <1>2. m \in Runtime /\ PointersOK(m)
    BY <1>1, MoveHwPtr
  <1>3. q = m
    BY <1>1 DEF Runtime
  <1>4. q.state = r.state /\ q.trigger = r.trigger /\ q.appl_ptr = r.appl_ptr
    BY <1>1 DEF Runtime
  <1>5. snd_pcm_update_hw_ptr(r, pos) \in {r, q, Silence(q)}
    BY DEF snd_pcm_update_hw_ptr
  <1> HIDE DEF q, m
  <1>6. /\ Silence(q) \in Runtime /\ PointersOK(Silence(q))
        /\ Silence(q).state = r.state /\ Silence(q).trigger = r.trigger
        /\ Silence(q).appl_ptr = r.appl_ptr
    BY <1>2, <1>3, <1>4, SilenceKeeps
  <1> QED BY <1>2, <1>3, <1>4, <1>5, <1>6 DEF Sound

(* Stopping, starting and pausing move the state and the trigger together. *)
LEMMA StopSound ==
  ASSUME NEW r, Sound(r), NEW state \in PcmStates \ {"RUNNING"}
  PROVE  LET u == snd_pcm_stop(r, state)
         IN  Sound(u) /\ u.appl_ptr = r.appl_ptr /\ u.state = state
  BY DEF Sound, snd_pcm_stop, Runtime, PointersOK

(* snd_pcm_start: the trigger and the state become running together. *)
LEMMA StartSound ==
  ASSUME NEW r, Sound(r)
  PROVE  LET u == snd_pcm_start(r, TRUE)
         IN  Sound(u) /\ u.appl_ptr = r.appl_ptr /\ u.state = "RUNNING"
  <1> DEFINE q == [r EXCEPT !.trigger = "START", !.state = "RUNNING"]
  <1>1. /\ q \in Runtime /\ PointersOK(q) /\ q.state = "RUNNING"
        /\ q.trigger = "START" /\ q.appl_ptr = r.appl_ptr
    BY DEF Sound, Runtime, PointersOK, PcmStates
  <1>2. snd_pcm_start(r, TRUE) = Silence(q)
    BY DEF snd_pcm_start
  <1> HIDE DEF q
  <1> QED BY <1>1, <1>2, SilenceKeeps DEF Sound

(* snd_pcm_pause: the same for both directions of a pause. *)
LEMMA PauseSound ==
  ASSUME NEW r, Sound(r), NEW push \in BOOLEAN
  PROVE  LET u == snd_pcm_pause(r, push)
         IN  /\ Sound(u) /\ u.appl_ptr = r.appl_ptr
             /\ u.state = IF push THEN "PAUSED" ELSE "RUNNING"
  BY DEF Sound, snd_pcm_pause, Runtime, PointersOK, PcmStates

(* snd_pcm_prepare leaves a sound, stopped runtime. *)
LEMMA PrepareSound ==
  ASSUME NEW r, Sound(r)
  PROVE  Sound(snd_pcm_prepare(r))
  <1>1. 0 \in LapStarts
    BY ZeroLap
  <1> DEFINE u == snd_pcm_prepare(r)
  <1>2. r \in Runtime /\ PointersOK(r)
    BY DEF Sound
  <1>3. /\ u \in Runtime
        /\ u.state = "PREPARED" /\ u.trigger = "STOP"
        /\ u.hw_ptr = 0 /\ u.hw_ptr_base = 0 /\ u.appl_ptr = 0
        /\ u.silenced_start = r.silenced_start
        /\ u.silenced_size = r.silenced_size
    BY <1>2 DEF snd_pcm_prepare, Runtime, PcmStates
  <1> HIDE DEF u
  <1>4. PointersOK(u)
    BY <1>1, <1>2, <1>3, BoundaryFacts, RuntimeAssumption DEF PointersOK
  <1> QED BY <1>3, <1>4 DEF Sound, u

(* Changing the state between stopped ones (snd_pcm_change_state). *)
LEMMA StateSound ==
  ASSUME NEW r, Sound(r), r.state # "RUNNING",
         NEW state \in PcmStates \ {"RUNNING"}
  PROVE  Sound([r EXCEPT !.state = state])
  BY DEF Sound, Runtime, PointersOK

(* Moving the application pointer below the boundary. *)
LEMMA ApplSound ==
  ASSUME NEW r, Sound(r), NEW p \in 0 .. Boundary - 1
  PROVE  LET u == [r EXCEPT !.appl_ptr = p]
         IN  Sound(u) /\ u.state = r.state /\ u.appl_ptr = p
  BY BoundaryFacts DEF Sound, Runtime, PointersOK

(* The period interrupt: either the stream goes on or it is stopped. *)
LEMMA InterruptSound ==
  ASSUME NEW r, Sound(r), NEW pos \in 0 .. BufferSize - 1
  PROVE  LET u == snd_pcm_update_hw_ptr_interrupt(r, pos)
         IN  Sound(u) /\ u.appl_ptr = r.appl_ptr /\ u.state \in {r.state, "XRUN"}
  <1> DEFINE delta == r.hw_ptr_interrupt + PeriodSize - (r.hw_ptr_base + pos)
             base == BaseAfter(r, delta)
             p == base + pos - (pos % PeriodSize)
             q == [r EXCEPT !.hw_ptr = base + pos, !.hw_ptr_base = base,
                            !.hw_ptr_interrupt = p]
  <1>1. r \in Runtime /\ PointersOK(r) /\ delta \in Int
    BY RuntimeAssumption DEF Sound, Runtime
  <1>2. base \in Nat
    BY <1>1, MoveHwPtr, 0 \in Nat
  <1>3. p \in Nat
    BY <1>2, RuntimeAssumption
  <1>4. q \in Runtime /\ PointersOK(q)
    BY <1>1, <1>3, MoveHwPtr
  <1>5. q.state = r.state /\ q.trigger = r.trigger /\ q.appl_ptr = r.appl_ptr
    BY <1>1 DEF Runtime
  <1>6. snd_pcm_update_hw_ptr_interrupt(r, pos)
          \in {r, snd_pcm_stop(q, "XRUN"), Silence(q)}
    BY DEF snd_pcm_update_hw_ptr_interrupt
  <1> HIDE DEF q
  <1>7. Sound(q)
    BY <1>4, <1>5 DEF Sound
  <1>8. LET u == Silence(q)
        IN  Sound(u) /\ u.appl_ptr = r.appl_ptr /\ u.state = r.state
    BY <1>4, <1>5, SilenceKeeps DEF Sound
  <1>9. LET u == snd_pcm_stop(q, "XRUN")
        IN  Sound(u) /\ u.appl_ptr = r.appl_ptr /\ u.state = "XRUN"
    BY <1>5, <1>7, StopSound DEF PcmStates
  <1> QED BY <1>5, <1>6, <1>7, <1>8, <1>9

(* Dropping leaves a stopped stream with nothing queued. *)
LEMMA DropSound ==
  ASSUME NEW r, Sound(r), r.state # "CLOSED", NEW pos \in 0 .. BufferSize - 1
  PROVE  LET u == snd_pcm_playback_drop(r, pos)
         IN  Sound(u) /\ u.state # "RUNNING"
  <1> DEFINE p == IF r.state = "PAUSED" THEN snd_pcm_pause(r, FALSE) ELSE r
             q == CASE p.state \in {"OPEN", "SETUP"} -> p
                    [] p.state = "RUNNING" ->
                         snd_pcm_stop(snd_pcm_update_hw_ptr(p, pos), "SETUP")
                    [] p.state \in {"PREPARED", "XRUN"} ->
                         [p EXCEPT !.state = "SETUP"]
  <1>1. Sound(p) /\ p.state \notin {"PAUSED", "CLOSED"} /\ p.state \in PcmStates
    BY PauseSound DEF Sound, Runtime, PcmStates
  <1>2. Sound(q) /\ q.state # "RUNNING"
    <2> HIDE DEF p
    <2>1. CASE p.state \in {"OPEN", "SETUP"}
      <3>1. q = p
        BY <2>1
      <3> QED BY <1>1, <2>1, <3>1
    <2>2. CASE p.state = "RUNNING"
      <3>1. q = snd_pcm_stop(snd_pcm_update_hw_ptr(p, pos), "SETUP")
        BY <2>2
      <3>2. Sound(snd_pcm_update_hw_ptr(p, pos))
        BY <1>1, UpdateSound
      <3> QED BY <3>1, <3>2, StopSound DEF PcmStates
    <2>3. CASE p.state \in {"PREPARED", "XRUN"}
      <3>1. q = [p EXCEPT !.state = "SETUP"]
        BY <2>3
      <3>2. q.state = "SETUP"
        BY <1>1, <3>1 DEF Sound, Runtime
      <3> QED BY <1>1, <2>3, <3>1, <3>2, StateSound DEF PcmStates
    <2> QED BY <1>1, <2>1, <2>2, <2>3 DEF PcmStates
  <1>3. snd_pcm_playback_drop(r, pos) = [q EXCEPT !.appl_ptr = q.hw_ptr]
    BY DEF snd_pcm_playback_drop
  <1> HIDE DEF q
  <1>4. q.hw_ptr \in 0 .. Boundary - 1
    BY <1>2, BoundaryFacts DEF Sound, Runtime, PointersOK
  <1> QED BY <1>2, <1>3, <1>4, ApplSound

(***************************************************************************)
(* The pieces of a write.                                                  *)
(***************************************************************************)
(* UNIXToOSSError maps every ALSA error to an OSSRET. *)
LEMMA ResultType ==
  ASSUME NEW err \in Errors
  PROVE  UNIXToOSSError(err) \in OssCodes /\ Result(err) \in Results
  BY DEF UNIXToOSSError, Result, Done, Results, OssCodes, Errors

(* No write under way is a value of the write's locals. *)
LEMMA NoWriteType == NoWrite \in Writes
  BY DEF NoWrite, Writes

(* The locals of the next turn of OSS32_WaveAddBuffer's loop. *)
LEMMA MoreToWrite ==
  ASSUME NEW a \in Nat, NEW b \in Nat
  PROVE  LET v == [NoWrite EXCEPT !.size = a, !.transferred = b]
         IN  v \in Writes /\ v.size = a
  BY DEF NoWrite, Writes

(* Rounding down to xfer_align never makes a request empty. *)
LEMMA AlignDownRange ==
  ASSUME NEW n \in Nat \ {0}
  PROVE  AlignDown(n) \in 1 .. n
  BY RuntimeAssumption DEF AlignDown, XferAlign

(* A chunk is not empty, within the request, and within the ring. *)
LEMMA ChunkRange ==
  ASSUME NEW r, Sound(r), snd_pcm_playback_avail(r) # 0,
         NEW left \in Nat \ {0}
  PROVE  /\ ChunkFrames(r, left) \in 1 .. left
         /\ (r.appl_ptr % BufferSize) + ChunkFrames(r, left) <= BufferSize
  <1> DEFINE a == AlignDown(snd_pcm_playback_avail(r))
             c == BufferSize - (r.appl_ptr % BufferSize)
  <1>1. a \in Nat \ {0}
    BY AvailRange, AlignDownRange, BoundaryFacts DEF Sound
  <1>2. c \in Nat \ {0} /\ r.appl_ptr % BufferSize \in Nat
    BY RuntimeAssumption DEF Sound, Runtime
  <1>3. ChunkFrames(r, left) = MinOf(MinOf(left, a), c)
    BY DEF ChunkFrames
  <1> HIDE DEF a
  <1> QED BY <1>1, <1>2, <1>3, RuntimeAssumption DEF MinOf

(* What the write leaves behind, whichever way it goes on. *)
WriteOK(p, v, x, r) ==
  /\ p \in {"idle", "write", "copy", "commit"}
  /\ v \in Writes
  /\ x \in Results
  /\ p = "write" => v.size > 0
  /\ p \in {"copy", "commit"} =>
       /\ v.frames > 0
       /\ (v.appl % BufferSize) + v.frames <= BufferSize
       /\ v.frames <= v.left
       /\ v.xfer + v.left <= v.size
       /\ v.appl = r.appl_ptr

(* A write that fails leaves no locals behind. *)
LEMMA WriteFailedOK ==
  ASSUME w \in Writes, NEW err \in Errors, WriteFailed(err)
  PROVE  WriteOK(pc', w', ret', rt')
  BY NoWriteType
     DEF WriteFailed, WriteOK, Writes, Results, Done, UNIXToOSSError, OssCodes

(* A write that ends either returns to the caller or goes round its loop. *)
LEMMA WriteEndsOK ==
  ASSUME w \in Writes, ret \in Results, NEW err \in Errors,
         NEW xfer \in 0 .. w.size, WriteEnds(err, xfer)
  PROVE  WriteOK(pc', w', ret', rt')
  <1>1. CASE xfer > 0 /\ xfer = w.size
    BY <1>1, NoWriteType
       DEF WriteEnds, WriteReturned, WriteOK, Writes, Results, Done, OssCodes,
           Errors
  <1>2. CASE xfer > 0 /\ xfer # w.size
    <2> DEFINE a == w.size - xfer
               b == w.transferred + xfer
    <2>1. /\ pc' = "write" /\ ret' = ret
          /\ w' = [NoWrite EXCEPT !.size = a, !.transferred = b]
      BY <1>2 DEF WriteEnds, WriteReturned
    <2>2. a \in Nat /\ a > 0 /\ b \in Nat
      BY <1>2 DEF Writes
    <2> HIDE DEF a, b
    <2>3. w' \in Writes /\ w'.size > 0
      BY <2>1, <2>2, MoreToWrite
    <2> QED BY <2>1, <2>3 DEF WriteOK
  <1>3. CASE ~(xfer > 0)
    BY <1>3, WriteFailedOK DEF WriteEnds
  <1> QED BY <1>1, <1>2, <1>3 DEF Writes

(* The next chunk of snd_pcm_lib_write1 satisfies ChunkInRing. *)
LEMMA NextChunkOK ==
  ASSUME w \in Writes, ret \in Results, NEW r, Sound(r), rt' = r,
         NEW left \in Nat \ {0}, NEW xfer \in Nat, xfer + left <= w.size,
         NextChunk(r, left, xfer)
  PROVE  WriteOK(pc', w', ret', rt')
  <1> DEFINE avail == snd_pcm_playback_avail(r)
             full == r.state # "PREPARED"
                       /\ (avail = 0 \/ (left >= XferAlign /\ avail < XferAlign))
             empty == avail = 0 /\ r.state = "PREPARED"
  <1>1. xfer \in 0 .. w.size
    BY DEF Writes
  <1>2. CASE empty
    <2>1. WriteEnds("EPIPE", xfer)
      BY <1>2 DEF NextChunk
    <2> QED BY <1>1, <2>1, WriteEndsOK DEF Errors
  <1>3. CASE full /\ ~empty
    <2>1. WriteEnds("EAGAIN", xfer)
      BY <1>3 DEF NextChunk
    <2> QED BY <1>1, <2>1, WriteEndsOK DEF Errors
  <1>4. CASE ~full /\ ~empty
    <2>1. /\ pc' = "copy" /\ ret' = ret
          /\ w' = [w EXCEPT !.left = left, !.xfer = xfer,
                            !.appl = r.appl_ptr,
                            !.frames = ChunkFrames(r, left)]
      BY <1>4 DEF NextChunk
    <2>2. avail # 0
      BY <1>4
    <2>3. /\ ChunkFrames(r, left) \in 1 .. left
          /\ (r.appl_ptr % BufferSize) + ChunkFrames(r, left) <= BufferSize
          /\ r.appl_ptr \in Nat
      BY <2>2, ChunkRange DEF Sound, Runtime
    <2> DEFINE c == ChunkFrames(r, left)
               a == r.appl_ptr
    <2>4. /\ w' \in Writes /\ w'.left = left /\ w'.xfer = xfer
          /\ w'.size = w.size /\ w'.appl = a /\ w'.frames = c
      <3>1. c \in Nat /\ a \in Nat /\ left \in Nat
        BY <2>3
      <3>2. w' = [w EXCEPT !.left = left, !.xfer = xfer, !.appl = a, !.frames = c]
        BY <2>1
      <3> HIDE DEF c, a
      <3> DEFINE u == [w EXCEPT !.left = left, !.xfer = xfer, !.appl = a,
                                !.frames = c]
      <3>3. /\ u \in Writes /\ u.left = left /\ u.xfer = xfer
            /\ u.size = w.size /\ u.appl = a /\ u.frames = c
        BY <3>1 DEF Writes
      <3> HIDE DEF u
      <3> QED BY <3>2, <3>3 DEF u
    <2> QED BY <2>1, <2>3, <2>4 DEF WriteOK
  <1> QED BY <1>2, <1>3, <1>4

(***************************************************************************)
(* The inductive invariant.  PointersInRange alone is not inductive: the   *)
(* application pointer after a copy is computed from locals taken before   *)
(* the lock was dropped, so the copy's own bounds have to come along.      *)
(***************************************************************************)
IInv ==
  /\ Sound(rt)
  /\ dma \in Nat /\ irq \in BOOLEAN /\ late \in Nat
  /\ isr \in {"idle", "acked"}
  /\ WriteOK(pc, w, ret, rt)

(* The inductive invariant is the conjunction of the four properties. *)
LEMMA IInvMeaning ==
  IInv <=> TypeOK /\ PointersInRange /\ DmaMatchesState /\ ChunkInRing
  BY DEF IInv, Sound, TypeOK, PointersInRange, DmaMatchesState, DmaOn,
         ChunkInRing, WriteOK

(* ops->pointer answers with a position inside the ring. *)
LEMMA PointerRange ==
  ASSUME dma \in Nat
  PROVE  pointer \in 0 .. BufferSize - 1
  BY RuntimeAssumption DEF pointer

(* A STATUS query keeps the runtime sound, its state and appl_ptr. *)
LEMMA StatusSound ==
  ASSUME IInv
  PROVE  LET r == snd_pcm_status(rt)
         IN  /\ Sound(r) /\ r.state = rt.state /\ r.appl_ptr = rt.appl_ptr
             /\ StatusAvail(r) \in Nat /\ StatusHwPtr(r) \in Nat
  <1> DEFINE r == snd_pcm_status(rt)
  <1>1. Sound(r) /\ r.state = rt.state /\ r.appl_ptr = rt.appl_ptr
    BY UpdateSound, PointerRange DEF IInv, snd_pcm_status
  <1> HIDE DEF r
  <1>2. StatusAvail(r) \in Nat /\ StatusHwPtr(r) \in Nat
    BY <1>1, AvailRange, BoundaryFacts
       DEF Sound, StatusAvail, StatusHwPtr, Runtime
  <1> QED BY <1>1, <1>2 DEF r

(* snd_pcm_open creates a sound runtime. *)
LEMMA FreshSound == Sound(FreshRuntime)
  <1>1. 0 \in LapStarts
    BY ZeroLap
  <1>2. FreshRuntime \in Runtime
    BY DEF FreshRuntime, Runtime, PcmStates, Contents
  <1>3. PointersOK(FreshRuntime)
    BY <1>1, BoundaryFacts, RuntimeAssumption DEF FreshRuntime, PointersOK
  <1> QED BY <1>2, <1>3 DEF FreshRuntime, Sound

(* Init satisfies it. *)
LEMMA InitIInv == Init => IInv
  <1> SUFFICES ASSUME Init PROVE IInv
    OBVIOUS
  <1>1. Sound(rt)
    <2>1. rt = [FreshRuntime EXCEPT !.state = "CLOSED"]
      BY DEF Init
    <2>2. FreshRuntime.state # "RUNNING"
      BY DEF FreshRuntime
    <2> QED BY <2>1, <2>2, FreshSound, StateSound DEF PcmStates
  <1>2. WriteOK(pc, w, ret, rt)
    BY NoWriteType, ResultType DEF Init, WriteOK, Errors
  <1> QED BY <1>1, <1>2 DEF Init, IInv

(* A call that does not touch the write's locals. *)
LEMMA SimpleCall ==
  ASSUME IInv, pc = "idle", UNCHANGED <<irq, late, isr, pc, w>>, dma' \in Nat,
         Sound(rt'), ret' \in Results
  PROVE  IInv'
  BY DEF IInv, WriteOK

(* Every OSS32 call but OSS32_WaveAddBuffer keeps it. *)
LEMMA CallIInv ==
  ASSUME IInv,
         \/ OSS32_WaveOpen \/ OSS32_WaveClose
         \/ \E ok \in BOOLEAN : OSS32_WaveSetHwParams(ok) \/ OSS32_WaveStart(ok)
         \/ OSS32_WavePrepare \/ OSS32_WaveStop
         \/ OSS32_WavePause \/ OSS32_WaveResume
         \/ OSS32_WaveGetPosition \/ OSS32_WaveGetSpace
  PROVE  IInv'
  <1> USE DEF TaskIdle, Opened, hardware
  <1>1. /\ Sound(rt) /\ rt.state \in PcmStates /\ dma \in Nat
        /\ pointer \in 0 .. BufferSize - 1
    BY PointerRange DEF IInv, Sound, Runtime
  <1>2. \A e \in Errors : Result(e) \in Results
    BY ResultType
  <1>3. CASE OSS32_WaveOpen
    BY <1>2, <1>3, FreshSound, SimpleCall DEF OSS32_WaveOpen, Errors
  <1>4. CASE OSS32_WaveClose
    <2> DEFINE d == snd_pcm_playback_drop(rt, pointer)
    <2>1. rt' = [d EXCEPT !.state = "CLOSED"] /\ rt.state # "CLOSED"
      BY <1>4 DEF OSS32_WaveClose
    <2>2. Sound(d) /\ d.state # "RUNNING"
      BY <1>1, <2>1, DropSound
    <2> HIDE DEF d
    <2>3. Sound(rt')
      BY <2>1, <2>2, StateSound DEF PcmStates
    <2> QED BY <1>1, <1>2, <1>4, <2>3, SimpleCall DEF OSS32_WaveClose, Errors
  <1>5. ASSUME NEW ok \in BOOLEAN, OSS32_WaveSetHwParams(ok) PROVE IInv'
    <2>1. Sound(rt')
      BY <1>1, <1>5, StateSound DEF OSS32_WaveSetHwParams, PcmStates
    <2>2. ret' \in Results
      BY <1>2, <1>5 DEF OSS32_WaveSetHwParams, Errors
    <2> QED BY <1>1, <1>5, <2>1, <2>2, SimpleCall DEF OSS32_WaveSetHwParams
  <1>6. ASSUME NEW ok \in BOOLEAN, OSS32_WaveStart(ok) PROVE IInv'
    <2>1. StartError(rt, ok) \in Errors /\ (StartError(rt, ok) = "0" => ok)
      BY DEF StartError, Errors
    <2>2. Sound(rt')
      BY <1>1, <1>6, <2>1, StartSound DEF OSS32_WaveStart
    <2> QED BY <1>1, <1>2, <1>6, <2>1, <2>2, SimpleCall DEF OSS32_WaveStart
  <1>7. CASE OSS32_WavePrepare
    <2>1. PrepareError \in Errors
      BY DEF PrepareError, Errors
    <2>2. Sound(rt') /\ dma' \in Nat
      BY <1>1, <1>7, PrepareSound DEF OSS32_WavePrepare
    <2> QED BY <1>2, <1>7, <2>1, <2>2, SimpleCall DEF OSS32_WavePrepare
  <1>8. CASE OSS32_WaveStop
    <2>1. Sound(rt')
      BY <1>1, <1>8, DropSound DEF OSS32_WaveStop
    <2> QED BY <1>1, <1>2, <1>8, <2>1, SimpleCall DEF OSS32_WaveStop, Errors
  <1>9. ASSUME NEW push \in BOOLEAN, PauseIoctl(push) PROVE IInv'
    <2> DEFINE err == IF CanPause THEN PauseError(rt, push) ELSE "ENOSYS"
    <2>1. err \in Errors
      BY DEF PauseError, Errors
    <2>2. rt' \in {rt, snd_pcm_pause(rt, push)} /\ ret' = Result(err)
      BY <1>9 DEF PauseIoctl
    <2>3. Sound(rt')
      BY <1>1, <2>2, PauseSound
    <2> QED BY <1>1, <1>2, <1>9, <2>1, <2>2, <2>3, SimpleCall DEF PauseIoctl
  <1>10. CASE OSS32_WaveGetPosition
    <2>1. Sound(rt') /\ StatusHwPtr(rt') \in Nat
      BY <1>10, StatusSound DEF OSS32_WaveGetPosition
    <2>2. ret' \in Results
      BY <1>10, <2>1 DEF OSS32_WaveGetPosition, Done, Results, Errors, OssCodes
    <2> QED BY <1>1, <1>10, <2>1, <2>2, SimpleCall DEF OSS32_WaveGetPosition
  <1>11. CASE OSS32_WaveGetSpace
    <2>1. Sound(rt') /\ StatusAvail(rt') \in Nat
      BY <1>11, StatusSound DEF OSS32_WaveGetSpace
    <2>2. ret' \in Results
      BY <1>11, <2>1 DEF OSS32_WaveGetSpace, Done, Results, Errors, OssCodes
    <2> QED BY <1>1, <1>11, <2>1, <2>2, SimpleCall DEF OSS32_WaveGetSpace
  <1> QED
    BY <1>3, <1>4, <1>5, <1>6, <1>7, <1>8, <1>9, <1>10, <1>11
       DEF OSS32_WavePause, OSS32_WaveResume

(* OSS32_WaveAddBuffer up to its first write keeps the invariant. *)
LEMMA AddBufferIInv ==
  ASSUME IInv, NEW n \in Requests, OSS32_WaveAddBuffer(n)
  PROVE  IInv'
  <1> DEFINE size == MinOf(n, StatusAvail(rt'))
  <1>1. Sound(rt') /\ StatusAvail(rt') \in Nat
    BY StatusSound DEF OSS32_WaveAddBuffer
  <1>2. n \in Nat
    BY PlaybackAssumption
  <1>3. size \in Nat
    BY <1>1, <1>2 DEF MinOf
  <1>4. CASE size = 0
    BY <1>1, <1>4, SimpleCall
       DEF OSS32_WaveAddBuffer, IInv, hardware, Opened, TaskIdle, Done,
           Results, Errors, OssCodes
  <1>5. CASE size # 0
    <2>1. /\ pc' = "write" /\ ret' = ret
          /\ w' = [NoWrite EXCEPT !.size = size]
      BY <1>5 DEF OSS32_WaveAddBuffer
    <2> HIDE DEF size
    <2>2. w' \in Writes /\ w'.size > 0
      BY <1>3, <1>5, <2>1 DEF NoWrite, Writes
    <2>3. UNCHANGED <<dma, irq, late, isr>>
      BY DEF OSS32_WaveAddBuffer, hardware
    <2> QED BY <1>1, <2>1, <2>2, <2>3 DEF IInv, WriteOK
  <1> QED BY <1>4, <1>5

(* The steps of a write keep it. *)
LEMMA WriteIInv ==
  ASSUME IInv, WriteStep
  PROVE  IInv'
  <1>1. /\ Sound(rt) /\ w \in Writes /\ ret \in Results
        /\ WriteOK(pc, w, ret, rt)
    BY DEF IInv, WriteOK
  <1>2. CASE snd_pcm_lib_write1
    <2>1. /\ rt' = rt /\ w.size \in Nat \ {0}
          /\ UNCHANGED <<dma, irq, late, isr>>
      BY <1>1, <1>2 DEF snd_pcm_lib_write1, WriteOK, Writes, hardware
    <2>2. AlignDown(w.size) \in Nat \ {0} /\ 0 + AlignDown(w.size) <= w.size
      BY <2>1, AlignDownRange
    <2>3. CASE rt.state \in {"PREPARED", "RUNNING"}
      <3>1. NextChunk(rt, AlignDown(w.size), 0)
        BY <1>2, <2>3 DEF snd_pcm_lib_write1
      <3>2. WriteOK(pc', w', ret', rt')
        BY <1>1, <2>1, <2>2, <3>1, NextChunkOK
      <3> QED BY <1>1, <2>1, <3>2 DEF IInv
    <2>4. CASE rt.state \notin {"PREPARED", "RUNNING"}
      <3>1. WriteFailed("EPIPE") \/ WriteFailed("EBADFD")
        BY <1>2, <2>4 DEF snd_pcm_lib_write1
      <3>2. WriteOK(pc', w', ret', rt')
        BY <1>1, <3>1, WriteFailedOK DEF Errors
      <3> QED BY <1>1, <2>1, <3>2 DEF IInv
    <2> QED BY <2>3, <2>4
  <1>3. CASE Transfer
    <2> DEFINE area == snd_pcm_lib_write_transfer(rt.dma_area, w.appl, w.frames)
    <2>1. area \in [Slots -> Contents]
      <3>1. w.appl \in Nat /\ w.frames \in Nat /\ rt.dma_area \in [Slots -> Contents]
        BY <1>1 DEF Sound, Runtime, Writes
      <3>2. \A s \in (w.appl % BufferSize) ..
                     ((w.appl % BufferSize) + w.frames - 1) :
              w.appl + (s - (w.appl % BufferSize)) \in Nat
        BY <3>1, RuntimeAssumption
      <3> QED
        BY <3>1, <3>2, RuntimeAssumption
           DEF snd_pcm_lib_write_transfer, Contents, Slots
    <2>2. rt' = [rt EXCEPT !.dma_area = area]
      BY <1>3 DEF Transfer
    <2> HIDE DEF area
    <2>3. Sound(rt') /\ rt'.appl_ptr = rt.appl_ptr
      BY <1>1, <2>1, <2>2 DEF Sound, Runtime, PointersOK
    <2> QED BY <1>1, <1>3, <2>3 DEF Transfer, IInv, WriteOK, hardware
  <1>4. ASSUME NEW ok \in BOOLEAN, Commit(ok) PROVE IInv'
    <2> DEFINE r == [rt EXCEPT !.appl_ptr = AdvanceAppl(w.appl, w.frames)]
               start == /\ r.state = "PREPARED"
                        /\ snd_pcm_playback_hw_avail(r) >= StartThreshold
               err == IF start THEN StartError(r, ok) ELSE "0"
               left == w.left - w.frames
               xfer == w.xfer + w.frames
    <2>1. UNCHANGED <<dma, irq, late, isr>> /\ pc = "commit"
      BY <1>4 DEF Commit, hardware
    <2>2. /\ w.appl \in Nat /\ w.frames \in Nat /\ w.left \in Nat
          /\ w.xfer \in Nat /\ w.size \in Nat
          /\ w.frames > 0 /\ w.frames <= w.left /\ w.xfer + w.left <= w.size
      BY <1>1, <2>1 DEF WriteOK, Writes
    <2>3. CASE rt.state = "XRUN"
      <3>1. WriteEnds("EPIPE", w.xfer) /\ rt' = rt
        BY <1>4, <2>3 DEF Commit
      <3>2. w.xfer \in 0 .. w.size
        BY <2>2
      <3>3. WriteOK(pc', w', ret', rt')
        BY <1>1, <3>1, <3>2, WriteEndsOK DEF Errors
      <3> QED BY <1>1, <2>1, <3>1, <3>3 DEF IInv
    <2>4. CASE rt.state # "XRUN"
      <3>1. /\ rt' = IF start /\ err = "0" THEN snd_pcm_start(r, ok) ELSE r
            /\ IF err # "0" \/ left = 0 THEN WriteEnds(err, xfer)
                                        ELSE NextChunk(rt', left, xfer)
        BY <1>4, <2>4 DEF Commit
      <3>2. AdvanceAppl(w.appl, w.frames) \in 0 .. Boundary - 1
        BY <2>2, BoundaryFacts, RuntimeAssumption DEF AdvanceAppl
      <3>3. Sound(r)
        BY <1>1, <3>2, ApplSound
      <3>4. /\ err \in Errors /\ (start /\ err = "0" => ok)
            /\ left \in Nat /\ xfer \in 0 .. w.size /\ xfer \in Nat
            /\ xfer + left <= w.size
        BY <2>2 DEF StartError, Errors
      <3> HIDE DEF r, left, xfer, err, start
      <3>5. Sound(rt')
        BY <3>1, <3>3, <3>4, StartSound
      <3>6. CASE err # "0" \/ left = 0
        <4>1. WriteOK(pc', w', ret', rt')
          BY <1>1, <3>1, <3>4, <3>6, WriteEndsOK
        <4> QED BY <1>1, <2>1, <3>5, <4>1 DEF IInv
      <3>7. CASE ~(err # "0" \/ left = 0)
        <4>1. NextChunk(rt', left, xfer) /\ left \in Nat \ {0}
          BY <3>1, <3>4, <3>7
        <4>2. WriteOK(pc', w', ret', rt')
          BY <1>1, <3>4, <3>5, <4>1, NextChunkOK
        <4> QED BY <1>1, <2>1, <3>5, <4>2 DEF IInv
      <3> QED BY <3>6, <3>7
    <2> QED BY <2>3, <2>4
  <1> QED BY <1>2, <1>3, <1>4 DEF WriteStep

(* The card and its interrupts keep it, wherever the task was. *)
LEMMA HardwareIInv ==
  ASSUME IInv, DmaAdvance \/ Interrupt
  PROVE  IInv'
  <1>1. CASE DmaAdvance
    BY <1>1 DEF DmaAdvance, IInv, WriteOK
  <1>2. CASE IsrAck
    BY <1>2 DEF IsrAck, IInv, WriteOK
  <1>3. CASE snd_pcm_period_elapsed
    <2>1. Sound(rt') /\ rt'.appl_ptr = rt.appl_ptr
      BY <1>3, InterruptSound, PointerRange DEF snd_pcm_period_elapsed, IInv
    <2> QED BY <1>3, <2>1 DEF snd_pcm_period_elapsed, IInv, WriteOK
  <1> QED BY <1>1, <1>2, <1>3 DEF Interrupt

(* Every step keeps it. *)
LEMMA NextIInv == IInv /\ [Next]_vars => IInv'
  <1> SUFFICES ASSUME IInv, [Next]_vars PROVE IInv'
    OBVIOUS
  <1>1. CASE Call
    BY <1>1, CallIInv, AddBufferIInv DEF Call
  <1>2. CASE WriteStep
    BY <1>2, WriteIInv
  <1>3. CASE DmaAdvance \/ Interrupt
    BY <1>3, HardwareIInv
  <1>4. CASE UNCHANGED vars
    BY <1>4 DEF vars, IInv, WriteOK
  <1> QED BY <1>1, <1>2, <1>3, <1>4 DEF Next

(* IInv is an invariant of the playback stream. *)
THEOREM Invariance == Spec => []IInv
  <1>1. Init => IInv
    BY InitIInv
  <1>2. IInv /\ [Next]_vars => IInv'
    BY NextIInv
  <1> QED BY <1>1, <1>2, PTL DEF Spec

(* Every variable keeps its type. *)
THEOREM TypeCorrect == Spec => []TypeOK
  <1>1. IInv => TypeOK
    BY IInvMeaning
  <1> QED BY <1>1, Invariance, PTL

(***************************************************************************)
(* hw_ptr, appl_ptr and silenced_start stay below the boundary, the wrap   *)
(* test of hw_ptr_base is never jumped over, and the snd_assert of         *)
(* snd_pcm_playback_silence never fires, in any session of any length.     *)
(***************************************************************************)
THEOREM PointersStayInRange == Spec => []PointersInRange
  <1>1. IInv => PointersInRange
    BY IInvMeaning
  <1> QED BY <1>1, Invariance, PTL

(* The unlocked copy of snd_pcm_lib_write1 never leaves the ring, is never   *)
(* empty (its snd_assert) and is never based on a stale application pointer. *)
THEOREM CopiesStayInRing == Spec => []ChunkInRing
  <1>1. IInv => ChunkInRing
    BY IInvMeaning
  <1> QED BY <1>1, Invariance, PTL

(* The card plays exactly while the stream is RUNNING. *)
THEOREM HardwareFollowsState == Spec => []DmaMatchesState
  <1>1. IInv => DmaMatchesState
    BY IInvMeaning
  <1> QED BY <1>1, Invariance, PTL

(***************************************************************************)
(* The hardware pointer.  hw_ptr is inferred from a position inside the    *)
(* ring, so it can only be right when the card never gets a lap ahead of   *)
(* the driver unnoticed.  Timely says when: the ring is a whole number of  *)
(* periods, more than two, an interrupt waits for at most half a ring, the *)
(* session ends two rings before the boundary, and the card cannot pause   *)
(* (snd_pcm_period_elapsed forgets the interrupts of a paused stream).     *)
(***************************************************************************)
Timely ==
  /\ BufferSize % PeriodSize = 0
  /\ PeriodSize < BufferSize \div 2
  /\ MaxLatency <= BufferSize \div 2
  /\ MaxFrames + 2 * BufferSize < Boundary
  /\ ~CanPause

(* A product with a factor that is at least one is no smaller. *)
LEMMA Multiple ==
  ASSUME NEW k \in Int, NEW n \in Nat \ {0}
  PROVE  /\ k * n \in Int
         /\ k >= 1 => k * n >= n
         /\ k <= -1 => k * n <= -n
         /\ k = 0 => k * n = 0
  OBVIOUS

(* Every number is a multiple plus a remainder. *)
LEMMA Quotient ==
  ASSUME NEW n \in Nat \ {0}, NEW x \in Int
  PROVE  \E k \in Int, m \in 0 .. n - 1 : x = k * n + m /\ x % n = m
  <1>1. x = (x \div n) * n + (x % n) /\ x % n \in 0 .. n - 1 /\ x \div n \in Int
    OBVIOUS
  <1> QED BY <1>1

(* Quotient and remainder are unique. *)
LEMMA Remainder ==
  ASSUME NEW n \in Nat \ {0}, NEW k \in Int, NEW o \in 0 .. n - 1, NEW x \in Int,
         x = k * n + o
  PROVE  x % n = o
  <1>1. PICK q \in Int, m \in 0 .. n - 1 : x = q * n + m /\ x % n = m
    BY Quotient
  <1>2. (q - k) * n = o - m
    BY <1>1
  <1>3. PICK j \in Int : j = q - k
    BY <1>1
  <1>4. j * n = o - m
    BY <1>2, <1>3
  <1>5. j = 0
    BY <1>1, <1>4, Multiple
  <1> QED BY <1>1, <1>4, <1>5, Multiple

(* The remainders the model computes with: in range, and one lap below it. *)
LEMMA SmallRemainder ==
  ASSUME NEW n \in Nat \ {0}, NEW x \in Int
  PROVE  /\ x \in 0 .. n - 1 => x % n = x
         /\ x \in (-n) .. -1 => x % n = x + n
  <1>1. ASSUME x \in 0 .. n - 1 PROVE x % n = x
    BY <1>1, Remainder, x = 0 * n + x
  <1>2. ASSUME x \in (-n) .. -1 PROVE x % n = x + n
    <2>1. x = (-1) * n + (x + n) /\ x + n \in 0 .. n - 1
      BY <1>2
    <2> QED BY <2>1, Remainder
  <1> QED BY <1>1, <1>2

(* Moving by less than a lap changes the slot, by less than the distance to *)
(* the end of the lap it moves the slot along.                              *)
LEMMA MoveInLap ==
  ASSUME NEW n \in Nat \ {0}, NEW x \in Int, NEW i \in 0 .. n - 1
  PROVE  /\ (x % n) + i < n => (x + i) % n = (x % n) + i
         /\ i # 0 => (x + i) % n # x % n
  <1>1. PICK k \in Int, m \in 0 .. n - 1 : x = k * n + m /\ x % n = m
    BY Quotient
  <1>2. PICK y \in Int : y = x + i
    OBVIOUS
  <1>3. ASSUME m + i < n PROVE y % n = m + i
    <2>1. PICK o \in 0 .. n - 1 : o = m + i
      BY <1>1, <1>3
    <2>2. y = k * n + o
      BY <1>1, <1>2, <2>1, Multiple
    <2> QED BY <2>1, <2>2, Remainder
  <1>4. ASSUME m + i >= n PROVE y % n = m + i - n
    <2>1. PICK o \in 0 .. n - 1, j \in Int : o = m + i - n /\ j = k + 1
      BY <1>1, <1>4
    <2>2. j * n = k * n + n
      BY <2>1
    <2>3. PICK a \in Int, b \in Int : a = k * n /\ b = j * n
      BY Multiple
    <2>4. y = b + o
      BY <1>1, <1>2, <2>1, <2>2, <2>3
    <2>5. y = j * n + o
      BY <2>3, <2>4
    <2>6. y % n = o
      BY <2>5, Remainder
    <2> QED BY <2>1, <2>6
  <1> QED BY <1>1, <1>2, <1>3, <1>4

(* A multiple of the period plus a period is a multiple of the period. *)
LEMMA NextMultiple ==
  ASSUME NEW n \in Nat \ {0}, NEW x \in Int, x % n = 0
  PROVE  (x + n) % n = 0
  <1>1. PICK k \in Int, m \in 0 .. n - 1 : x = k * n + m /\ x % n = m
    BY Quotient
  <1>2. PICK y \in Int, j \in Int : y = x + n /\ j = k + 1
    BY <1>1
  <1>3. j * n = k * n + n
    BY <1>2
  <1>4. PICK a \in Int, b \in Int : a = k * n /\ b = j * n
    BY Multiple
  <1>5. y = b + 0 /\ 0 \in 0 .. n - 1
    BY <1>1, <1>2, <1>3, <1>4
  <1>6. y = j * n + 0
    BY <1>4, <1>5
  <1>7. y % n = 0
    BY <1>5, <1>6, Remainder
  <1> QED BY <1>2, <1>7

(***************************************************************************)
(* Where the card is: its position in the ring, seen from the lap hw_ptr   *)
(* is in, is in this lap or in the next one.                               *)
(***************************************************************************)
LEMMA CardLap ==
  ASSUME NEW r, Sound(r), NEW d \in Nat,
         r.hw_ptr <= d, d < r.hw_ptr + BufferSize, d + BufferSize < Boundary
  PROVE  /\ r.hw_ptr_base \in Nat /\ r.hw_ptr \in Nat
         /\ NextBase(r.hw_ptr_base) \in Nat
         /\ \/ r.hw_ptr_base + (d % BufferSize) = d
            \/ /\ r.hw_ptr_base + (d % BufferSize) = d - BufferSize
               /\ NextBase(r.hw_ptr_base) + (d % BufferSize) = d
  <1> DEFINE base == r.hw_ptr_base
             h == r.hw_ptr
  <1>1. base \in LapStarts /\ base <= h /\ h < base + BufferSize
        /\ base \in Nat /\ h \in Nat
    BY DEF Sound, PointersOK, Runtime
  <1>2. NextBase(base) \in Nat
    BY <1>1, RuntimeAssumption DEF NextBase
  <1>3. PICK k \in 0 .. Laps - 1 : base = k * BufferSize
    BY <1>1 DEF LapStarts
  <1>4. PICK n \in Nat \ {0}, b \in Nat, j \in Int :
          n = BufferSize /\ b = base /\ j = k + 1
    BY <1>1, RuntimeAssumption
  <1>5. b = k * n /\ k \in Int /\ j * n = b + n
    BY <1>3, <1>4, LapArithmetic
  <1>6. CASE d < b + n
    <2>1. PICK o \in 0 .. n - 1 : o = d - b
      BY <1>1, <1>4, <1>6
    <2>2. d = b + o
      BY <1>4, <2>1
    <2>3. d % n = o
      BY <1>5, <2>2, Remainder
    <2> QED BY <1>1, <1>2, <1>4, <2>2, <2>3
  <1>7. CASE d >= b + n
    <2>1. PICK o \in 0 .. n - 1 : o = d - b - n
      BY <1>1, <1>4, <1>7
    <2>2. d = j * n + o
      BY <1>4, <1>5, <2>1
    <2>3. d % n = o
      BY <2>2, Remainder
    <2>4. NextBase(base) = b + n
      BY <1>1, <1>4, <1>7, BoundaryFacts DEF NextBase
    <2> QED BY <1>1, <1>2, <1>4, <2>1, <2>3, <2>4
  <1> QED BY <1>4, <1>6, <1>7

(* The start of the card's period, which the interrupt handler keeps. *)
LEMMA PeriodStart ==
  ASSUME Timely, NEW d \in Nat, NEW b \in Nat, b + (d % BufferSize) = d,
         NEW i, i = b + (d % BufferSize) - ((d % BufferSize) % PeriodSize)
  PROVE  i \in Nat /\ i <= d /\ d < i + PeriodSize /\ i % PeriodSize = 0
  <1>1. PICK n \in Nat \ {0}, p \in Nat \ {0} : n = BufferSize /\ p = PeriodSize
    BY RuntimeAssumption
  <1> d \in Int /\ n \in Int
    OBVIOUS
  <1>2. PICK k \in Int, o \in 0 .. n - 1 : d = k * n + o /\ d % n = o
    BY Quotient
  <1>3. PICK c \in Int, z \in 0 .. p - 1 : n = c * p + z /\ n % p = z
    BY Quotient
  <1>4. z = 0
    BY <1>1, <1>3 DEF Timely
  <1>5. o \in Int
    BY <1>2
  <1>6. PICK q \in Int, m \in 0 .. p - 1 : o = q * p + m /\ o % p = m
    BY <1>5, Quotient
  <1>7. PICK g \in Nat : g = d % BufferSize
    BY <1>1, <1>2
  <1>8. g = o /\ g % PeriodSize = m
    BY <1>1, <1>2, <1>6, <1>7
  <1>9. i = b + g - m /\ b + g = d
    BY <1>7, <1>8
  <1>10. i = d - m /\ i \in Int
    BY <1>6, <1>9
  <1>11. PICK f \in Int, e \in Int : f = k * c /\ e = f + q
    BY <1>2, <1>3, <1>6
  <1>12. k * n = f * p
    BY <1>3, <1>4, <1>11
  <1>13. e * p = f * p + q * p
    BY <1>6, <1>11
  <1>14. PICK x \in Int, y \in Int : x = f * p /\ y = q * p
    BY <1>6, <1>11, Multiple
  <1>15. i = x + y
    BY <1>2, <1>6, <1>10, <1>12, <1>14
  <1>16. i = e * p + 0 /\ 0 \in 0 .. p - 1
    BY <1>10, <1>13, <1>14, <1>15
  <1>17. i % p = 0
    BY <1>10, <1>11, <1>16, Remainder
  <1>18. m <= o
    <2>1. q >= 0
      BY <1>2, <1>6, Multiple
    <2>2. y >= 0
      BY <1>14, <2>1, Multiple
    <2> QED BY <1>6, <1>14, <2>2
  <1> QED BY <1>1, <1>6, <1>7, <1>8, <1>9, <1>10, <1>17, <1>18

(* A runtime that differs from another only in silence. *)
Quieter(r, u) ==
  \A s \in Slots : u.dma_area[s] \in {r.dma_area[s], Silent}

(* Silence filling leaves the pointers of the card alone. *)
LEMMA SilenceQuiets ==
  ASSUME NEW r \in Runtime
  PROVE  /\ Silence(r).hw_ptr = r.hw_ptr
         /\ Silence(r).hw_ptr_interrupt = r.hw_ptr_interrupt
         /\ Quieter(r, Silence(r))
  <1> DEFINE q == ForgetWritten(r)
             ofs == SilenceOffset(q)
             frames == ClampToEnd(ofs, SilenceFrames(q))
             s == [q EXCEPT !.dma_area = SetSilence(@, ofs, frames),
                            !.silenced_size = @ + frames]
  <1>1. Silence(r) \in {r, q, s}
    BY DEF Silence, snd_pcm_playback_silence
  <1>2. /\ q.hw_ptr = r.hw_ptr /\ q.hw_ptr_interrupt = r.hw_ptr_interrupt
        /\ q.dma_area = r.dma_area
        /\ s.hw_ptr = r.hw_ptr /\ s.hw_ptr_interrupt = r.hw_ptr_interrupt
        /\ s.dma_area = SetSilence(r.dma_area, ofs, frames)
    BY DEF ForgetWritten, Runtime
  <1> HIDE DEF q, ofs, frames, s
  <1>3. Quieter(r, r) /\ Quieter(r, q) /\ Quieter(r, s)
    BY <1>2 DEF Quieter, SetSilence
  <1> QED BY <1>1, <1>2, <1>3

(* avail, where nothing has come near the boundary. *)
LEMMA PlainAvail ==
  ASSUME NEW r, Sound(r), r.appl_ptr <= r.hw_ptr + BufferSize,
         r.hw_ptr + BufferSize < Boundary
  PROVE  snd_pcm_playback_avail(r) = r.hw_ptr + BufferSize - r.appl_ptr
  BY BoundaryFacts, RuntimeAssumption
     DEF Sound, Runtime, snd_pcm_playback_avail

(* Reading the position at task time: hw_ptr catches up with the card, or *)
(* the position is dropped and hw_ptr stays behind it.                    *)
LEMMA UpdateTracks ==
  ASSUME NEW r, Sound(r), NEW d \in Nat,
         r.hw_ptr <= d, d < r.hw_ptr + BufferSize, d + BufferSize < Boundary
  PROVE  LET u == snd_pcm_update_hw_ptr(r, d % BufferSize)
         IN  /\ u.hw_ptr \in {r.hw_ptr, d}
             /\ u.hw_ptr_interrupt = r.hw_ptr_interrupt
             /\ Quieter(r, u)
  <1> DEFINE pos == d % BufferSize
             delta == r.hw_ptr - (r.hw_ptr_base + pos)
             base == BaseAfter(r, delta)
             q == [r EXCEPT !.hw_ptr = base + pos, !.hw_ptr_base = base]
             m == [r EXCEPT !.hw_ptr = base + pos, !.hw_ptr_base = base,
                            !.hw_ptr_interrupt = r.hw_ptr_interrupt]
             u == snd_pcm_update_hw_ptr(r, pos)
  <1>1. u \in {r, q, Silence(q)} /\ (Unexpected(delta) => u = r)
    BY DEF snd_pcm_update_hw_ptr
  <1>2. r \in Runtime /\ PointersOK(r) /\ delta \in Int
        /\ r.hw_ptr_interrupt \in Nat /\ pos \in 0 .. BufferSize - 1
    BY RuntimeAssumption DEF Sound, Runtime
  <1>3. q \in Runtime
    <2>1. m \in Runtime
      BY <1>2, MoveHwPtr
    <2>2. q = m
      BY <1>2 DEF Runtime
    <2> QED BY <2>1, <2>2
  <1>4. /\ q.hw_ptr = base + pos /\ q.hw_ptr_interrupt = r.hw_ptr_interrupt
        /\ q.dma_area = r.dma_area
    BY <1>2 DEF Runtime
  <1>5. Unexpected(delta) \/ base + pos = d
    <2> HIDE DEF pos
    <2>1. /\ r.hw_ptr_base \in Nat /\ r.hw_ptr \in Nat
          /\ \/ r.hw_ptr_base + pos = d
             \/ /\ r.hw_ptr_base + pos = d - BufferSize
                /\ NextBase(r.hw_ptr_base) + pos = d
      BY CardLap DEF pos
    <2> QED BY <1>2, <2>1, RuntimeAssumption DEF BaseAfter
  <1>6. /\ Silence(q).hw_ptr = q.hw_ptr
        /\ Silence(q).hw_ptr_interrupt = q.hw_ptr_interrupt
        /\ Quieter(q, Silence(q))
    BY <1>3, SilenceQuiets
  <1> HIDE DEF q, u
  <1>7. Quieter(r, r) /\ Quieter(r, q) /\ Quieter(r, Silence(q))
    BY <1>4, <1>6 DEF Quieter
  <1> QED BY <1>1, <1>4, <1>5, <1>6, <1>7 DEF u

(***************************************************************************)
(* The period interrupt: a position short of the next period is dropped,   *)
(* every other one makes hw_ptr the card's position, and the stream is     *)
(* stopped only when the card has played all there was.                    *)
(***************************************************************************)
LEMMA InterruptTracks ==
  ASSUME Timely, NEW r, Sound(r), NEW d \in Nat,
         r.hw_ptr_interrupt <= r.hw_ptr, r.hw_ptr <= d,
         d <= r.hw_ptr_interrupt + PeriodSize + MaxLatency,
         d + BufferSize < Boundary, r.appl_ptr <= d + BufferSize
  PROVE  LET u == snd_pcm_update_hw_ptr_interrupt(r, d % BufferSize)
         IN  \/ u = r /\ d < r.hw_ptr_interrupt + PeriodSize
             \/ u.state = "XRUN" /\ r.appl_ptr <= d
             \/ /\ u.state = r.state
                /\ u.hw_ptr = d
                /\ u.hw_ptr_interrupt % PeriodSize = 0
                /\ u.hw_ptr_interrupt <= d
                /\ d < u.hw_ptr_interrupt + PeriodSize
                /\ Quieter(r, u)
  <1> DEFINE pos == d % BufferSize
             delta == r.hw_ptr_interrupt + PeriodSize - (r.hw_ptr_base + pos)
             base == BaseAfter(r, delta)
             p == base + pos - (pos % PeriodSize)
             q == [r EXCEPT !.hw_ptr = base + pos, !.hw_ptr_base = base,
                            !.hw_ptr_interrupt = p]
             u == snd_pcm_update_hw_ptr_interrupt(r, pos)
  <1>1. u = IF Unexpected(delta) THEN r
            ELSE IF snd_pcm_playback_avail(q) >= BufferSize
            THEN snd_pcm_stop(q, "XRUN") ELSE Silence(q)
    BY DEF snd_pcm_update_hw_ptr_interrupt, StopThreshold
  <1>2. /\ r \in Runtime /\ PointersOK(r) /\ delta \in Int
        /\ r.hw_ptr_interrupt \in Nat /\ pos \in 0 .. BufferSize - 1
        /\ r.hw_ptr \in Nat /\ r.appl_ptr \in Nat
    BY RuntimeAssumption DEF Sound, Runtime
  <1>3. d < r.hw_ptr + BufferSize
    <2>1. BufferSize \in Nat /\ 2 * (BufferSize \div 2) <= BufferSize
      BY RuntimeAssumption
    <2> QED BY <1>2, <2>1, RuntimeAssumption, PlaybackAssumption DEF Timely
  <1>4. \/ Unexpected(delta) /\ d < r.hw_ptr_interrupt + PeriodSize
        \/ ~Unexpected(delta) /\ base \in Nat /\ base + pos = d
    <2> HIDE DEF pos
    <2>1. /\ r.hw_ptr_base \in Nat /\ NextBase(r.hw_ptr_base) \in Nat
          /\ \/ r.hw_ptr_base + pos = d
             \/ /\ r.hw_ptr_base + pos = d - BufferSize
                /\ NextBase(r.hw_ptr_base) + pos = d
      BY <1>3, CardLap DEF pos
    <2>2. PICK half \in Nat : half = BufferSize \div 2
      BY RuntimeAssumption
    <2>3. 2 * half <= BufferSize /\ PeriodSize < half /\ MaxLatency <= half
      BY <2>2, RuntimeAssumption DEF Timely
    <2>4. CASE r.hw_ptr_base + pos = d
      BY <1>2, <2>1, <2>2, <2>3, <2>4, RuntimeAssumption
         DEF Unexpected, BaseAfter
    <2>5. CASE r.hw_ptr_base + pos = d - BufferSize
      BY <1>2, <2>1, <2>2, <2>3, <2>5, RuntimeAssumption, PlaybackAssumption
         DEF Unexpected, BaseAfter
    <2> QED BY <2>1, <2>4, <2>5
  <1>5. CASE Unexpected(delta)
    BY <1>1, <1>4, <1>5
  <1>6. CASE ~Unexpected(delta)
    <2>1. base \in Nat /\ base + pos = d
      BY <1>4, <1>6
    <2>2. p \in Nat /\ p <= d /\ d < p + PeriodSize /\ p % PeriodSize = 0
      BY <2>1, PeriodStart
    <2>3. q \in Runtime /\ PointersOK(q)
      BY <1>2, <2>2, MoveHwPtr
    <2>4. /\ q.hw_ptr = base + pos /\ q.hw_ptr_interrupt = p
          /\ q.dma_area = r.dma_area /\ q.appl_ptr = r.appl_ptr
          /\ q.state = r.state /\ q.trigger = r.trigger
      BY <1>2 DEF Runtime
    <2> HIDE DEF q, base, p, delta, u
    <2>5. Sound(q)
      BY <2>3, <2>4 DEF Sound
    <2>6. snd_pcm_playback_avail(q) = d + BufferSize - r.appl_ptr
      BY <2>1, <2>4, <2>5, PlainAvail
    <2>7. CASE snd_pcm_playback_avail(q) >= BufferSize
      <3>1. u.state = "XRUN"
        BY <1>1, <1>6, <2>3, <2>7 DEF snd_pcm_stop, Runtime
      <3>2. r.appl_ptr <= d
        BY <1>2, <2>6, <2>7, RuntimeAssumption
      <3> QED BY <3>1, <3>2 DEF u
    <2>8. CASE ~(snd_pcm_playback_avail(q) >= BufferSize)
      <3>1. u = Silence(q)
        BY <1>1, <1>6, <2>8
      <3>2. /\ u.hw_ptr = d /\ u.hw_ptr_interrupt = p /\ u.state = r.state
            /\ Quieter(q, u)
        BY <2>1, <2>3, <2>4, <3>1, SilenceQuiets, SilenceKeeps
      <3>3. Quieter(r, u)
        BY <2>4, <3>2 DEF Quieter
      <3> QED BY <2>2, <3>2, <3>3 DEF u
    <2> QED BY <2>7, <2>8
  <1> QED BY <1>5, <1>6

(***************************************************************************)
(* The inductive invariant of a timely session.  Tracks: hw_ptr and the    *)
(* period it was last reported in are behind the card, by at most a period *)
(* and the latency of an interrupt.  Room: what OSS32_WaveAddBuffer has    *)
(* left to hand over fits in the ring, whatever is played meanwhile.       *)
(* Kept: between hw_ptr and the end of what was copied, every slot holds   *)
(* the frame of its position, or silence.                                  *)
(***************************************************************************)
Live(r) == r.state \in {"PREPARED", "RUNNING"}

Tracks(r, d) ==
  /\ r.hw_ptr_interrupt % PeriodSize = 0
  /\ r.hw_ptr_interrupt <= r.hw_ptr
  /\ r.hw_ptr <= d

Latency(r, d, l, waiting) ==
  /\ d <= r.hw_ptr_interrupt + PeriodSize + l
  /\ ~waiting => d < r.hw_ptr_interrupt + PeriodSize

Rest(p, v) ==
  CASE p = "idle"  -> 0
    [] p = "write" -> v.size
    [] OTHER       -> v.size - v.xfer
Room(r, n) ==
  /\ r.appl_ptr + n <= r.hw_ptr + BufferSize
  /\ r.appl_ptr + n <= MaxFrames

Copied(p, v) == IF p = "commit" THEN v.frames ELSE 0
Kept(r, n) ==
  \A x \in r.hw_ptr .. (r.appl_ptr + n - 1) :
    r.dma_area[x % BufferSize] \in {x, Silent}

TInv ==
  /\ late <= MaxLatency
  /\ dma <= MaxFrames + BufferSize
  /\ ret.err # "EAGAIN"
  /\ rt.state = "PREPARED" => dma = 0
  /\ Live(rt) => /\ Tracks(rt, dma)
                 /\ Latency(rt, dma, late, Waiting)
                 /\ Room(rt, Rest(pc, w))
                 /\ Kept(rt, Copied(pc, w))

(* More silence, and a hw_ptr further on, leave Kept and Room true. *)
LEMMA KeptMonotone ==
  ASSUME NEW r \in Runtime, NEW u \in Runtime, NEW n \in Nat, Kept(r, n),
         Quieter(r, u), r.hw_ptr <= u.hw_ptr, u.appl_ptr = r.appl_ptr
  PROVE  Kept(u, n)
  <1> SUFFICES ASSUME NEW x \in u.hw_ptr .. (u.appl_ptr + n - 1)
               PROVE  u.dma_area[x % BufferSize] \in {x, Silent}
    BY DEF Kept
  <1>1. x \in r.hw_ptr .. (r.appl_ptr + n - 1) /\ x \in Int
    BY DEF Runtime
  <1>2. x % BufferSize \in Slots
    BY <1>1, RuntimeAssumption DEF Slots
  <1> QED BY <1>1, <1>2 DEF Kept, Quieter

(* The same for the room of the write under way. *)
LEMMA RoomMonotone ==
  ASSUME NEW r \in Runtime, NEW u \in Runtime, NEW n \in Nat, Room(r, n),
         r.hw_ptr <= u.hw_ptr, u.appl_ptr = r.appl_ptr
  PROVE  Room(u, n)
  BY RuntimeAssumption, PlaybackAssumption DEF Room, Runtime

(* What is left to write is a number of frames, at least those copied. *)
LEMMA RestRange ==
  ASSUME IInv
  PROVE  /\ Rest(pc, w) \in Nat /\ Copied(pc, w) \in Nat
         /\ Copied(pc, w) <= Rest(pc, w)
  BY DEF IInv, WriteOK, Writes, Rest, Copied

(* A live stream in a timely session is far from the boundary, and the card *)
(* is less than a lap ahead of hw_ptr.                                      *)
LEMMA LiveFacts ==
  ASSUME Timely, IInv, TInv, Live(rt)
  PROVE  /\ rt \in Runtime /\ dma \in Nat /\ rt.hw_ptr \in Nat
         /\ rt.appl_ptr \in Nat /\ rt.hw_ptr_interrupt \in Nat
         /\ Tracks(rt, dma) /\ Latency(rt, dma, late, Waiting)
         /\ Room(rt, Rest(pc, w)) /\ Kept(rt, Copied(pc, w))
         /\ dma <= rt.hw_ptr_interrupt + PeriodSize + MaxLatency
         /\ dma < rt.hw_ptr + BufferSize
         /\ dma + BufferSize < Boundary
         /\ rt.appl_ptr <= rt.hw_ptr + BufferSize
  <1>1. /\ rt \in Runtime /\ dma \in Nat /\ late \in Nat /\ rt.hw_ptr \in Nat
        /\ rt.appl_ptr \in Nat /\ rt.hw_ptr_interrupt \in Nat
    BY DEF IInv, Sound, Runtime
  <1>2. /\ Tracks(rt, dma) /\ Latency(rt, dma, late, Waiting)
        /\ Room(rt, Rest(pc, w)) /\ Kept(rt, Copied(pc, w))
        /\ late <= MaxLatency /\ dma <= MaxFrames + BufferSize
    BY DEF TInv
  <1>3. PICK half \in Nat : half = BufferSize \div 2
    BY RuntimeAssumption
  <1>4. 2 * half <= BufferSize /\ PeriodSize < half /\ MaxLatency <= half
    BY <1>3, RuntimeAssumption DEF Timely
  <1>5. dma <= rt.hw_ptr_interrupt + PeriodSize + MaxLatency
    BY <1>1, <1>2, RuntimeAssumption, PlaybackAssumption DEF Latency
  <1>6. dma < rt.hw_ptr + BufferSize
    BY <1>1, <1>2, <1>4, <1>5, RuntimeAssumption, PlaybackAssumption DEF Tracks
  <1>7. dma + BufferSize < Boundary
    BY <1>1, <1>2, RuntimeAssumption, PlaybackAssumption, BoundaryFacts DEF Timely
  <1>8. rt.appl_ptr <= rt.hw_ptr + BufferSize
    BY <1>1, <1>2, RestRange, RuntimeAssumption DEF Room
  <1> QED BY <1>1, <1>2, <1>5, <1>6, <1>7, <1>8

(* Init satisfies it. *)
LEMMA InitTInv == Init => TInv
  <1> SUFFICES ASSUME Init PROVE TInv
    OBVIOUS
  <1>1. rt.state = "CLOSED"
    BY DEF Init, FreshRuntime
  <1>2. ret.err = "0"
    BY DEF Init, Result, Done
  <1> QED BY <1>1, <1>2, RuntimeAssumption, PlaybackAssumption
       DEF Init, TInv, Live

(* A STATUS query: hw_ptr catches up or stays, nothing is lost. *)
LEMMA StatusTracks ==
  ASSUME Timely, IInv, TInv, Live(rt), rt' = snd_pcm_status(rt)
  PROVE  /\ rt' \in Runtime /\ Sound(rt') /\ rt'.state = rt.state
         /\ rt'.appl_ptr = rt.appl_ptr
         /\ rt.hw_ptr <= rt'.hw_ptr
         /\ Tracks(rt', dma) /\ Latency(rt', dma, late, Waiting)
         /\ Quieter(rt, rt')
         /\ rt'.appl_ptr <= rt'.hw_ptr + BufferSize
         /\ rt'.hw_ptr + BufferSize < Boundary
  <1> DEFINE u == snd_pcm_update_hw_ptr(rt, dma % BufferSize)
  <1>1. /\ Sound(rt') /\ rt'.state = rt.state /\ rt'.appl_ptr = rt.appl_ptr
        /\ rt' \in Runtime
    BY StatusSound DEF Sound
  <1>2. /\ u.hw_ptr \in {rt.hw_ptr, dma}
        /\ u.hw_ptr_interrupt = rt.hw_ptr_interrupt
        /\ Quieter(rt, u)
    BY LiveFacts, UpdateTracks DEF IInv, Tracks
  <1>3. rt' \in {rt, u}
    BY DEF snd_pcm_status, pointer
  <1>4. /\ rt'.hw_ptr \in {rt.hw_ptr, dma}
        /\ rt'.hw_ptr_interrupt = rt.hw_ptr_interrupt
        /\ Quieter(rt, rt')
    BY <1>2, <1>3 DEF Quieter
  <1> HIDE DEF u
  <1>5. /\ rt.hw_ptr <= rt'.hw_ptr
        /\ Tracks(rt', dma) /\ Latency(rt', dma, late, Waiting)
    BY <1>4, LiveFacts DEF Tracks, Latency
  <1>6. rt'.appl_ptr <= rt'.hw_ptr + BufferSize
        /\ rt'.hw_ptr + BufferSize < Boundary
    BY <1>1, <1>4, LiveFacts, RuntimeAssumption, BoundaryFacts DEF Tracks
  <1> QED BY <1>1, <1>4, <1>5, <1>6

(* snd_pcm_start adds nothing but silence. *)
LEMMA StartTracks ==
  ASSUME NEW r, Sound(r)
  PROVE  LET u == snd_pcm_start(r, TRUE)
         IN  /\ u.hw_ptr = r.hw_ptr /\ u.hw_ptr_interrupt = r.hw_ptr_interrupt
             /\ Quieter(r, u)
  <1> DEFINE q == [r EXCEPT !.trigger = "START", !.state = "RUNNING"]
  <1>1. /\ q \in Runtime /\ q.hw_ptr = r.hw_ptr /\ q.dma_area = r.dma_area
        /\ q.hw_ptr_interrupt = r.hw_ptr_interrupt
    BY DEF Sound, Runtime, PcmStates
  <1>2. snd_pcm_start(r, TRUE) = Silence(q)
    BY DEF snd_pcm_start
  <1> HIDE DEF q
  <1> QED BY <1>1, <1>2, SilenceQuiets DEF Quieter

(* A step that leaves the stream stopped has nothing to keep. *)
LEMMA StoppedTInv ==
  ASSUME TInv, late' = late, dma' \in {dma, 0}, ~Live(rt'),
         ret'.err # "EAGAIN"
  PROVE  TInv'
  BY RuntimeAssumption, PlaybackAssumption DEF TInv, Live

(* A call that moves hw_ptr at most up to the card, and fills silence. *)
LEMMA ForwardTInv ==
  ASSUME Timely, IInv, TInv, UNCHANGED <<hardware, pc, w>>, ret'.err # "EAGAIN",
         rt' \in Runtime, rt'.appl_ptr = rt.appl_ptr,
         Live(rt'), Live(rt), rt'.state = "PREPARED" => rt.state = "PREPARED",
         rt.hw_ptr <= rt'.hw_ptr, Quieter(rt, rt'),
         Tracks(rt', dma), Latency(rt', dma, late, Waiting)
  PROVE  TInv'
  <1>1. UNCHANGED <<dma, irq, late, isr, pc, w>>
    BY DEF hardware
  <1>2. /\ Room(rt, Rest(pc, w)) /\ Kept(rt, Copied(pc, w)) /\ rt \in Runtime
        /\ Rest(pc, w) \in Nat /\ Copied(pc, w) \in Nat
    BY LiveFacts, RestRange
  <1>3. Room(rt', Rest(pc, w)) /\ Kept(rt', Copied(pc, w))
    BY <1>2, RoomMonotone, KeptMonotone
  <1>4. Waiting' = Waiting /\ Rest(pc, w)' = Rest(pc, w)
        /\ Copied(pc, w)' = Copied(pc, w)
    BY <1>1 DEF Waiting, Rest, Copied
  <1>5. Tracks(rt, dma)' /\ Latency(rt, dma, late, Waiting)'
    BY <1>1, <1>4
  <1>6. Room(rt, Rest(pc, w))' /\ Kept(rt, Copied(pc, w))'
    BY <1>3, <1>4
  <1> QED BY <1>1, <1>5, <1>6 DEF TInv

(* Calls that leave the runtime alone. *)
LEMMA SameTInv ==
  ASSUME TInv, UNCHANGED <<hardware, rt, pc, w>>, ret'.err # "EAGAIN"
  PROVE  TInv'
  BY DEF TInv, hardware, Live, Tracks, Latency, Waiting, Rest, Room, Copied, Kept

(* The calls that report a position or a space. *)
LEMMA QueryTInv ==
  ASSUME Timely, IInv, TInv, rt' = snd_pcm_status(rt),
         UNCHANGED <<hardware, pc, w>>, ret'.err # "EAGAIN"
  PROVE  TInv'
  <1>1. CASE Live(rt)
    BY <1>1, StatusTracks, ForwardTInv DEF Live
  <1>2. CASE ~Live(rt)
    <2>1. ~Live(rt')
      BY <1>2, StatusSound DEF Live
    <2> QED BY <2>1, StoppedTInv DEF hardware
  <1> QED BY <1>1, <1>2

(* A dropped stream is neither prepared nor running, nor in an underrun. *)
LEMMA DropStops ==
  ASSUME NEW r, Sound(r), r.state # "CLOSED", NEW pos \in 0 .. BufferSize - 1
  PROVE  snd_pcm_playback_drop(r, pos).state \in {"OPEN", "SETUP"}
  <1> DEFINE p == IF r.state = "PAUSED" THEN snd_pcm_pause(r, FALSE) ELSE r
             q == CASE p.state \in {"OPEN", "SETUP"} -> p
                    [] p.state = "RUNNING" ->
                         snd_pcm_stop(snd_pcm_update_hw_ptr(p, pos), "SETUP")
                    [] p.state \in {"PREPARED", "XRUN"} ->
                         [p EXCEPT !.state = "SETUP"]
  <1>1. Sound(p) /\ p.state \notin {"PAUSED", "CLOSED"} /\ p.state \in PcmStates
    BY PauseSound DEF Sound, Runtime, PcmStates
  <1>2. q \in Runtime /\ q.state \in {"OPEN", "SETUP"}
    <2> HIDE DEF p
    <2>1. CASE p.state \in {"OPEN", "SETUP"}
      BY <1>1, <2>1 DEF Sound
    <2>2. CASE p.state = "RUNNING"
      <3>1. q = snd_pcm_stop(snd_pcm_update_hw_ptr(p, pos), "SETUP")
        BY <2>2
      <3>2. Sound(snd_pcm_update_hw_ptr(p, pos))
        BY <1>1, UpdateSound
      <3> HIDE DEF q
      <3>3. Sound(q) /\ q.state = "SETUP"
        BY <3>1, <3>2, StopSound DEF PcmStates
      <3> QED BY <3>3 DEF Sound
    <2>3. CASE p.state \in {"PREPARED", "XRUN"}
      <3>1. q = [p EXCEPT !.state = "SETUP"]
        BY <2>3
      <3> QED BY <1>1, <3>1 DEF Sound, Runtime, PcmStates
    <2> QED BY <1>1, <2>1, <2>2, <2>3 DEF PcmStates
  <1>3. snd_pcm_playback_drop(r, pos) = [q EXCEPT !.appl_ptr = q.hw_ptr]
    BY DEF snd_pcm_playback_drop
  <1> HIDE DEF q
  <1> QED BY <1>2, <1>3 DEF Runtime

(* Every OSS32 call but OSS32_WaveAddBuffer keeps the invariant. *)
LEMMA CallTInv ==
  ASSUME Timely, IInv, TInv,
         \/ OSS32_WaveOpen \/ OSS32_WaveClose
         \/ \E ok \in BOOLEAN : OSS32_WaveSetHwParams(ok) \/ OSS32_WaveStart(ok)
         \/ OSS32_WavePrepare \/ OSS32_WaveStop
         \/ OSS32_WavePause \/ OSS32_WaveResume
         \/ OSS32_WaveGetPosition \/ OSS32_WaveGetSpace
  PROVE  TInv'
  <1>1. /\ Sound(rt) /\ rt \in Runtime /\ rt.state \in PcmStates /\ dma \in Nat
        /\ pointer \in 0 .. BufferSize - 1 /\ late \in Nat
    BY PointerRange DEF IInv, Sound, Runtime
  <1>2. \A e : Result(e).err = e
    BY DEF Result, Done
  <1>3. CASE OSS32_WaveOpen
    <2>1. /\ ~Live(rt') /\ dma' = 0 /\ late' = late /\ ret'.err = "0"
      BY <1>2, <1>3 DEF OSS32_WaveOpen, FreshRuntime, Live
    <2> QED BY <2>1, StoppedTInv
  <1>4. CASE OSS32_WaveClose
    <2> DEFINE d == snd_pcm_playback_drop(rt, pointer)
    <2>1. /\ rt' = [d EXCEPT !.state = "CLOSED"] /\ rt.state # "CLOSED"
          /\ dma' = dma /\ late' = late /\ ret'.err = "0"
      BY <1>2, <1>4 DEF OSS32_WaveClose, Opened, hardware
    <2>2. d \in Runtime
      BY <1>1, <2>1, DropSound DEF Sound
    <2> HIDE DEF d
    <2>3. ~Live(rt')
      BY <2>1, <2>2 DEF Live, Runtime
    <2> QED BY <2>1, <2>3, StoppedTInv
  <1>5. ASSUME NEW ok \in BOOLEAN, OSS32_WaveSetHwParams(ok) PROVE TInv'
    <2>1. /\ rt' = rt \/ rt'.state \in {"SETUP", "OPEN"}
          /\ ret'.err # "EAGAIN" /\ UNCHANGED <<hardware, pc, w>>
      BY <1>1, <1>2, <1>5 DEF OSS32_WaveSetHwParams, Runtime
    <2>2. CASE rt' = rt
      BY <2>1, <2>2, SameTInv
    <2>3. CASE rt'.state \in {"SETUP", "OPEN"}
      BY <2>1, <2>3, StoppedTInv DEF Live, hardware
    <2> QED BY <2>1, <2>2, <2>3
  <1>6. ASSUME NEW ok \in BOOLEAN, OSS32_WaveStart(ok) PROVE TInv'
    <2>1. ret'.err # "EAGAIN" /\ UNCHANGED <<hardware, pc, w>>
      BY <1>2, <1>6 DEF OSS32_WaveStart, StartError
    <2>2. CASE StartError(rt, ok) = "0"
      <3>1. ok = TRUE /\ rt.state = "PREPARED" /\ rt' = snd_pcm_start(rt, TRUE)
        BY <1>6, <2>2 DEF OSS32_WaveStart, StartError
      <3>2. /\ rt' \in Runtime /\ rt'.state = "RUNNING"
            /\ rt'.appl_ptr = rt.appl_ptr /\ rt'.hw_ptr = rt.hw_ptr
            /\ rt'.hw_ptr_interrupt = rt.hw_ptr_interrupt /\ Quieter(rt, rt')
        BY <1>1, <3>1, StartSound, StartTracks DEF Sound
      <3>3. Live(rt) /\ Live(rt')
        BY <3>1, <3>2 DEF Live
      <3>4. /\ rt.hw_ptr <= rt'.hw_ptr
            /\ Tracks(rt', dma) /\ Latency(rt', dma, late, Waiting)
        BY <3>2, <3>3, LiveFacts DEF Tracks, Latency
      <3> QED BY <2>1, <3>2, <3>3, <3>4, ForwardTInv
    <2>3. CASE StartError(rt, ok) # "0"
      BY <1>6, <2>1, <2>3, SameTInv DEF OSS32_WaveStart
    <2> QED BY <2>2, <2>3
  <1>7. CASE OSS32_WavePrepare
    <2>1. ret'.err # "EAGAIN" /\ UNCHANGED <<irq, late, isr, pc, w>> /\ pc = "idle"
      BY <1>2, <1>7 DEF OSS32_WavePrepare, PrepareError, Opened, TaskIdle
    <2>2. CASE PrepareError = "0"
      <3>1. rt' = snd_pcm_prepare(rt) /\ dma' = 0
        BY <1>7, <2>2 DEF OSS32_WavePrepare
      <3>2. /\ rt'.hw_ptr = 0 /\ rt'.hw_ptr_interrupt = 0 /\ rt'.appl_ptr = 0
        BY <1>1, <3>1 DEF snd_pcm_prepare, Runtime
      <3>3. Rest(pc, w)' = 0 /\ Copied(pc, w)' = 0
        BY <2>1 DEF Rest, Copied
      <3>4. 0 % PeriodSize = 0
        BY RuntimeAssumption
      <3>5. Tracks(rt, dma)' /\ Latency(rt, dma, late, Waiting)'
        BY <1>1, <2>1, <3>1, <3>2, <3>4, RuntimeAssumption DEF Tracks, Latency
      <3>6. Room(rt, Rest(pc, w))' /\ Kept(rt, Copied(pc, w))'
        BY <3>2, <3>3, RuntimeAssumption, PlaybackAssumption DEF Room, Kept
      <3> QED BY <2>1, <3>1, <3>5, <3>6, RuntimeAssumption, PlaybackAssumption DEF TInv
    <2>3. CASE PrepareError # "0"
      BY <1>7, <2>1, <2>3, SameTInv DEF OSS32_WavePrepare, hardware
    <2> QED BY <2>2, <2>3
  <1>8. CASE OSS32_WaveStop
    <2>1. /\ rt' = snd_pcm_playback_drop(rt, pointer) /\ rt.state # "CLOSED"
          /\ dma' = dma /\ late' = late /\ ret'.err # "EAGAIN"
      BY <1>2, <1>8 DEF OSS32_WaveStop, Opened, hardware
    <2>2. ~Live(rt')
      BY <1>1, <2>1, DropStops DEF Live
    <2> QED BY <2>1, <2>2, StoppedTInv
  <1>9. ASSUME NEW push \in BOOLEAN, PauseIoctl(push) PROVE TInv'
    <2>1. rt' = rt /\ ret'.err = "ENOSYS" /\ UNCHANGED <<hardware, pc, w>>
      BY <1>2, <1>9 DEF PauseIoctl, Timely
    <2> QED BY <2>1, SameTInv
  <1>10. CASE OSS32_WaveGetPosition
    <2>1. ret'.err = "0"
      BY <1>10 DEF OSS32_WaveGetPosition, Done
    <2> QED BY <1>10, <2>1, QueryTInv DEF OSS32_WaveGetPosition
  <1>11. CASE OSS32_WaveGetSpace
    <2>1. ret'.err = "0"
      BY <1>11 DEF OSS32_WaveGetSpace, Done
    <2> QED BY <1>11, <2>1, QueryTInv DEF OSS32_WaveGetSpace
  <1> QED
    BY <1>3, <1>4, <1>5, <1>6, <1>7, <1>8, <1>9, <1>10, <1>11
       DEF OSS32_WavePause, OSS32_WaveResume

(* OSS32_WaveAddBuffer asks for the room before it writes: what it is about *)
(* to hand over fits.                                                       *)
LEMMA AddBufferTInv ==
  ASSUME Timely, IInv, TInv, NEW n \in Requests, OSS32_WaveAddBuffer(n)
  PROVE  TInv'
  <1> DEFINE size == MinOf(n, StatusAvail(rt'))
  <1>1. /\ rt' = snd_pcm_status(rt) /\ rt.appl_ptr + n <= MaxFrames
        /\ UNCHANGED hardware /\ pc = "idle" /\ n \in Nat
    BY PlaybackAssumption DEF OSS32_WaveAddBuffer, Opened, TaskIdle
  <1>2. /\ size = 0 => ret'.err = "0" /\ UNCHANGED <<pc, w>>
        /\ size # 0 => /\ pc' = "write" /\ w' = [NoWrite EXCEPT !.size = size]
                       /\ ret' = ret
    BY DEF OSS32_WaveAddBuffer, Done
  <1>3. ret'.err # "EAGAIN"
    BY <1>2 DEF TInv
  <1>4. CASE size = 0
    BY <1>1, <1>2, <1>3, <1>4, QueryTInv
  <1>5. CASE ~Live(rt)
    <2>1. ~Live(rt')
      BY <1>1, <1>5, StatusSound DEF Live
    <2> QED BY <1>1, <1>3, <2>1, StoppedTInv DEF hardware
  <1>6. CASE size # 0 /\ Live(rt)
    <2>1. /\ rt' \in Runtime /\ Sound(rt') /\ rt'.state = rt.state
          /\ rt'.appl_ptr = rt.appl_ptr /\ rt.hw_ptr <= rt'.hw_ptr
          /\ Tracks(rt', dma) /\ Latency(rt', dma, late, Waiting)
          /\ Quieter(rt, rt')
          /\ rt'.appl_ptr <= rt'.hw_ptr + BufferSize
          /\ rt'.hw_ptr + BufferSize < Boundary
      BY <1>1, <1>6, StatusTracks
    <2>2. StatusAvail(rt') = rt'.hw_ptr + BufferSize - rt'.appl_ptr
      BY <1>6, <2>1, PlainAvail DEF StatusAvail, Live
    <2>3. rt'.hw_ptr \in Nat /\ rt'.appl_ptr \in Nat
      BY <2>1 DEF Runtime
    <2>4. /\ size \in Nat /\ size <= n
          /\ size <= rt'.hw_ptr + BufferSize - rt'.appl_ptr
      BY <1>1, <2>1, <2>2, <2>3, RuntimeAssumption DEF MinOf
    <2>5. Rest(pc, w)' = size /\ Copied(pc, w)' = 0
      <3> HIDE DEF size
      <3> QED BY <1>2, <1>6 DEF NoWrite, Rest, Copied
    <2> HIDE DEF size
    <2>6. Room(rt', size)
      BY <1>1, <2>1, <2>3, <2>4, RuntimeAssumption, PlaybackAssumption DEF Room
    <2>7. Kept(rt', 0)
      <3>1. Kept(rt, 0) /\ rt \in Runtime
        BY <1>1, <1>6, LiveFacts DEF Copied
      <3> QED BY <2>1, <3>1, KeptMonotone
    <2>8. Room(rt, Rest(pc, w))' /\ Kept(rt, Copied(pc, w))'
      BY <2>5, <2>6, <2>7
    <2>9. UNCHANGED <<dma, late>> /\ Waiting' = Waiting
      BY <1>1 DEF hardware, Waiting
    <2>10. Tracks(rt, dma)' /\ Latency(rt, dma, late, Waiting)'
      BY <2>1, <2>9
    <2> QED BY <1>3, <2>1, <2>8, <2>9, <2>10 DEF TInv
  <1> QED BY <1>4, <1>5, <1>6

(* However a write ends, it has no more left than it did not transfer. *)
LEMMA WriteEndsRest ==
  ASSUME w \in Writes, NEW err, NEW xfer \in 0 .. w.size, WriteEnds(err, xfer),
         err # "EAGAIN" \/ xfer > 0, ret.err # "EAGAIN"
  PROVE  /\ ret'.err # "EAGAIN"
         /\ Copied(pc', w') = 0
         /\ Rest(pc', w') \in Nat /\ Rest(pc', w') <= w.size - xfer
  <1>1. CASE xfer > 0 /\ xfer # w.size
    <2> DEFINE a == w.size - xfer
               b == w.transferred + xfer
    <2>1. /\ pc' = "write" /\ ret' = ret
          /\ w' = [NoWrite EXCEPT !.size = a, !.transferred = b]
      BY <1>1 DEF WriteEnds, WriteReturned
    <2>2. a \in Nat /\ b \in Nat
      BY DEF Writes
    <2> HIDE DEF a, b
    <2>3. w'.size = a
      BY <2>1, <2>2, MoreToWrite
    <2> QED BY <2>1, <2>2, <2>3 DEF Copied, Rest, a
  <1>2. CASE ~(xfer > 0 /\ xfer # w.size)
    <2>1. pc' = "idle" /\ ret'.err # "EAGAIN"
      BY <1>2 DEF WriteEnds, WriteReturned, WriteFailed, Done, Writes
    <2> QED BY <2>1 DEF Copied, Rest, Writes
  <1> QED BY <1>1, <1>2

(* The next chunk: with room for it, or something transferred before it, the *)
(* caller never sees EAGAIN.                                                 *)
LEMMA NextChunkRest ==
  ASSUME w \in Writes, ret.err # "EAGAIN", NEW r, Sound(r),
         NEW left \in Nat \ {0}, NEW xfer \in Nat, xfer + left <= w.size,
         NextChunk(r, left, xfer),
         xfer > 0 \/ left <= snd_pcm_playback_avail(r)
  PROVE  /\ ret'.err # "EAGAIN"
         /\ Copied(pc', w') = 0
         /\ Rest(pc', w') \in Nat /\ Rest(pc', w') <= w.size - xfer
  <1> DEFINE avail == snd_pcm_playback_avail(r)
             full == r.state # "PREPARED"
                       /\ (avail = 0 \/ (left >= XferAlign /\ avail < XferAlign))
             empty == avail = 0 /\ r.state = "PREPARED"
  <1>1. xfer \in 0 .. w.size /\ avail \in Nat /\ XferAlign \in Nat /\ w.size \in Nat
    BY AvailRange, BoundaryFacts, RuntimeAssumption DEF Writes, Sound, XferAlign
  <1>2. CASE empty
    <2>1. WriteEnds("EPIPE", xfer)
      BY <1>2 DEF NextChunk
    <2> QED BY <1>1, <2>1, WriteEndsRest
  <1>3. CASE full /\ ~empty
    <2>1. WriteEnds("EAGAIN", xfer)
      BY <1>3 DEF NextChunk
    <2>2. xfer > 0
      <3> HIDE DEF avail
      <3>1. xfer > 0 \/ left <= avail
        BY DEF avail
      <3> QED BY <1>1, <1>3, <3>1
    <2> QED BY <1>1, <2>1, <2>2, WriteEndsRest
  <1>4. CASE ~full /\ ~empty
    <2> DEFINE a == r.appl_ptr
               c == ChunkFrames(r, left)
    <2>1. /\ pc' = "copy" /\ ret' = ret
          /\ w' = [w EXCEPT !.left = left, !.xfer = xfer,
                            !.appl = a, !.frames = c]
      BY <1>4 DEF NextChunk
    <2> HIDE DEF a, c
    <2>2. w'.size = w.size /\ w'.xfer = xfer
      BY <2>1 DEF Writes
    <2> QED BY <1>1, <2>1, <2>2 DEF Rest, Copied
  <1> QED BY <1>2, <1>3, <1>4

(* The copy writes the frames of its own positions and touches none that is *)
(* still to be played.                                                      *)
LEMMA TransferKeeps ==
  ASSUME NEW r \in Runtime, NEW f \in Nat \ {0}, Kept(r, 0),
         r.appl_ptr + f <= r.hw_ptr + BufferSize,
         (r.appl_ptr % BufferSize) + f <= BufferSize,
         NEW u \in Runtime, u.hw_ptr = r.hw_ptr, u.appl_ptr = r.appl_ptr,
         u.dma_area = snd_pcm_lib_write_transfer(r.dma_area, r.appl_ptr, f)
  PROVE  Kept(u, f)
  <1> SUFFICES ASSUME NEW x \in u.hw_ptr .. (u.appl_ptr + f - 1)
               PROVE  u.dma_area[x % BufferSize] \in {x, Silent}
    BY DEF Kept
  <1>1. PICK n \in Nat \ {0}, a \in Nat, h \in Nat :
          n = BufferSize /\ a = r.appl_ptr /\ h = r.hw_ptr
    BY RuntimeAssumption DEF Runtime
  <1>2. /\ x \in Int /\ h <= x /\ x <= a + f - 1 /\ a + f <= h + n
        /\ a \in Int
    BY <1>1
  <1>3. PICK o \in 0 .. n - 1 : o = a % n
    BY <1>1
  <1>4. PICK s \in 0 .. n - 1 : s = x % n
    BY <1>2, Quotient
  <1>5. o + f <= n /\ s \in Slots
    BY <1>1, <1>3, <1>4 DEF Slots
  <1>6. u.dma_area[s] = IF s \in o .. (o + f - 1) THEN a + (s - o)
                                                 ELSE r.dma_area[s]
    BY <1>1, <1>3, <1>5 DEF snd_pcm_lib_write_transfer
  <1>7. CASE x >= a
    <2>1. PICK i \in 0 .. n - 1 : i = x - a
      BY <1>2, <1>3, <1>5, <1>7
    <2>2. x = a + i /\ o + i < n
      BY <1>2, <1>3, <1>5, <2>1
    <2>3. s = o + i
      BY <1>2, <1>3, <1>4, <2>2, MoveInLap
    <2>4. s \in o .. (o + f - 1) /\ a + (s - o) = x
      BY <1>2, <1>3, <1>4, <2>1, <2>2, <2>3
    <2> QED BY <1>1, <1>4, <1>6, <2>4
  <1>8. CASE x < a
    <2>1. s \notin o .. (o + f - 1)
      <3> SUFFICES ASSUME s \in o .. (o + f - 1) PROVE FALSE
        OBVIOUS
      <3> s \in Int /\ o \in Int /\ o >= 0 /\ s >= o /\ s < n /\ s < o + f
        OBVIOUS
      <3>1. PICK j \in 0 .. n - 1 : j = s - o
        OBVIOUS
      <3>2. (a + j) % n = o + j
        <4>1. o + j < n
          BY <3>1
        <4> QED BY <1>2, <1>3, <4>1, MoveInLap
      <3>3. PICK i \in 0 .. n - 1 : i = a + j - x /\ i # 0
        BY <1>2, <1>8, <3>1
      <3>4. x + i = a + j
        BY <1>2, <3>1, <3>3
      <3>5. (x + i) % n # s
        BY <1>2, <1>4, <3>3, MoveInLap
      <3> QED BY <1>3, <1>4, <3>1, <3>2, <3>4, <3>5
    <2>2. r.dma_area[x % BufferSize] \in {x, Silent}
      <3>1. x \in r.hw_ptr .. (r.appl_ptr + 0 - 1)
        BY <1>1, <1>2, <1>8
      <3> QED BY <3>1 DEF Kept
    <2> QED BY <1>1, <1>4, <1>6, <2>1, <2>2
  <1> QED BY <1>2, <1>7, <1>8

(* A step of the write: the card's pointers stay. *)
LEMMA WritePartTInv ==
  ASSUME TInv, UNCHANGED hardware, ret'.err # "EAGAIN", Live(rt),
         rt'.state = "PREPARED" => rt.state = "PREPARED",
         rt'.hw_ptr = rt.hw_ptr, rt'.hw_ptr_interrupt = rt.hw_ptr_interrupt,
         Room(rt', Rest(pc', w')), Kept(rt', Copied(pc', w'))
  PROVE  TInv'
  <1>1. UNCHANGED <<dma, late>> /\ Waiting' = Waiting
    BY DEF hardware, Waiting
  <1>2. Tracks(rt, dma) /\ Latency(rt, dma, late, Waiting)
    BY DEF TInv
  <1>3. Tracks(rt, dma)' /\ Latency(rt, dma, late, Waiting)'
    BY <1>1, <1>2 DEF Tracks, Latency
  <1>4. Room(rt, Rest(pc, w))' /\ Kept(rt, Copied(pc, w))'
    OBVIOUS
  <1> QED BY <1>1, <1>3, <1>4 DEF TInv

(* The first turn of snd_pcm_lib_write1 finds the room that was asked for. *)
LEMMA Write1TInv ==
  ASSUME Timely, IInv, TInv, snd_pcm_lib_write1
  PROVE  TInv'
  <1>1. /\ rt' = rt /\ UNCHANGED hardware /\ pc = "write" /\ w \in Writes
        /\ w.size \in Nat \ {0} /\ ret.err # "EAGAIN" /\ Sound(rt)
    BY DEF snd_pcm_lib_write1, IInv, WriteOK, Writes, TInv
  <1>2. CASE ~Live(rt)
    <2>1. WriteFailed("EPIPE") \/ WriteFailed("EBADFD")
      BY <1>2 DEF snd_pcm_lib_write1, Live
    <2>2. ret'.err # "EAGAIN"
      BY <2>1 DEF WriteFailed, Done
    <2> QED BY <1>1, <1>2, <2>2, StoppedTInv DEF hardware
  <1>3. CASE Live(rt)
    <2>1. /\ rt.hw_ptr \in Nat /\ rt.appl_ptr \in Nat
          /\ Room(rt, w.size) /\ Kept(rt, 0)
          /\ rt.hw_ptr + BufferSize < Boundary
          /\ rt.appl_ptr <= rt.hw_ptr + BufferSize
      <3>1. Rest(pc, w) = w.size /\ Copied(pc, w) = 0
        BY <1>1 DEF Rest, Copied
      <3> QED BY <1>3, <3>1, LiveFacts, RuntimeAssumption, BoundaryFacts DEF Tracks
    <2>2. PICK left \in Nat \ {0} : left = AlignDown(w.size) /\ left <= w.size
      BY <1>1, AlignDownRange
    <2>3. NextChunk(rt, left, 0)
      BY <1>3, <2>2 DEF snd_pcm_lib_write1, Live
    <2>4. snd_pcm_playback_avail(rt) = rt.hw_ptr + BufferSize - rt.appl_ptr
      BY <1>1, <2>1, PlainAvail
    <2>5. left <= snd_pcm_playback_avail(rt)
      BY <1>1, <2>1, <2>2, <2>4, RuntimeAssumption DEF Room
    <2>6. 0 \in Nat /\ 0 + left <= w.size
      BY <2>2
    <2>7. /\ ret'.err # "EAGAIN" /\ Copied(pc', w') = 0
          /\ Rest(pc', w') \in Nat /\ Rest(pc', w') <= w.size - 0
      BY <1>1, <2>3, <2>5, <2>6, NextChunkRest
    <2>8. Room(rt', Rest(pc', w'))
      BY <1>1, <2>1, <2>7, RuntimeAssumption, PlaybackAssumption DEF Room
    <2>9. Kept(rt', Copied(pc', w'))
      BY <1>1, <2>1, <2>7
    <2> QED BY <1>1, <1>3, <2>7, <2>8, <2>9, WritePartTInv
  <1> QED BY <1>2, <1>3

(* The copy. *)
LEMMA TransferTInv ==
  ASSUME Timely, IInv, TInv, IInv', Transfer
  PROVE  TInv'
  <1> DEFINE area == snd_pcm_lib_write_transfer(rt.dma_area, w.appl, w.frames)
  <1>1. /\ rt' = [rt EXCEPT !.dma_area = area] /\ pc = "copy" /\ pc' = "commit"
        /\ UNCHANGED <<hardware, w, ret>>
    BY DEF Transfer
  <1>2. /\ rt \in Runtime /\ rt' \in Runtime
        /\ w.frames \in Nat \ {0} /\ w.left \in Nat /\ w.xfer \in Nat
        /\ w.size \in Nat
        /\ w.frames <= w.left /\ w.xfer + w.left <= w.size
        /\ w.appl = rt.appl_ptr
        /\ (rt.appl_ptr % BufferSize) + w.frames <= BufferSize
        /\ ret'.err # "EAGAIN"
    BY <1>1 DEF IInv, Sound, WriteOK, Writes, TInv
  <1>3. /\ rt'.state = rt.state /\ rt'.hw_ptr = rt.hw_ptr
        /\ rt'.hw_ptr_interrupt = rt.hw_ptr_interrupt
        /\ rt'.appl_ptr = rt.appl_ptr
        /\ rt'.dma_area = snd_pcm_lib_write_transfer(rt.dma_area, rt.appl_ptr,
                                                     w.frames)
    BY <1>1, <1>2 DEF Runtime
  <1>4. CASE ~Live(rt)
    BY <1>1, <1>2, <1>3, <1>4, StoppedTInv DEF Live, hardware
  <1>5. CASE Live(rt)
    <2>1. Rest(pc, w) = w.size - w.xfer /\ Copied(pc, w) = 0
          /\ Rest(pc', w') = w.size - w.xfer /\ Copied(pc', w') = w.frames
      BY <1>1 DEF Rest, Copied
    <2>2. /\ Room(rt, w.size - w.xfer) /\ Kept(rt, 0)
          /\ rt.hw_ptr \in Nat /\ rt.appl_ptr \in Nat
      BY <1>5, <2>1, LiveFacts
    <2>3. Room(rt', Rest(pc', w'))
      BY <1>3, <2>1, <2>2 DEF Room
    <2>4. rt.appl_ptr + w.frames <= rt.hw_ptr + BufferSize
      BY <1>2, <2>2, RuntimeAssumption DEF Room
    <2> HIDE DEF area
    <2>5. Kept(rt', w.frames)
      BY <1>2, <1>3, <2>2, <2>4, TransferKeeps
    <2> QED BY <1>1, <1>2, <1>3, <1>5, <2>1, <2>3, <2>5, WritePartTInv
  <1> QED BY <1>4, <1>5

(* What follows the copy: the application pointer moves past it, nowhere *)
(* near the boundary, and what is left still fits.                       *)
LEMMA CommitTInv ==
  ASSUME Timely, IInv, TInv, NEW ok \in BOOLEAN, Commit(ok)
  PROVE  TInv'
  <1> DEFINE r == [rt EXCEPT !.appl_ptr = AdvanceAppl(w.appl, w.frames)]
             start == /\ r.state = "PREPARED"
                      /\ snd_pcm_playback_hw_avail(r) >= StartThreshold
             err == IF start THEN StartError(r, ok) ELSE "0"
             left == w.left - w.frames
             xfer == w.xfer + w.frames
  <1>1. /\ UNCHANGED hardware /\ pc = "commit" /\ w \in Writes
        /\ ret.err # "EAGAIN" /\ Sound(rt) /\ rt \in Runtime
    BY DEF Commit, IInv, WriteOK, TInv, Sound
  <1>2. /\ w.appl \in Nat /\ w.frames \in Nat /\ w.left \in Nat
        /\ w.xfer \in Nat /\ w.size \in Nat
        /\ w.frames > 0 /\ w.frames <= w.left /\ w.xfer + w.left <= w.size
        /\ w.appl = rt.appl_ptr
    BY <1>1 DEF IInv, WriteOK, Writes
  <1>3. CASE rt.state = "XRUN"
    <2>1. WriteEnds("EPIPE", w.xfer) /\ rt' = rt
      BY <1>3 DEF Commit
    <2>2. w.xfer \in 0 .. w.size
      BY <1>2
    <2>3. ret'.err # "EAGAIN" /\ ~Live(rt')
      BY <1>1, <1>3, <2>1, <2>2, WriteEndsRest DEF Live
    <2> QED BY <1>1, <2>3, StoppedTInv DEF hardware
  <1>4. CASE rt.state # "XRUN"
    <2>1. /\ rt' = IF start /\ err = "0" THEN snd_pcm_start(r, ok) ELSE r
          /\ IF err # "0" \/ left = 0 THEN WriteEnds(err, xfer)
                                      ELSE NextChunk(rt', left, xfer)
      BY <1>4 DEF Commit
    <2>2. AdvanceAppl(w.appl, w.frames) \in 0 .. Boundary - 1
      BY <1>2, BoundaryFacts, RuntimeAssumption DEF AdvanceAppl
    <2>3. Sound(r) /\ r.state = rt.state
      BY <1>1, <2>2, ApplSound
    <2>4. /\ err # "EAGAIN" /\ (start /\ err = "0" => ok = TRUE)
          /\ (start => r.state = "PREPARED")
          /\ left \in Nat /\ xfer \in 0 .. w.size /\ xfer \in Nat /\ xfer > 0
          /\ xfer + left <= w.size
      BY <1>2 DEF StartError
    <2>5. /\ r.hw_ptr = rt.hw_ptr /\ r.hw_ptr_interrupt = rt.hw_ptr_interrupt
          /\ r.appl_ptr = AdvanceAppl(w.appl, w.frames)
          /\ r.dma_area = rt.dma_area
      BY <1>1 DEF Runtime
    <2>6. xfer = w.xfer + w.frames
      OBVIOUS
    <2> HIDE DEF r, left, xfer, err, start
    <2>7. /\ Sound(rt') /\ rt'.appl_ptr = r.appl_ptr /\ rt'.hw_ptr = r.hw_ptr
          /\ rt'.hw_ptr_interrupt = r.hw_ptr_interrupt /\ Quieter(r, rt')
          /\ rt'.state \in {rt.state, "RUNNING"}
          /\ rt'.state # rt.state => rt.state = "PREPARED"
      <3>1. CASE start /\ err = "0"
        BY <2>1, <2>3, <2>4, <3>1, StartSound, StartTracks
      <3>2. CASE ~(start /\ err = "0")
        BY <2>1, <2>3, <3>2 DEF Quieter
      <3> QED BY <3>1, <3>2
    <2>8. /\ ret'.err # "EAGAIN" /\ Copied(pc', w') = 0
          /\ Rest(pc', w') \in Nat /\ Rest(pc', w') <= w.size - xfer
      <3>1. CASE err # "0" \/ left = 0
        BY <1>1, <2>1, <2>4, <3>1, WriteEndsRest
      <3>2. CASE ~(err # "0" \/ left = 0)
        <4>1. NextChunk(rt', left, xfer) /\ left \in Nat \ {0}
          BY <2>1, <2>4, <3>2
        <4> QED BY <1>1, <2>4, <2>7, <4>1, NextChunkRest
      <3> QED BY <3>1, <3>2
    <2>9. CASE ~Live(rt)
      BY <1>1, <2>7, <2>8, <2>9, StoppedTInv DEF Live, hardware
    <2>10. CASE Live(rt)
      <3>1. Rest(pc, w) = w.size - w.xfer /\ Copied(pc, w) = w.frames
        BY <1>1 DEF Rest, Copied
      <3>2. /\ Room(rt, w.size - w.xfer) /\ Kept(rt, w.frames)
            /\ rt.hw_ptr \in Nat /\ rt.appl_ptr \in Nat
        BY <2>10, <3>1, LiveFacts
      <3>3. AdvanceAppl(w.appl, w.frames) = rt.appl_ptr + w.frames
        <4>1. rt.appl_ptr + w.frames < Boundary
          BY <1>2, <3>2, RuntimeAssumption, PlaybackAssumption, BoundaryFacts
             DEF Room, Timely
        <4> QED BY <1>2, <3>2, <4>1, BoundaryFacts DEF AdvanceAppl
      <3>4. Room(rt', Rest(pc', w'))
        BY <1>2, <2>5, <2>6, <2>7, <2>8, <3>2, <3>3, RuntimeAssumption,
           PlaybackAssumption DEF Room
      <3>5. Kept(r, 0)
        BY <1>2, <2>5, <3>2, <3>3 DEF Kept
      <3>6. Kept(rt', 0)
        <4>1. r.hw_ptr <= rt'.hw_ptr
          BY <2>5, <2>7, <3>2
        <4> QED BY <2>3, <2>7, <3>5, <4>1, KeptMonotone DEF Sound
      <3>7. rt'.state = "PREPARED" => rt.state = "PREPARED"
        BY <2>7
      <3> QED
        BY <1>1, <2>5, <2>7, <2>8, <2>10, <3>4, <3>6, <3>7, WritePartTInv
    <2> QED BY <2>9, <2>10
  <1> QED BY <1>3, <1>4

(* The card moves on, and raises its line at the end of a period. *)
LEMMA DmaTInv ==
  ASSUME Timely, IInv, TInv, DmaAdvance
  PROVE  TInv'
  <1>1. /\ rt.state = "RUNNING" /\ dma < MaxFrames + BufferSize
        /\ Waiting => late < MaxLatency
        /\ dma' = dma + 1
        /\ irq' = (irq \/ (dma + 1) % PeriodSize = 0)
        /\ late' = IF Waiting THEN late + 1 ELSE 0
        /\ UNCHANGED <<rt, isr, pc, w, ret>>
        /\ late \in Nat /\ dma \in Nat
    BY DEF DmaAdvance, DmaOn, IInv, Sound
  <1>2. Live(rt) /\ Live(rt)'
    BY <1>1 DEF Live
  <1>3. /\ rt.hw_ptr \in Nat /\ rt.hw_ptr_interrupt \in Nat
        /\ Tracks(rt, dma) /\ Latency(rt, dma, late, Waiting)
        /\ Room(rt, Rest(pc, w)) /\ Kept(rt, Copied(pc, w))
    BY <1>2, LiveFacts
  <1>4. Room(rt, Rest(pc, w))' /\ Kept(rt, Copied(pc, w))'
    BY <1>1, <1>3 DEF Room, Rest, Kept, Copied
  <1>5. Tracks(rt, dma)'
    BY <1>1, <1>3 DEF Tracks
  <1>6. CASE Waiting
    <2>1. Waiting'
      BY <1>1, <1>6 DEF Waiting
    <2>2. Latency(rt, dma, late, Waiting)'
      BY <1>1, <1>3, <1>6, <2>1, RuntimeAssumption DEF Latency
    <2> QED BY <1>1, <1>2, <1>4, <1>5, <1>6, <2>2, RuntimeAssumption,
               PlaybackAssumption DEF TInv
  <1>7. CASE ~Waiting
    <2>1. PICK i \in Int, p \in Nat \ {0} :
            i = rt.hw_ptr_interrupt /\ p = PeriodSize
      BY <1>3, RuntimeAssumption
    <2>2. dma < i + p /\ i % p = 0
      BY <1>3, <1>7, <2>1 DEF Latency, Tracks
    <2>3. (i + p) % p = 0
      BY <2>2, NextMultiple
    <2>4. ~(Waiting') => dma + 1 < i + p
      <3>1. ~(Waiting') => (dma + 1) % p # 0
        BY <1>1, <2>1 DEF Waiting
      <3> QED BY <1>1, <2>1, <2>2, <2>3, <3>1
    <2>5. Latency(rt, dma, late, Waiting)'
      BY <1>1, <1>7, <2>1, <2>2, <2>4 DEF Latency
    <2> QED BY <1>1, <1>2, <1>4, <1>5, <1>7, <2>5, RuntimeAssumption,
               PlaybackAssumption DEF TInv
  <1> QED BY <1>6, <1>7

(* The handler: acknowledging changes nothing, and reporting a period brings *)
(* hw_ptr up to the card or finds it in the period it was in.                *)
LEMMA InterruptTInv ==
  ASSUME Timely, IInv, TInv, IInv', Interrupt
  PROVE  TInv'
  <1>1. CASE IsrAck
    <2>1. UNCHANGED <<rt, dma, late, pc, w, ret>> /\ Waiting /\ Waiting'
      BY <1>1 DEF IsrAck, Waiting
    <2>2. Live(rt) => Latency(rt, dma, late, Waiting)'
      BY <2>1 DEF TInv, Latency
    <2> QED BY <2>1, <2>2 DEF TInv, Live, Tracks, Room, Rest, Kept, Copied
  <1>2. CASE snd_pcm_period_elapsed
    <2> DEFINE u == snd_pcm_update_hw_ptr_interrupt(rt, dma % BufferSize)
    <2>1. /\ rt' = IF Running(rt) THEN u ELSE rt
          /\ late' = 0 /\ UNCHANGED <<dma, irq, pc, w, ret>>
          /\ ret'.err # "EAGAIN" /\ rt' \in Runtime /\ dma \in Nat
      BY <1>2 DEF snd_pcm_period_elapsed, pointer, TInv, IInv, Sound
    <2>2. dma' <= MaxFrames + BufferSize /\ late' <= MaxLatency
      BY <2>1, PlaybackAssumption DEF TInv
    <2>3. CASE ~Live(rt')
      BY <2>1, <2>2, <2>3 DEF TInv, Live
    <2>4. CASE Live(rt') /\ ~Running(rt)
      <3>1. rt' = rt /\ dma = 0 /\ rt.state = "PREPARED" /\ Live(rt)
        BY <2>1, <2>4 DEF Running, Live, TInv
      <3>2. /\ Tracks(rt, dma) /\ Room(rt, Rest(pc, w))
            /\ Kept(rt, Copied(pc, w)) /\ rt.hw_ptr_interrupt \in Nat
        BY <3>1, LiveFacts
      <3>3. Tracks(rt, dma)' /\ Room(rt, Rest(pc, w))' /\ Kept(rt, Copied(pc, w))'
        BY <2>1, <3>1, <3>2 DEF Tracks, Room, Rest, Kept, Copied
      <3>4. Latency(rt, dma, late, Waiting)'
        BY <2>1, <3>1, <3>2, RuntimeAssumption DEF Latency
      <3> QED BY <2>1, <2>2, <3>1, <3>3, <3>4 DEF TInv
    <2>5. CASE Live(rt') /\ Running(rt)
      <3>1. Live(rt) /\ rt' = u /\ rt.state = "RUNNING"
        BY <2>1, <2>5 DEF Running, Live
      <3>2. /\ rt \in Runtime /\ rt.hw_ptr \in Nat /\ rt.hw_ptr_interrupt \in Nat
            /\ Tracks(rt, dma) /\ Room(rt, Rest(pc, w))
            /\ Kept(rt, Copied(pc, w)) /\ Rest(pc, w) \in Nat
            /\ Copied(pc, w) \in Nat
        BY <3>1, LiveFacts, RestRange
      <3>3. u.appl_ptr = rt.appl_ptr /\ u.state \in {rt.state, "XRUN"}
        BY PointerRange, InterruptSound DEF IInv, pointer
      <3>4. rt.appl_ptr <= dma + BufferSize
        BY <3>1, LiveFacts, RuntimeAssumption DEF Tracks
      <3>5. \/ u = rt /\ dma < rt.hw_ptr_interrupt + PeriodSize
            \/ u.state = "XRUN" /\ rt.appl_ptr <= dma
            \/ /\ u.state = rt.state /\ u.hw_ptr = dma
               /\ u.hw_ptr_interrupt % PeriodSize = 0
               /\ u.hw_ptr_interrupt <= dma
               /\ dma < u.hw_ptr_interrupt + PeriodSize
               /\ Quieter(rt, u)
        BY <3>1, <3>4, LiveFacts, InterruptTracks DEF IInv, Tracks
      <3> HIDE DEF u
      <3>6. Quieter(rt, rt)
        BY DEF Quieter
      <3>7. /\ rt'.state = "RUNNING" /\ rt.hw_ptr <= rt'.hw_ptr
            /\ Quieter(rt, rt') /\ Tracks(rt', dma)
            /\ dma < rt'.hw_ptr_interrupt + PeriodSize
        BY <2>1, <2>5, <3>1, <3>2, <3>3, <3>5, <3>6 DEF Tracks, Live
      <3>8. Room(rt', Rest(pc, w)) /\ Kept(rt', Copied(pc, w))
        BY <2>1, <3>1, <3>2, <3>3, <3>7, RoomMonotone, KeptMonotone
      <3>9. Rest(pc, w)' = Rest(pc, w) /\ Copied(pc, w)' = Copied(pc, w)
        BY <2>1 DEF Rest, Copied
      <3>10. Room(rt, Rest(pc, w))' /\ Kept(rt, Copied(pc, w))' /\ Tracks(rt, dma)'
        BY <2>1, <3>7, <3>8, <3>9
      <3>11. Latency(rt, dma, late, Waiting)'
        <4>1. rt'.hw_ptr_interrupt \in Nat
          BY <2>1 DEF Runtime
        <4> QED BY <2>1, <3>7, <4>1, RuntimeAssumption DEF Latency
      <3> QED BY <2>1, <2>2, <3>7, <3>10, <3>11 DEF TInv
    <2> QED BY <2>3, <2>4, <2>5
  <1> QED BY <1>1, <1>2 DEF Interrupt

(* Every step keeps it. *)
LEMMA NextTInv == Timely /\ IInv /\ TInv /\ IInv' /\ [Next]_vars => TInv'
  <1> SUFFICES ASSUME Timely, IInv, TInv, IInv', [Next]_vars PROVE TInv'
    OBVIOUS
  <1>1. CASE Call
    BY <1>1, CallTInv, AddBufferTInv DEF Call
  <1>2. CASE WriteStep
    BY <1>2, Write1TInv, TransferTInv, CommitTInv DEF WriteStep
  <1>3. CASE DmaAdvance \/ Interrupt
    BY <1>3, DmaTInv, InterruptTInv
  <1>4. CASE UNCHANGED vars
    BY <1>4, SameTInv DEF vars, hardware, TInv
  <1> QED BY <1>1, <1>2, <1>3, <1>4 DEF Next

(* TInv is an invariant of every timely session. *)
THEOREM TimelyInvariance == Timely => (Spec => []TInv)
  <1> SUFFICES ASSUME Timely PROVE Spec => []TInv
    OBVIOUS
  <1>1. Init => TInv
    BY InitTInv
  <1>2. IInv /\ TInv /\ IInv' /\ [Next]_vars => TInv'
    BY NextTInv
  <1> QED BY <1>1, <1>2, Invariance, PTL DEF Spec

(* While the stream runs, Ahead is the distance from the card to the end of *)
(* what was written, or says that the card is past it.                      *)
LEMMA AheadMeaning ==
  ASSUME Timely, IInv, TInv, Running(rt)
  PROVE  /\ rt.appl_ptr > dma => Ahead = rt.appl_ptr - dma
         /\ Underrun <=> rt.appl_ptr <= dma
         /\ (dma - rt.hw_ptr) % Boundary = dma - rt.hw_ptr
  <1>1. Live(rt)
    BY DEF Running, Live
  <1>2. PICK n \in Nat \ {0}, a \in Nat, d \in Nat, h \in Nat, b \in Nat \ {0} :
          /\ n = Boundary /\ a = rt.appl_ptr /\ d = dma /\ h = rt.hw_ptr
          /\ b = BufferSize
    BY <1>1, LiveFacts, BoundaryFacts, RuntimeAssumption
  <1>3. /\ h <= d /\ d < h + b /\ d + b < n /\ a <= h + b /\ 2 * b <= n
    BY <1>1, <1>2, LiveFacts, BoundaryFacts DEF Tracks
  <1>4. PICK e \in Int, x \in Int : e = a - d /\ x = d - h
    OBVIOUS
  <1>5. x % n = x
    BY <1>3, <1>4, SmallRemainder
  <1>6. CASE a > d
    <2>1. e % n = e
      BY <1>3, <1>4, <1>6, SmallRemainder
    <2>2. Ahead = e
      BY <1>2, <1>4, <2>1 DEF Ahead
    <2> QED BY <1>2, <1>3, <1>4, <1>5, <1>6, <2>2 DEF Underrun
  <1>7. CASE a = d
    <2>1. e % n = 0
      BY <1>4, <1>7, SmallRemainder
    <2>2. Ahead = 0
      BY <1>2, <1>4, <2>1 DEF Ahead
    <2> QED BY <1>2, <1>3, <1>4, <1>5, <1>7, <2>2 DEF Underrun
  <1>8. CASE a < d
    <2>1. e % n = e + n
      BY <1>3, <1>4, <1>8, SmallRemainder
    <2>2. Ahead = e + n
      BY <1>2, <1>4, <2>1 DEF Ahead
    <2> QED BY <1>2, <1>3, <1>4, <1>5, <1>8, <2>2 DEF Underrun
  <1> QED BY <1>2, <1>6, <1>7, <1>8

(* What the invariant says of a running stream. *)
LEMMA TInvMeaning ==
  ASSUME Timely, IInv, TInv
  PROVE  HwPtrTracksDma /\ CopiesOverPlayed /\ QueuedOrSilent /\ NeverBlocks
  <1>1. NeverBlocks
    BY DEF TInv, NeverBlocks
  <1>2. CASE ~Running(rt)
    BY <1>1, <1>2 DEF HwPtrTracksDma, CopiesOverPlayed, QueuedOrSilent
  <1>3. CASE Running(rt)
    <2>1. Live(rt)
      BY <1>3 DEF Running, Live
    <2>2. PICK a \in Nat, d \in Nat, h \in Nat :
            a = rt.appl_ptr /\ d = dma /\ h = rt.hw_ptr
      BY <2>1, LiveFacts
    <2>3. h <= d /\ d < h + BufferSize /\ d + BufferSize < Boundary
          /\ a <= h + BufferSize
      BY <2>1, <2>2, LiveFacts DEF Tracks
    <2>4. HwPtrTracksDma
      BY <1>3, <2>2, <2>3, AheadMeaning, RuntimeAssumption DEF HwPtrTracksDma
    <2>5. CopiesOverPlayed
      <3> SUFFICES ASSUME pc \in {"copy", "commit"}, ~Underrun
                   PROVE  Ahead + w.frames <= BufferSize
        BY DEF CopiesOverPlayed
      <3>1. /\ w.frames \in Nat /\ w.left \in Nat /\ w.xfer \in Nat
            /\ w.size \in Nat /\ w.frames <= w.left
            /\ w.xfer + w.left <= w.size
        BY DEF IInv, WriteOK, Writes
      <3>2. Room(rt, w.size - w.xfer)
        BY <2>1, LiveFacts DEF Rest
      <3>3. a + w.frames <= h + BufferSize
        BY <2>2, <3>1, <3>2, RuntimeAssumption DEF Room
      <3>4. Ahead = a - d
        BY <1>3, <2>2, AheadMeaning
      <3> QED BY <2>3, <3>1, <3>3, <3>4, RuntimeAssumption
    <2>6. QueuedOrSilent
      <3> SUFFICES ASSUME ~Underrun, NEW i \in 0 .. Ahead - 1
                   PROVE  rt.dma_area[(dma + i) % BufferSize]
                            \in {(dma + i) % Boundary, Silent}
        BY DEF QueuedOrSilent
      <3>1. Ahead = a - d /\ a > d
        BY <1>3, <2>2, AheadMeaning
      <3>2. PICK x \in Nat : x = d + i
        BY <3>1
      <3>3. x \in h .. (a - 1) /\ x < Boundary
        BY <2>3, <3>1, <3>2, RuntimeAssumption, BoundaryFacts
      <3>4. x % Boundary = x
        <4>1. PICK n \in Nat \ {0} : n = Boundary
          BY BoundaryFacts, RuntimeAssumption
        <4> QED BY <3>3, <4>1, SmallRemainder
      <3>5. x \in rt.hw_ptr .. (rt.appl_ptr + Copied(pc, w) - 1)
        BY <2>2, <3>3, RestRange
      <3>6. rt.dma_area[x % BufferSize] \in {x, Silent}
        BY <2>1, <3>5, LiveFacts DEF Kept
      <3> QED BY <2>2, <3>2, <3>4, <3>6
    <2> QED BY <1>1, <2>4, <2>5, <2>6
  <1> QED BY <1>2, <1>3

(***************************************************************************)
(* The hardware pointer inferred from a position inside the ring is never  *)
(* a lap behind the card, although the interrupt may come late and a query *)
(* may fall anywhere between two interrupts.                               *)
(***************************************************************************)
THEOREM HwPtrStaysClose == Timely => (Spec => []HwPtrTracksDma)
  <1> SUFFICES ASSUME Timely PROVE Spec => []HwPtrTracksDma
    OBVIOUS
  <1>1. IInv /\ TInv => HwPtrTracksDma
    BY TInvMeaning
  <1> QED BY <1>1, Invariance, TimelyInvariance, PTL

(* The unlocked copy of snd_pcm_lib_write1 only overwrites frames the card *)
(* has played.                                                             *)
THEOREM CopiesStayBehindCard == Timely => (Spec => []CopiesOverPlayed)
  <1> SUFFICES ASSUME Timely PROVE Spec => []CopiesOverPlayed
    OBVIOUS
  <1>1. IInv /\ TInv => CopiesOverPlayed
    BY TInvMeaning
  <1> QED BY <1>1, Invariance, TimelyInvariance, PTL

(* Up to the end of what was written, the card plays the frame of each *)
(* position or silence, never old audio.                               *)
THEOREM CardPlaysWhatWasWritten == Timely => (Spec => []QueuedOrSilent)
  <1> SUFFICES ASSUME Timely PROVE Spec => []QueuedOrSilent
    OBVIOUS
  <1>1. IInv /\ TInv => QueuedOrSilent
    BY TInvMeaning
  <1> QED BY <1>1, Invariance, TimelyInvariance, PTL

(* The write of OSS32_WaveAddBuffer never finds the ring too full for what *)
(* the STATUS query promised.                                              *)
THEOREM WritesNeverBlock == Timely => (Spec => []NeverBlocks)
  <1> SUFFICES ASSUME Timely PROVE Spec => []NeverBlocks
    OBVIOUS
  <1>1. IInv /\ TInv => NeverBlocks
    BY TInvMeaning
  <1> QED BY <1>1, Invariance, TimelyInvariance, PTL

(* The only step from RUNNING to XRUN is the report of a period in which *)
(* the card has played all that was written.                             *)
LEMMA XrunStep ==
  ASSUME Timely, IInv, TInv, [Next]_vars,
         rt.state = "RUNNING", rt'.state = "XRUN"
  PROVE  isr = "acked" /\ Underrun
  <1>1. /\ Sound(rt) /\ rt \in Runtime /\ pointer \in 0 .. BufferSize - 1
        /\ Live(rt) /\ Running(rt)
    BY PointerRange DEF IInv, Sound, Live, Running
  <1>2. CASE snd_pcm_period_elapsed
    <2> DEFINE u == snd_pcm_update_hw_ptr_interrupt(rt, dma % BufferSize)
    <2>1. rt' = u /\ isr = "acked"
      BY <1>1, <1>2 DEF snd_pcm_period_elapsed, pointer
    <2>2. rt.appl_ptr <= dma + BufferSize
      BY <1>1, LiveFacts, RuntimeAssumption DEF Tracks
    <2>3. \/ u = rt \/ rt.appl_ptr <= dma \/ u.state = rt.state
      BY <1>1, <2>2, LiveFacts, InterruptTracks DEF Tracks
    <2> HIDE DEF u
    <2>4. rt.appl_ptr <= dma
      BY <2>1, <2>3
    <2> QED BY <1>1, <2>1, <2>4, AheadMeaning
  <1>3. snd_pcm_status(rt).state = rt.state
    BY StatusSound
  <1>4. snd_pcm_playback_drop(rt, pointer).state # "XRUN"
    BY <1>1, DropStops
  <1>5. snd_pcm_playback_drop(rt, pointer) \in Runtime
    BY <1>1, DropSound DEF Sound
  <1>6. ~(Call /\ ~OSS32_WaveClose)
    <2> SUFFICES ASSUME Call, ~OSS32_WaveClose PROVE FALSE
      OBVIOUS
    <2>1. CASE OSS32_WaveOpen
      BY <2>1 DEF OSS32_WaveOpen
    <2>2. ASSUME NEW ok \in BOOLEAN, OSS32_WaveSetHwParams(ok) PROVE FALSE
      BY <2>2 DEF OSS32_WaveSetHwParams
    <2>3. ASSUME NEW ok \in BOOLEAN, OSS32_WaveStart(ok) PROVE FALSE
      BY <2>3 DEF OSS32_WaveStart, StartError
    <2>4. CASE OSS32_WavePrepare
      BY <2>4 DEF OSS32_WavePrepare, PrepareError
    <2>5. CASE OSS32_WaveStop
      BY <1>4, <2>5 DEF OSS32_WaveStop
    <2>6. ASSUME NEW push \in BOOLEAN, PauseIoctl(push) PROVE FALSE
      BY <2>6 DEF PauseIoctl, Timely
    <2>7. CASE OSS32_WaveGetPosition \/ OSS32_WaveGetSpace
      BY <1>3, <2>7 DEF OSS32_WaveGetPosition, OSS32_WaveGetSpace
    <2>8. ASSUME NEW n \in Requests, OSS32_WaveAddBuffer(n) PROVE FALSE
      BY <1>3, <2>8 DEF OSS32_WaveAddBuffer
    <2> QED BY <2>1, <2>2, <2>3, <2>4, <2>5, <2>6, <2>7, <2>8
         DEF Call, OSS32_WavePause, OSS32_WaveResume
  <1>7. ~OSS32_WaveClose
    <2> DEFINE d == snd_pcm_playback_drop(rt, pointer)
    <2>1. OSS32_WaveClose => rt' = [d EXCEPT !.state = "CLOSED"]
      BY DEF OSS32_WaveClose
    <2>2. d \in Runtime
      BY <1>5
    <2> HIDE DEF d
    <2> QED BY <2>1, <2>2 DEF Runtime
  <1>8. ~WriteStep
    <2>1. ~snd_pcm_lib_write1
      BY DEF snd_pcm_lib_write1
    <2>2. ~Transfer
      BY <1>1 DEF Transfer, Runtime
    <2>3. ASSUME NEW ok \in BOOLEAN, Commit(ok) PROVE FALSE
      <3> DEFINE r == [rt EXCEPT !.appl_ptr = AdvanceAppl(w.appl, w.frames)]
      <3>1. r.state = "RUNNING"
        BY <1>1 DEF Runtime
      <3>2. rt' = r
        BY <2>3, <3>1 DEF Commit
      <3> QED BY <3>1, <3>2
    <2> QED BY <2>1, <2>2, <2>3 DEF WriteStep
  <1>9. ~DmaAdvance /\ ~IsrAck /\ ~UNCHANGED vars
    BY DEF DmaAdvance, IsrAck, vars
  <1> QED BY <1>2, <1>6, <1>7, <1>8, <1>9 DEF Next, Interrupt

(* snd_pcm_update_hw_ptr never stops the stream, and the period interrupt *)
(* stops it only for an underrun that has happened.                       *)
THEOREM XrunsAreReal == Timely => (Spec => XrunJustified)
  <1> SUFFICES ASSUME Timely PROVE Spec => XrunJustified
    OBVIOUS
  <1>1. IInv /\ TInv /\ [Next]_vars
          => [rt.state = "RUNNING" /\ rt'.state = "XRUN"
                => isr = "acked" /\ Underrun]_vars
    BY XrunStep
  <1> QED BY <1>1, Invariance, TimelyInvariance, PTL DEF Spec, XrunJustified
=============================================================================
