------------------------------ MODULE RawMidi ------------------------------
(***************************************************************************)
(* A raw MIDI port: the substream buffers and file operations of           *)
(* alsa/core/rawmidi.c over the MPU-401 UART of                            *)
(* alsa/drivers/mpu401/mpu401_uart.c.                                      *)
(*                                                                         *)
(* One task at a time runs the file operations (tasks do not preempt each  *)
(* other in the kernel) and the interrupt of the UART may come between any *)
(* two critical sections: a spin lock of lib32 disables interrupts, so a   *)
(* section under a lock is one step.  The UART interrupts for received     *)
(* bytes only.  The timer that should retry a busy transmitter is never    *)
(* started: add_timer of lib32/timer.c is empty.                           *)
(***************************************************************************)
EXTENDS Naturals, Sequences, FiniteSets

CONSTANTS Bytes,       \* the values of a MIDI byte that are told apart
          ActiveSensing, \* 0xfe
          Stale,       \* what a slot holds that holds no unread byte
          Size,        \* buffer_size
          TxMax,       \* iterations of one transmit loop (256)
          RxMax,       \* iterations of one receive loop (128)
          FifoSize,    \* bytes the UART holds until they are read
          Requests     \* byte counts of the reads and writes
ASSUME RawMidiAssumption ==
  /\ ActiveSensing \in Bytes /\ Stale \notin Bytes
  /\ Size \in Nat \ {0}
  /\ TxMax \in Nat \ {0} /\ RxMax \in Nat \ {0} /\ FifoSize \in Nat
  /\ Requests \subseteq Nat \ {0}

VARIABLES opened,    \* substreams that are open
          runtime,   \* substreams whose runtime is allocated
          mode,      \* bits of mpu->mode
          uart,      \* the device is in UART mode
          out, inp,  \* output and input runtime: buf, hw_ptr, appl_ptr, avail
          rx,        \* bytes the UART has received and still holds
          wire,      \* the byte the UART is sending; it takes the next one after
          got,       \* the bytes the last piece of a read copied
          cpu,       \* where the task and the interrupt are
          job        \* arguments of the task's call

vars == <<opened, runtime, mode, uart, out, inp, rx, wire, got, cpu, job>>
ringVars == <<out, inp, wire, got>>
portVars == <<opened, runtime, uart>>

Streams == {"in", "out"}
Bits == {"INPUT", "OUTPUT", "INPUT_TRIGGER", "OUTPUT_TRIGGER", "RX_LOOP", "TX_LOOP"}
Contexts == {"task", "isr"}
Smaller(a, b) == IF a <= b THEN a ELSE b

Fresh(avail) == [buf |-> [i \in 0 .. Size - 1 |-> Stale],
                 hw_ptr |-> 0, appl_ptr |-> 0, avail |-> avail]
Idle == [at |-> "idle", max |-> 0, byte |-> Stale]
NoJob == [msg |-> <<>>, n |-> 0, call |-> "none"]

Init ==
  /\ opened = {} /\ runtime = {} /\ mode = {} /\ uart = FALSE
  /\ out = Fresh(Size) /\ inp = Fresh(0)
  /\ rx = <<>>
  /\ wire = <<>> /\ got = <<>>
  /\ cpu = [c \in Contexts |-> Idle] /\ job = NoJob

(* The task runs only while no interrupt is being handled. *)
Runs(c) == c = "task" => cpu["isr"].at = "idle"
At(c, label) == Runs(c) /\ cpu[c].at = label
Goto(c, label) == cpu' = [cpu EXCEPT ![c].at = label]
Leave(c, label) == cpu' = [cpu EXCEPT ![c] = [Idle EXCEPT !.at = label]]
Enter(c, label, max) == cpu' = [cpu EXCEPT ![c].at = label, ![c].max = max]

(***************************************************************************)
(* The buffers.                                                            *)
(***************************************************************************)
Queued == [i \in 1 .. Size - out.avail |-> out.buf[(out.hw_ptr + i - 1) % Size]]
Stored == [i \in 1 .. inp.avail |-> inp.buf[(inp.appl_ptr + i - 1) % Size]]

(* snd_rawmidi_kernel_write1: the n first bytes of msg, in one or two pieces. *)
Written(r, msg, n) ==
  [r EXCEPT !.buf = [i \in 0 .. Size - 1 |->
                       LET k == (i + Size - r.appl_ptr) % Size
                       IN  IF k < n THEN msg[k + 1] ELSE r.buf[i]],
            !.appl_ptr = (@ + n) % Size,
            !.avail = @ - n]

(* snd_rawmidi_transmit_ack *)
Acked(r) == [r EXCEPT !.buf[r.hw_ptr] = Stale,
                      !.hw_ptr = (@ + 1) % Size, !.avail = @ + 1]

(* snd_rawmidi_receive of one byte, with room. *)
Received(r, b) ==
  [r EXCEPT !.buf[r.hw_ptr] = b, !.hw_ptr = (@ + 1) % Size, !.avail = @ + 1]

(* One piece of snd_rawmidi_kernel_read1. *)
Piece(r, n) == Smaller(Smaller(Size - r.appl_ptr, n), r.avail)
Consumed(r, n) ==
  [r EXCEPT !.buf = [i \in 0 .. Size - 1 |->
                       IF (i + Size - r.appl_ptr) % Size < n THEN Stale ELSE r.buf[i]],
            !.appl_ptr = (@ + n) % Size, !.avail = @ - n]

(***************************************************************************)
(* snd_rawmidi_kernel_open and the open operations of the UART, which is   *)
(* switched to UART mode when no other direction has done so.  An open is  *)
(* of one direction and without O_APPEND (soundmidi.c); one that finds no  *)
(* memory for the runtime or its buffer frees what it has got and leaves   *)
(* all of this as it was, which is no step.                                *)
(***************************************************************************)
UartCommand(other, on) ==
  IF other \in mode
  THEN UNCHANGED <<uart, rx>>
  ELSE uart' = on /\ rx' = <<>>

Open(s) ==
  /\ At("task", "idle") /\ s \notin opened
  /\ runtime' = runtime \cup {s}
  /\ IF s = "out" THEN out' = Fresh(Size) /\ UNCHANGED inp
                  ELSE inp' = Fresh(0) /\ UNCHANGED out
  /\ Goto("task", IF s = "out" THEN "open_out" ELSE "open_in")
  /\ UNCHANGED <<opened, mode, uart, rx, wire, got, job>>

snd_mpu401_uart_output_open ==
  /\ At("task", "open_out")
  /\ UartCommand("INPUT", TRUE)
  /\ mode' = mode \cup {"OUTPUT"} /\ opened' = opened \cup {"out"}
  /\ Goto("task", "idle")
  /\ UNCHANGED <<runtime, ringVars, job>>

snd_mpu401_uart_input_open ==
  /\ At("task", "open_in")
  /\ UartCommand("OUTPUT", TRUE)
  /\ mode' = mode \cup {"INPUT"} /\ opened' = opened \cup {"in"}
  /\ Goto("task", "idle")
  /\ UNCHANGED <<runtime, ringVars, job>>

(***************************************************************************)
(* Transmission: snd_mpu401_uart_output_write, entered by the task after   *)
(* it queued bytes and by every interrupt.                                 *)
(***************************************************************************)
AfterTx(c) == IF c = "isr" THEN "idle"
              ELSE IF job.call = "release" THEN "drain" ELSE "written"

TxEnter(c) ==
  /\ At(c, "tx_enter")
  /\ IF "OUTPUT_TRIGGER" \notin mode \/ "TX_LOOP" \in mode
        \/ (c = "isr" /\ "OUTPUT" \notin mode)
     THEN Leave(c, AfterTx(c)) /\ UNCHANGED mode
     ELSE Enter(c, "tx", TxMax) /\ mode' = mode \cup {"TX_LOOP"}
  /\ UNCHANGED <<portVars, ringVars, rx, job>>

(* Mutant: the byte is acknowledged when the UART did not take it. *)
TxByteAlwaysAcked(c) ==
  /\ At(c, "tx")
  /\ out.avail < Size
  /\ out' = Acked(out)
  /\ wire' = IF wire = <<>> THEN <<out.buf[out.hw_ptr]>> ELSE wire
  /\ cpu' = [cpu EXCEPT ![c].max = @ - 1, ![c].at = IF cpu[c].max = 1 THEN "tx_done" ELSE "tx"]
  /\ UNCHANGED <<portVars, mode, inp, got, rx, job>>

(* A turn of the loop: peek, wait for the UART, send, acknowledge. *)
TxByte(c) ==
  /\ At(c, "tx")
  /\ out.avail < Size
  /\ IF wire = <<>>
     THEN out' = Acked(out) /\ wire' = <<out.buf[out.hw_ptr]>>
     ELSE UNCHANGED <<out, wire>>
  /\ cpu' = [cpu EXCEPT ![c].max = @ - 1, ![c].at = IF cpu[c].max = 1 THEN "tx_done" ELSE "tx"]
  /\ UNCHANGED <<portVars, mode, inp, got, rx, job>>

TxEmpty(c) ==
  /\ At(c, "tx")
  /\ out.avail >= Size
  /\ Goto(c, "tx_done")
  /\ UNCHANGED <<portVars, mode, ringVars, rx, job>>

(* Mutant: the end of the loop takes the trigger away. *)
TxDoneUntriggers(c) ==
  /\ At(c, "tx_done")
  /\ mode' = mode \ {"TX_LOOP", "OUTPUT_TRIGGER"}
  /\ Leave(c, AfterTx(c))
  /\ UNCHANGED <<portVars, ringVars, rx, job>>

(* Mutant: the end of the loop leaves its bit set. *)
TxDoneKeepsLoop(c) ==
  /\ At(c, "tx_done")
  /\ Leave(c, AfterTx(c))
  /\ UNCHANGED <<portVars, mode, ringVars, rx, job>>

TxDone(c) ==
  /\ At(c, "tx_done")
  /\ mode' = mode \ {"TX_LOOP"}
  /\ Leave(c, AfterTx(c))
  /\ UNCHANGED <<portVars, ringVars, rx, job>>

(***************************************************************************)
(* snd_rawmidi_write on a non-blocking file.  The bytes that fit are       *)
(* copied under the lock; the transmitter is started after it.             *)
(***************************************************************************)
Write(msg) ==
  /\ At("task", "idle") /\ "out" \in opened
  /\ job' = [msg |-> msg, n |-> 0, call |-> "write"]
  /\ Goto("task", "write")
  /\ UNCHANGED <<portVars, mode, ringVars, rx>>

snd_rawmidi_kernel_write1 ==
  /\ At("task", "write")
  /\ IF job.msg = <<>> \/ (out.avail = 0 /\ job.call = "write")
     THEN Goto("task", "idle") /\ job' = NoJob /\ UNCHANGED out
     ELSE LET n == Smaller(Len(job.msg), out.avail)
          IN  /\ out' = Written(out, job.msg, n)
              /\ job' = [job EXCEPT !.n = n, !.msg = SubSeq(@, n + 1, Len(@))]
              /\ Goto("task", "trigger_out")
  /\ UNCHANGED <<portVars, mode, inp, wire, got, rx>>

snd_mpu401_uart_output_trigger ==
  /\ At("task", "trigger_out")
  /\ mode' = mode \cup {"OUTPUT_TRIGGER"}
  /\ Goto("task", "tx_enter")
  /\ UNCHANGED <<portVars, ringVars, rx, job>>

(* "if (count1 < count && O_NONBLOCK) break", count already reduced. *)
WriteMore ==
  /\ At("task", "written")
  /\ IF job.n < Len(job.msg)
     THEN Goto("task", "idle") /\ job' = NoJob
     ELSE Goto("task", "write") /\ UNCHANGED job
  /\ UNCHANGED <<portVars, mode, ringVars, rx>>

(***************************************************************************)
(* Reception: snd_mpu401_uart_input_read.  input_lock is released while    *)
(* the byte is handed to snd_rawmidi_receive.  Every turn of the loop is a *)
(* step of its own; the lock rules some of these interleavings out.        *)
(***************************************************************************)
AfterRx(c) == IF c = "isr" THEN "tx_enter" ELSE "read"

(* Mutant: the test of the receive loop bit is left out. *)
RxEnterTwice(c) ==
  /\ At(c, "rx_enter")
  /\ mode' = mode \cup {"RX_LOOP"} /\ Enter(c, "rx", RxMax)
  /\ UNCHANGED <<portVars, ringVars, rx, job>>

RxEnter(c) ==
  /\ At(c, "rx_enter")
  /\ IF "RX_LOOP" \in mode
     THEN Leave(c, AfterRx(c)) /\ UNCHANGED mode
     ELSE Enter(c, "rx", RxMax) /\ mode' = mode \cup {"RX_LOOP"}
  /\ UNCHANGED <<portVars, ringVars, rx, job>>

RxByte(c) ==
  /\ At(c, "rx") /\ cpu[c].max > 0
  /\ IF rx = <<>>
     THEN cpu' = [cpu EXCEPT ![c].max = @ - 1] /\ UNCHANGED rx
     ELSE /\ rx' = Tail(rx)
          /\ cpu' = [cpu EXCEPT ![c] =
               IF "INPUT_TRIGGER" \in mode
               THEN [at |-> "receive", max |-> cpu[c].max - 1, byte |-> Head(rx)]
               ELSE [cpu[c] EXCEPT !.max = @ - 1]]
  /\ UNCHANGED <<portVars, mode, ringVars, job>>

snd_rawmidi_receive(c) ==
  /\ At(c, "receive")
  /\ inp' = IF inp.avail < Size THEN Received(inp, cpu[c].byte) ELSE inp
  /\ cpu' = [cpu EXCEPT ![c].at = "rx", ![c].byte = Stale]
  /\ UNCHANGED <<portVars, mode, out, wire, got, rx, job>>

RxDone(c) ==
  /\ At(c, "rx") /\ cpu[c].max = 0
  /\ mode' = mode \ {"RX_LOOP"}
  /\ Leave(c, AfterRx(c))
  /\ UNCHANGED <<portVars, ringVars, rx, job>>

(***************************************************************************)
(* snd_rawmidi_read on a non-blocking file: it starts the receiver, which  *)
(* flushes the UART the first time, polls it, and returns what there is.   *)
(***************************************************************************)
Read(n) ==
  /\ At("task", "idle") /\ "in" \in opened
  /\ job' = [msg |-> <<>>, n |-> n, call |-> "read"]
  /\ mode' = mode \cup {"INPUT_TRIGGER"}
  /\ rx' = IF "INPUT_TRIGGER" \in mode THEN rx ELSE <<>>
  /\ Goto("task", "rx_enter")
  /\ UNCHANGED <<portVars, ringVars>>

snd_rawmidi_kernel_read1 ==
  /\ At("task", "read")
  /\ IF job.n = 0 \/ inp.avail = 0
     THEN Goto("task", "idle") /\ job' = NoJob /\ got' = <<>> /\ UNCHANGED inp
     ELSE LET n == Piece(inp, job.n)
          IN  /\ got' = SubSeq(Stored, 1, n)
              /\ inp' = Consumed(inp, n)
              /\ job' = [job EXCEPT !.n = @ - n] /\ UNCHANGED cpu
  /\ UNCHANGED <<portVars, mode, out, wire, rx>>

(***************************************************************************)
(* snd_rawmidi_kernel_release.                                             *)
(***************************************************************************)
ReleaseInput ==
  /\ At("task", "idle") /\ "in" \in opened
  /\ mode' = mode \ {"INPUT_TRIGGER"}
  /\ Goto("task", "close_in")
  /\ UNCHANGED <<portVars, ringVars, rx, job>>

snd_mpu401_uart_input_close ==
  /\ At("task", "close_in")
  /\ mode' = mode \ {"INPUT"}
  /\ UartCommand("OUTPUT", FALSE)
  /\ Goto("task", "free_in")
  /\ UNCHANGED <<opened, runtime, ringVars, job>>

FreeInput ==
  /\ At("task", "free_in")
  /\ runtime' = runtime \ {"in"} /\ opened' = opened \ {"in"}
  /\ inp' = Fresh(0)
  /\ Goto("task", "idle")
  /\ UNCHANGED <<uart, mode, out, wire, got, rx, job>>

(* active_sensing: one more byte to silence the device. *)
ReleaseOutput ==
  /\ At("task", "idle") /\ "out" \in opened
  /\ job' = [msg |-> <<ActiveSensing>>, n |-> 0, call |-> "release"]
  /\ Goto("task", "write")
  /\ UNCHANGED <<portVars, mode, ringVars, rx>>

(* snd_rawmidi_drain_output: interruptible_sleep_on_timeout returns 1 at    *)
(* once, so the loop spins until the buffer is empty; its time-out never    *)
(* ends it.  Then snd_rawmidi_drop_output resets the buffer.                *)
snd_rawmidi_drain_output ==
  /\ At("task", "drain")
  /\ out.avail >= Size
  /\ mode' = mode \ {"OUTPUT_TRIGGER"}
  /\ out' = Fresh(Size)
  /\ Goto("task", "close_out") /\ job' = NoJob
  /\ UNCHANGED <<portVars, inp, wire, got, rx>>

snd_mpu401_uart_output_close ==
  /\ At("task", "close_out")
  /\ mode' = mode \ {"OUTPUT"}
  /\ UartCommand("INPUT", FALSE)
  /\ Goto("task", "free_out")
  /\ UNCHANGED <<opened, runtime, ringVars, job>>

FreeOutput ==
  /\ At("task", "free_out")
  /\ runtime' = runtime \ {"out"} /\ opened' = opened \ {"out"}
  /\ Goto("task", "idle")
  /\ UNCHANGED <<uart, mode, ringVars, rx, job>>

(***************************************************************************)
(* The device and snd_mpu401_uart_interrupt.                               *)
(***************************************************************************)
ByteArrives(b) ==
  /\ Len(rx) < FifoSize
  /\ rx' = Append(rx, b)
  /\ UNCHANGED <<portVars, mode, ringVars, cpu, job>>

DeviceReady ==
  /\ wire # <<>> /\ wire' = <<>>
  /\ UNCHANGED <<portVars, mode, out, inp, got, rx, cpu, job>>

snd_mpu401_uart_interrupt ==
  /\ cpu["isr"].at = "idle" /\ rx # <<>>
  /\ IF "INPUT" \in mode
     THEN Goto("isr", "rx_enter") /\ UNCHANGED rx
     ELSE Goto("isr", "tx_enter") /\ rx' = <<>>
  /\ UNCHANGED <<portVars, mode, ringVars, job>>

Loops(c) == \/ TxEnter(c) \/ TxByte(c) \/ TxEmpty(c) \/ TxDone(c)
            \/ RxEnter(c) \/ RxByte(c) \/ snd_rawmidi_receive(c) \/ RxDone(c)

(* Steps of a call that is under way. *)
Proceed == \/ snd_mpu401_uart_output_open \/ snd_mpu401_uart_input_open
           \/ snd_rawmidi_kernel_write1 \/ snd_mpu401_uart_output_trigger \/ WriteMore
           \/ snd_rawmidi_kernel_read1
           \/ snd_mpu401_uart_input_close \/ FreeInput
           \/ snd_rawmidi_drain_output \/ snd_mpu401_uart_output_close \/ FreeOutput
           \/ Loops("task")

Next == \/ \E s \in Streams : Open(s)
        \/ \E n \in Requests : Read(n) \/ \E msg \in [1 .. n -> Bytes] : Write(msg)
        \/ ReleaseInput \/ ReleaseOutput
        \/ Proceed
        \/ snd_mpu401_uart_interrupt \/ Loops("isr")
        \/ DeviceReady \/ \E b \in Bytes : ByteArrives(b)

Spec == Init /\ [][Next]_vars

(* A call and an interrupt handler that have begun go on (a MIDI byte takes *)
(* 320 us, so interrupts leave the task time); the transmitter of the       *)
(* device becomes free; a pending interrupt is delivered.                   *)
FairSpec == /\ Spec
            /\ SF_vars(Proceed) /\ WF_vars(Loops("isr")) /\ WF_vars(DeviceReady)
            /\ SF_vars(snd_mpu401_uart_interrupt)

(***************************************************************************)
(* Properties.                                                             *)
(***************************************************************************)

(* Every variable has the type its declaration gives it. *)
Ring == [buf : [0 .. Size - 1 -> Bytes \cup {Stale}], hw_ptr : 0 .. Size - 1,
         appl_ptr : 0 .. Size - 1, avail : 0 .. Size]
TypeOK ==
  /\ opened \subseteq Streams /\ runtime \subseteq Streams /\ mode \subseteq Bits
  /\ uart \in BOOLEAN
  /\ out \in Ring /\ inp \in Ring
  /\ rx \in Seq(Bytes) /\ wire \in Seq(Bytes) /\ got \in Seq(Bytes)
  /\ \A c \in Contexts : cpu[c].byte \in Bytes \cup {Stale} /\ cpu[c].max \in Nat
  /\ job.msg \in Seq(Bytes) /\ job.n \in Nat

(* The interrupt works on the runtime of every direction whose mode bit is  *)
(* set, and on nothing else: opening sets the bit after the runtime exists, *)
(* releasing clears it before the runtime is freed, wherever the interrupt  *)
(* falls in between.                                                        *)
InterruptFindsRuntime ==
  /\ "OUTPUT" \in mode => "out" \in runtime
  /\ "INPUT" \in mode => "in" \in runtime
  /\ cpu["isr"].at \in {"tx", "tx_done"} => "out" \in runtime
  /\ cpu["isr"].at \in {"rx", "receive"} => "in" \in runtime

(* The device is in UART mode while either direction is open: closing one   *)
(* direction never resets the device under the other.                       *)
UartWhileOpen == mode \cap {"INPUT", "OUTPUT"} # {} => uart

(* Queued bytes are never forgotten: while there are some, the transmitter  *)
(* is triggered, so any interrupt sends them, or the task is on its way to  *)
(* trigger it.                                                              *)
QueuedMeansTriggered ==
  Queued # <<>> => \/ "OUTPUT_TRIGGER" \in mode
                   \/ cpu["task"].at = "trigger_out"

(* Mode bits, runtimes, the device and the queue agree, wherever the        *)
(* interrupt falls between the steps of a call: see the four parts above.   *)
PortConsistent ==
  TypeOK /\ InterruptFindsRuntime /\ UartWhileOpen /\ QueuedMeansTriggered

(* What was written and not yet sent leaves the port in order, once, and is *)
(* dropped neither by the transmit loops of task and interrupt meeting nor  *)
(* by closing the port.                                                     *)
OutputQueue == INSTANCE ByteQueue WITH queue <- Queued, taken <- wire, Lossy <- FALSE
OutputInOrder == OutputQueue!Spec

(* What the device received reaches the readers in order and at most once,  *)
(* whichever of the task and the interrupt takes each byte from the UART.   *)
Held == IF cpu["isr"].at = "receive" THEN <<cpu["isr"].byte>>
        ELSE IF cpu["task"].at = "receive" THEN <<cpu["task"].byte>> ELSE <<>>
InputQueue == INSTANCE ByteQueue
                WITH queue <- Stored \o Held \o rx, taken <- got, Lossy <- TRUE
InputInOrder == InputQueue!Spec

(* A call that does not return is a release that waits for bytes the UART   *)
(* has not taken, and only while the device receives nothing: the receive   *)
(* interrupt is what sends them.  Every other call returns, and so does a   *)
(* release with the next bytes that are received.                           *)
Stranded == /\ cpu["task"].at = "drain" /\ Queued # <<>>
            /\ cpu["isr"].at = "idle" /\ rx = <<>>
CallsEnd == []<>(cpu["task"].at = "idle") \/ <>[]Stranded

(* What the time-out of snd_rawmidi_drain_output is for: the drain ends     *)
(* whatever the device does.                                                *)
DrainEnds == cpu["task"].at = "drain" ~> cpu["task"].at # "drain"
=============================================================================
