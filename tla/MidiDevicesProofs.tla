------------------------- MODULE MidiDevicesProofs -------------------------
(***************************************************************************)
(* The two devices a MIDI stream can play on.                              *)
(*                                                                         *)
(* The MPU-401 UART, for a buffer of any size, loops of any length and a   *)
(* UART that holds any number of bytes: mode bits, runtimes, the device    *)
(* and the queue agree wherever the interrupt falls, and both directions   *)
(* of the port implement ByteQueue: what is written leaves in order, once  *)
(* and none is dropped; what is received is read in order and at most      *)
(* once.                                                                   *)
(*                                                                         *)
(* The FM synthesizer, for any of its voices, channels, notes and          *)
(* programs: its table of voices stays consistent, a note that ends is not *)
(* heard, and none is cut off without need.                                *)
(***************************************************************************)
EXTENDS RawMidi, FmVoices, SequenceTheorems, FiniteSetTheorems, WellFoundedInduction, TLAPS

(***************************************************************************)
(* The ring buffers.                                                       *)
(***************************************************************************)

(* The unsent bytes of an output ring, the unread ones of an input ring. *)
QueueOf(r) == [i \in 1 .. Size - r.avail |-> r.buf[(r.hw_ptr + i - 1) % Size]]
StoreOf(r) == [i \in 1 .. r.avail |-> r.buf[(r.appl_ptr + i - 1) % Size]]

(* The pointer that is ahead is avail bytes away, and no byte between the   *)
(* two is stale.                                                            *)
OutRing(r) == /\ r.appl_ptr = (r.hw_ptr + (Size - r.avail)) % Size
              /\ QueueOf(r) \in Seq(Bytes)
InRing(r) == /\ r.hw_ptr = (r.appl_ptr + r.avail) % Size
             /\ StoreOf(r) \in Seq(Bytes)

(* A pointer that has passed the end at most once. *)
LEMMA Wrap ==
  ASSUME NEW k \in Int, k >= 0, k < Size + Size
  PROVE  /\ k % Size = IF k < Size THEN k ELSE k - Size
         /\ k % Size \in 0 .. Size - 1
  BY RawMidiAssumption

(* A new ring is empty. *)
LEMMA FreshRings ==
  /\ Fresh(Size) \in Ring /\ OutRing(Fresh(Size)) /\ QueueOf(Fresh(Size)) = <<>>
  /\ Fresh(0) \in Ring /\ InRing(Fresh(0)) /\ StoreOf(Fresh(0)) = <<>>
  <1> USE RawMidiAssumption
  <1>1. ASSUME NEW n \in 0 .. Size PROVE Fresh(n) \in Ring
    BY DEF Fresh, Ring
  <1>2. QueueOf(Fresh(Size)) = <<>> /\ StoreOf(Fresh(0)) = <<>>
    BY DEF Fresh, QueueOf, StoreOf
  <1>3. 0 % Size = 0
    BY Wrap
  <1>4. /\ Fresh(Size).appl_ptr = (Fresh(Size).hw_ptr + (Size - Fresh(Size).avail)) % Size
        /\ Fresh(0).hw_ptr = (Fresh(0).appl_ptr + Fresh(0).avail) % Size
    BY <1>3 DEF Fresh
  <1>5. Fresh(Size) \in Ring /\ Fresh(0) \in Ring
    BY <1>1
  <1> QED BY <1>2, <1>4, <1>5, EmptySeq DEF OutRing, InRing

(* A piece of a sequence that lies within it. *)
LEMMA PieceOf ==
  ASSUME NEW S, NEW s \in Seq(S), NEW m \in 1 .. Len(s) + 1, NEW n \in m - 1 .. Len(s)
  PROVE  /\ SubSeq(s, m, n) \in Seq(S) /\ Len(SubSeq(s, m, n)) = n - m + 1
         /\ \A i \in 1 .. n - m + 1 : SubSeq(s, m, n)[i] = s[m + i - 1]
  <1>1. Len(s) \in Nat /\ m \in Int /\ n \in Int
    BY LenProperties
  <1>2. \A i \in m .. n : s[i] \in S
    BY <1>1, ElementOfSeq
  <1> QED BY <1>1, <1>2, SubSeqProperties

(* Sizes and elements of the two queues. *)
LEMMA QueueFacts ==
  ASSUME NEW r \in Ring
  PROVE  /\ Len(QueueOf(r)) = Size - r.avail /\ Len(StoreOf(r)) = r.avail
         /\ DOMAIN QueueOf(r) = 1 .. Size - r.avail
         /\ DOMAIN StoreOf(r) = 1 .. r.avail
         /\ QueueOf(r) = <<>> <=> r.avail = Size
         /\ StoreOf(r) = <<>> <=> r.avail = 0
         /\ QueueOf(r) \in Seq(Bytes \cup {Stale})
         /\ StoreOf(r) \in Seq(Bytes \cup {Stale})
  <1> USE RawMidiAssumption
  <1>1. Size - r.avail \in Nat /\ r.avail \in Nat
    BY DEF Ring
  <1>2. \A i \in 1 .. Size - r.avail : (r.hw_ptr + i - 1) % Size \in 0 .. Size - 1
    BY Wrap DEF Ring
  <1>3. \A i \in 1 .. r.avail : (r.appl_ptr + i - 1) % Size \in 0 .. Size - 1
    BY Wrap DEF Ring
  <1>4. /\ QueueOf(r) \in [1 .. Size - r.avail -> Bytes \cup {Stale}]
        /\ StoreOf(r) \in [1 .. r.avail -> Bytes \cup {Stale}]
    BY <1>2, <1>3 DEF QueueOf, StoreOf, Ring
  <1>5. /\ QueueOf(r) \in Seq(Bytes \cup {Stale}) /\ Len(QueueOf(r)) = Size - r.avail
        /\ StoreOf(r) \in Seq(Bytes \cup {Stale}) /\ Len(StoreOf(r)) = r.avail
    BY <1>1, <1>4
  <1> QED BY <1>1, <1>4, <1>5, EmptySeq DEF Ring

(* snd_rawmidi_transmit_ack takes the oldest byte off the output ring. *)
LEMMA AckedRing ==
  ASSUME NEW r \in Ring, OutRing(r), r.avail < Size
  PROVE  /\ Acked(r) \in Ring /\ OutRing(Acked(r))
         /\ QueueOf(r) # <<>> /\ r.buf[r.hw_ptr] = QueueOf(r)[1]
         /\ QueueOf(Acked(r)) = SubSeq(QueueOf(r), 2, Len(QueueOf(r)))
  <1> USE RawMidiAssumption
  <1>1. PICK h \in 0 .. Size - 1, p \in 0 .. Size - 1, v \in 0 .. Size - 1 :
          /\ r.hw_ptr = h /\ r.appl_ptr = p /\ r.avail = v
          /\ r.buf \in [0 .. Size - 1 -> Bytes \cup {Stale}]
    BY DEF Ring
  <1> DEFINE a == Acked(r)
             h1 == (h + 1) % Size
  <1>2. h1 = IF h + 1 < Size THEN h + 1 ELSE 0
    OBVIOUS
  <1>3. /\ a.hw_ptr = h1 /\ a.avail = v + 1 /\ a.appl_ptr = p
        /\ a.buf = [r.buf EXCEPT ![h] = Stale]
    BY <1>1 DEF Acked, Ring
  <1>4. a \in Ring
    <2>1. h1 \in 0 .. Size - 1 /\ v + 1 \in 0 .. Size
      BY <1>2
    <2>2. [r.buf EXCEPT ![h] = Stale] \in [0 .. Size - 1 -> Bytes \cup {Stale}]
      BY <1>1
    <2>3. a = [r EXCEPT !.buf = [r.buf EXCEPT ![h] = Stale],
                        !.hw_ptr = h1, !.avail = v + 1]
      BY <1>1 DEF Acked, Ring
    <2> QED BY <2>1, <2>2, <2>3 DEF Ring
  <1>5. r.buf[r.hw_ptr] = QueueOf(r)[1] /\ QueueOf(r) # <<>>
    <2>1. (h + 1 - 1) % Size = h /\ 1 \in 1 .. Size - v
      OBVIOUS
    <2>2. QueueOf(r)[1] = r.buf[h]
      BY <1>1, <2>1 DEF QueueOf
    <2>3. r.avail # Size
      BY <1>1
    <2> QED BY <1>1, <2>2, <2>3, QueueFacts
  <1>6. ASSUME NEW i \in 1 .. Size - v - 1
        PROVE  QueueOf(a)[i] = QueueOf(r)[i + 1]
    <2>1. (h + (i + 1) - 1) % Size =
             IF h + i < Size THEN h + i ELSE h + i - Size
      OBVIOUS
    <2>2. (h1 + i - 1) % Size = IF h + i < Size THEN h + i ELSE h + i - Size
      BY <1>2
    <2>3. (h + (i + 1) - 1) % Size \in (0 .. Size - 1) \ {h}
      BY <2>1
    <2>4. a.buf[(h + (i + 1) - 1) % Size] = r.buf[(h + (i + 1) - 1) % Size]
      BY <1>1, <1>3, <2>3
    <2>5. i \in 1 .. Size - (v + 1) /\ i + 1 \in 1 .. Size - v
      OBVIOUS
    <2> QED BY <1>1, <1>3, <2>1, <2>2, <2>4, <2>5 DEF QueueOf
  <1>7. QueueOf(a) = SubSeq(QueueOf(r), 2, Len(QueueOf(r)))
    <2> DEFINE m == Size - v
    <2>1. QueueOf(r) \in Seq(Bytes) /\ Len(QueueOf(r)) = m /\ m \in Nat \ {0}
      <3>1. Len(QueueOf(r)) = Size - r.avail
        BY QueueFacts
      <3> QED BY <1>1, <3>1 DEF OutRing
    <2>2. QueueOf(a) \in Seq(Bytes \cup {Stale}) /\ Len(QueueOf(a)) = m - 1
      <3>1. QueueOf(a) \in Seq(Bytes \cup {Stale}) /\ Len(QueueOf(a)) = Size - a.avail
        BY <1>4, QueueFacts
      <3>2. Size - (v + 1) = m - 1
        OBVIOUS
      <3> QED BY <1>3, <3>1, <3>2
    <2>3. /\ SubSeq(QueueOf(r), 2, m) \in Seq(Bytes \cup {Stale})
          /\ Len(SubSeq(QueueOf(r), 2, m)) = m - 1
          /\ \A i \in 1 .. m - 1 : SubSeq(QueueOf(r), 2, m)[i] = QueueOf(r)[i + 1]
      <3>1. 2 \in 1 .. m + 1 /\ m \in 2 - 1 .. m /\ m - 2 + 1 = m - 1
        BY <2>1
      <3>2. /\ SubSeq(QueueOf(r), 2, m) \in Seq(Bytes)
            /\ Len(SubSeq(QueueOf(r), 2, m)) = m - 2 + 1
            /\ \A i \in 1 .. m - 2 + 1 : SubSeq(QueueOf(r), 2, m)[i] = QueueOf(r)[2 + i - 1]
        BY <2>1, <3>1, PieceOf
      <3>3. \A i \in 1 .. m - 1 : 2 + i - 1 = i + 1
        OBVIOUS
      <3> QED BY <3>1, <3>2, <3>3, SeqMonotonic
    <2>4. \A i \in 1 .. Len(QueueOf(a)) : QueueOf(a)[i] = SubSeq(QueueOf(r), 2, m)[i]
      BY <1>6, <2>2, <2>3
    <2> QED BY <2>1, <2>2, <2>3, <2>4, SeqEqual
  <1>8. QueueOf(a) \in Seq(Bytes)
    <2>1. QueueOf(r) \in Seq(Bytes) /\ Len(QueueOf(r)) \in Nat \ {0}
      BY <1>5, EmptySeq DEF OutRing
    <2>2. 2 \in 1 .. Len(QueueOf(r)) + 1 /\ Len(QueueOf(r)) \in 2 - 1 .. Len(QueueOf(r))
      BY <2>1
    <2> QED BY <1>7, <2>1, <2>2, PieceOf
  <1>9. p = (h1 + (Size - (v + 1))) % Size
    <2>1. p = (h + (Size - v)) % Size
      BY <1>1 DEF OutRing
    <2> QED BY <1>2, <2>1
  <1> QED BY <1>3, <1>4, <1>5, <1>7, <1>8, <1>9 DEF OutRing

(* snd_rawmidi_kernel_write1 adds the copied bytes behind the queued ones,  *)
(* whether or not the copy wraps.                                           *)
LEMMA WrittenRing ==
  ASSUME NEW r \in Ring, OutRing(r), NEW msg \in Seq(Bytes),
         NEW n \in 0 .. Len(msg), n <= r.avail
  PROVE  /\ Written(r, msg, n) \in Ring /\ OutRing(Written(r, msg, n))
         /\ QueueOf(Written(r, msg, n)) = QueueOf(r) \o SubSeq(msg, 1, n)
  <1> USE RawMidiAssumption
  <1>0. Len(msg) \in Nat /\ msg \in [1 .. Len(msg) -> Bytes]
    BY LenProperties
  <1>1. PICK h \in 0 .. Size - 1, p \in 0 .. Size - 1, v \in 0 .. Size :
          /\ r.hw_ptr = h /\ r.appl_ptr = p /\ r.avail = v
          /\ r.buf \in [0 .. Size - 1 -> Bytes \cup {Stale}]
    BY DEF Ring
  <1>2. n \in Nat /\ n <= v /\ n <= Size
    BY <1>0, <1>1
  <1> DEFINE w == Written(r, msg, n)
             m == Size - v
             p1 == (p + n) % Size
             b == [j \in 0 .. Size - 1 |->
                     LET k == (j + Size - p) % Size
                     IN  IF k < n THEN msg[k + 1] ELSE r.buf[j]]
  <1>3. p = IF h + m < Size THEN h + m ELSE h + m - Size
    <2>1. p = (h + m) % Size
      BY <1>1 DEF OutRing
    <2> QED BY <2>1
  <1>4. p1 = IF p + n < Size THEN p + n ELSE p + n - Size
    BY <1>2
  <1>5. /\ w.hw_ptr = h /\ w.avail = v - n /\ w.appl_ptr = p1 /\ w.buf = b
        /\ w = [r EXCEPT !.buf = b, !.appl_ptr = p1, !.avail = v - n]
    BY <1>1 DEF Written, Ring
  <1>6. b \in [0 .. Size - 1 -> Bytes \cup {Stale}]
    <2>1. ASSUME NEW j \in 0 .. Size - 1, (j + Size - p) % Size < n
          PROVE  ((j + Size - p) % Size) + 1 \in 1 .. Len(msg)
      <3>1. (j + Size - p) % Size \in Nat
        OBVIOUS
      <3> QED BY <1>0, <1>2, <2>1, <3>1
    <2>2. ASSUME NEW j \in 0 .. Size - 1 PROVE b[j] \in Bytes \cup {Stale}
      BY <1>0, <1>1, <2>1
    <2> QED BY <2>2
  <1>7. w \in Ring
    <2>1. p1 \in 0 .. Size - 1 /\ v - n \in 0 .. Size
      BY <1>2, <1>4
    <2> QED BY <1>5, <1>6, <2>1 DEF Ring
  <1>8. p1 = (h + (Size - (v - n))) % Size
    <2>1. (h + (m + n)) % Size =
            IF h + (m + n) < Size THEN h + (m + n) ELSE h + (m + n) - Size
      BY <1>2
    <2>2. Size - (v - n) = m + n
      BY <1>2
    <2> QED BY <1>2, <1>3, <1>4, <2>1, <2>2
  <1>9. ASSUME NEW i \in 1 .. m + n
        PROVE  QueueOf(w)[i] = IF i <= m THEN QueueOf(r)[i] ELSE msg[i - m]
    <2> DEFINE j == (h + i - 1) % Size
               k == (j + Size - p) % Size
    <2>0. i \in 1 .. Size - (v - n) /\ i \in 1 .. Size
      BY <1>2
    <2>1. j = IF h + i - 1 < Size THEN h + i - 1 ELSE h + i - 1 - Size
      BY <2>0
    <2>2. j \in 0 .. Size - 1
      BY <2>0, <2>1
    <2> HIDE DEF j
    <2>3. k = IF j < p THEN j + Size - p ELSE j - p
      BY <2>2
    <2>4. k = IF i <= m THEN v + i - 1 ELSE i - 1 - m
      BY <1>2, <1>3, <2>0, <2>1, <2>3
    <2>5. QueueOf(w)[i] = b[j]
      BY <1>1, <1>5, <2>0 DEF QueueOf, j
    <2>6. b[j] = IF k < n THEN msg[k + 1] ELSE r.buf[j]
      BY <2>2
    <2>7. CASE i <= m
      <3>1. ~(k < n)
        BY <1>2, <2>4, <2>7
      <3>2. i \in 1 .. m
        BY <2>7
      <3>3. QueueOf(r)[i] = r.buf[j]
        BY <1>1, <3>2 DEF QueueOf, j
      <3> QED BY <2>5, <2>6, <2>7, <3>1, <3>3
    <2>8. CASE ~(i <= m)
      <3>1. k < n /\ k + 1 = i - m
        BY <1>2, <2>4, <2>8
      <3> QED BY <2>5, <2>6, <2>8, <3>1
    <2> QED BY <2>7, <2>8
  <1>10. /\ SubSeq(msg, 1, n) \in Seq(Bytes) /\ Len(SubSeq(msg, 1, n)) = n
         /\ \A i \in 1 .. n : SubSeq(msg, 1, n)[i] = msg[i]
    <2>1. 1 \in 1 .. Len(msg) + 1 /\ n \in 1 - 1 .. Len(msg) /\ n - 1 + 1 = n
      BY <1>0, <1>2
    <2>2. \A i \in 1 .. n : 1 + i - 1 = i
      OBVIOUS
    <2>3. /\ SubSeq(msg, 1, n) \in Seq(Bytes) /\ Len(SubSeq(msg, 1, n)) = n - 1 + 1
          /\ \A i \in 1 .. n - 1 + 1 : SubSeq(msg, 1, n)[i] = msg[1 + i - 1]
      BY <2>1, PieceOf
    <2> QED BY <2>1, <2>2, <2>3
  <1>11. QueueOf(r) \in Seq(Bytes) /\ Len(QueueOf(r)) = m
    <2>1. Len(QueueOf(r)) = Size - r.avail
      BY QueueFacts
    <2> QED BY <1>1, <2>1 DEF OutRing
  <1>12. QueueOf(w) \in Seq(Bytes \cup {Stale}) /\ Len(QueueOf(w)) = m + n
    <2>1. QueueOf(w) \in Seq(Bytes \cup {Stale}) /\ Len(QueueOf(w)) = Size - w.avail
      BY <1>7, QueueFacts
    <2>2. Size - (v - n) = m + n
      BY <1>2
    <2> QED BY <1>5, <2>1, <2>2
  <1> DEFINE c == QueueOf(r) \o SubSeq(msg, 1, n)
  <1>13. /\ c \in Seq(Bytes) /\ Len(c) = m + n
         /\ \A i \in 1 .. m + n :
              c[i] = IF i <= m THEN QueueOf(r)[i] ELSE SubSeq(msg, 1, n)[i - m]
    BY <1>10, <1>11, ConcatProperties
  <1>14. ASSUME NEW i \in 1 .. m + n PROVE QueueOf(w)[i] = c[i]
    <2>1. CASE i <= m
      BY <1>9, <1>13, <2>1
    <2>2. CASE ~(i <= m)
      <3>1. i - m \in 1 .. n
        BY <1>2, <2>2
      <3> QED BY <1>9, <1>10, <1>13, <2>2, <3>1
    <2> QED BY <2>1, <2>2
  <1>15. QueueOf(w) = c
    <2>1. c \in Seq(Bytes \cup {Stale})
      BY <1>13, SeqMonotonic
    <2> QED BY <1>12, <1>13, <1>14, <2>1, SeqEqual
  <1> QED BY <1>5, <1>7, <1>8, <1>13, <1>15 DEF OutRing

(* snd_rawmidi_receive puts the byte behind the stored ones. *)
LEMMA ReceivedRing ==
  ASSUME NEW r \in Ring, InRing(r), r.avail < Size, NEW e \in Bytes
  PROVE  /\ Received(r, e) \in Ring /\ InRing(Received(r, e))
         /\ StoreOf(Received(r, e)) = Append(StoreOf(r), e)
  <1> USE RawMidiAssumption
  <1>1. PICK h \in 0 .. Size - 1, p \in 0 .. Size - 1, v \in 0 .. Size - 1 :
          /\ r.hw_ptr = h /\ r.appl_ptr = p /\ r.avail = v
          /\ r.buf \in [0 .. Size - 1 -> Bytes \cup {Stale}]
    BY DEF Ring
  <1> DEFINE w == Received(r, e)
             h1 == (h + 1) % Size
             b == [r.buf EXCEPT ![h] = e]
  <1>2. h = IF p + v < Size THEN p + v ELSE p + v - Size
    <2>1. h = (p + v) % Size
      BY <1>1 DEF InRing
    <2> QED BY <2>1
  <1>3. h1 = IF h + 1 < Size THEN h + 1 ELSE 0
    OBVIOUS
  <1>4. /\ w.hw_ptr = h1 /\ w.avail = v + 1 /\ w.appl_ptr = p /\ w.buf = b
        /\ w = [r EXCEPT !.buf = b, !.hw_ptr = h1, !.avail = v + 1]
    BY <1>1 DEF Received, Ring
  <1>5. w \in Ring
    <2>1. h1 \in 0 .. Size - 1 /\ v + 1 \in 0 .. Size
      BY <1>3
    <2>2. b \in [0 .. Size - 1 -> Bytes \cup {Stale}]
      BY <1>1
    <2> QED BY <1>4, <2>1, <2>2 DEF Ring
  <1>6. h1 = (p + (v + 1)) % Size
    <2>1. (p + (v + 1)) % Size =
            IF p + (v + 1) < Size THEN p + (v + 1) ELSE p + (v + 1) - Size
      OBVIOUS
    <2> QED BY <1>2, <1>3, <2>1
  <1>7. StoreOf(r) \in Seq(Bytes) /\ Len(StoreOf(r)) = v
    BY <1>1, QueueFacts DEF InRing
  <1>8. StoreOf(w) \in Seq(Bytes \cup {Stale}) /\ Len(StoreOf(w)) = v + 1
    BY <1>4, <1>5, QueueFacts
  <1>9. /\ Append(StoreOf(r), e) \in Seq(Bytes) /\ Len(Append(StoreOf(r), e)) = v + 1
        /\ \A i \in 1 .. v : Append(StoreOf(r), e)[i] = StoreOf(r)[i]
        /\ Append(StoreOf(r), e)[v + 1] = e
    BY <1>7, AppendProperties
  <1>10. ASSUME NEW i \in 1 .. v + 1 PROVE StoreOf(w)[i] = Append(StoreOf(r), e)[i]
    <2> DEFINE j == (p + i - 1) % Size
    <2>1. j = IF p + i - 1 < Size THEN p + i - 1 ELSE p + i - 1 - Size
      OBVIOUS
    <2>2. j \in 0 .. Size - 1
      BY <2>1
    <2>3. StoreOf(w)[i] = b[j]
      BY <1>4 DEF StoreOf
    <2> HIDE DEF j
    <2>4. CASE i <= v
      <3>1. j # h
        BY <1>2, <2>1, <2>4
      <3>2. i \in 1 .. v
        BY <2>4
      <3>3. StoreOf(r)[i] = r.buf[j]
        BY <1>1, <3>2 DEF StoreOf, j
      <3> QED BY <1>1, <1>9, <2>2, <2>3, <3>1, <3>2, <3>3
    <2>5. CASE i = v + 1
      <3>1. j = h
        BY <1>2, <2>1, <2>5
      <3> QED BY <1>1, <1>9, <2>3, <2>5, <3>1
    <2>6. i <= v \/ i = v + 1
      OBVIOUS
    <2> QED BY <2>4, <2>5, <2>6
  <1>11. StoreOf(w) = Append(StoreOf(r), e)
    <2>1. Append(StoreOf(r), e) \in Seq(Bytes \cup {Stale})
      BY <1>9, SeqMonotonic
    <2> QED BY <1>8, <1>9, <1>10, <2>1, SeqEqual
  <1> QED BY <1>4, <1>5, <1>6, <1>9, <1>11 DEF InRing

(* One piece of snd_rawmidi_kernel_read1 takes the oldest n stored bytes. *)
LEMMA ConsumedRing ==
  ASSUME NEW r \in Ring, InRing(r), NEW n \in 0 .. r.avail
  PROVE  /\ Consumed(r, n) \in Ring /\ InRing(Consumed(r, n))
         /\ StoreOf(Consumed(r, n)) = SubSeq(StoreOf(r), n + 1, Len(StoreOf(r)))
  <1> USE RawMidiAssumption
  <1>1. PICK h \in 0 .. Size - 1, p \in 0 .. Size - 1, v \in 0 .. Size :
          /\ r.hw_ptr = h /\ r.appl_ptr = p /\ r.avail = v
          /\ r.buf \in [0 .. Size - 1 -> Bytes \cup {Stale}]
    BY DEF Ring
  <1>2. n \in 0 .. v
    BY <1>1
  <1> DEFINE w == Consumed(r, n)
             p1 == (p + n) % Size
             b == [j \in 0 .. Size - 1 |->
                     IF (j + Size - p) % Size < n THEN Stale ELSE r.buf[j]]
  <1>3. h = IF p + v < Size THEN p + v ELSE p + v - Size
    <2>1. h = (p + v) % Size
      BY <1>1 DEF InRing
    <2> QED BY <2>1
  <1>4. p1 = IF p + n < Size THEN p + n ELSE p + n - Size
    BY <1>2
  <1>5. /\ w.hw_ptr = h /\ w.avail = v - n /\ w.appl_ptr = p1 /\ w.buf = b
        /\ w = [r EXCEPT !.buf = b, !.appl_ptr = p1, !.avail = v - n]
    BY <1>1 DEF Consumed, Ring
  <1>6. w \in Ring
    <2>1. p1 \in 0 .. Size - 1 /\ v - n \in 0 .. Size
      BY <1>2, <1>4
    <2>2. b \in [0 .. Size - 1 -> Bytes \cup {Stale}]
      BY <1>1
    <2> QED BY <1>5, <2>1, <2>2 DEF Ring
  <1>7. h = (p1 + (v - n)) % Size
    <2>1. (p1 + (v - n)) % Size =
            IF p1 + (v - n) < Size THEN p1 + (v - n) ELSE p1 + (v - n) - Size
      BY <1>2, <1>4
    <2> QED BY <1>2, <1>3, <1>4, <2>1
  <1>8. StoreOf(r) \in Seq(Bytes) /\ Len(StoreOf(r)) = v
    BY <1>1, QueueFacts DEF InRing
  <1>9. StoreOf(w) \in Seq(Bytes \cup {Stale}) /\ Len(StoreOf(w)) = v - n
    BY <1>5, <1>6, QueueFacts
  <1> DEFINE t == SubSeq(StoreOf(r), n + 1, v)
  <1>10. /\ t \in Seq(Bytes) /\ Len(t) = v - n
         /\ \A i \in 1 .. v - n : t[i] = StoreOf(r)[n + i]
    <2>1. n + 1 \in 1 .. v + 1 /\ v \in (n + 1) - 1 .. v /\ v - (n + 1) + 1 = v - n
      BY <1>2
    <2>2. \A i \in 1 .. v - n : (n + 1) + i - 1 = n + i
      BY <1>2
    <2>3. /\ t \in Seq(Bytes) /\ Len(t) = v - (n + 1) + 1
          /\ \A i \in 1 .. v - (n + 1) + 1 : t[i] = StoreOf(r)[(n + 1) + i - 1]
      BY <1>8, <2>1, PieceOf
    <2> QED BY <2>1, <2>2, <2>3
  <1>11. ASSUME NEW i \in 1 .. v - n PROVE StoreOf(w)[i] = t[i]
    <2> DEFINE j == (p + (n + i) - 1) % Size
               k == (j + Size - p) % Size
    <2>0. n + i \in 1 .. v
      BY <1>2
    <2>1. j = IF p + (n + i) - 1 < Size THEN p + (n + i) - 1
                                        ELSE p + (n + i) - 1 - Size
      BY <2>0
    <2>2. j \in 0 .. Size - 1
      BY <2>0, <2>1
    <2>3. (p1 + i - 1) % Size = j
      <3>1. (p1 + i - 1) % Size = IF p1 + i - 1 < Size THEN p1 + i - 1
                                                       ELSE p1 + i - 1 - Size
        BY <1>2, <1>4, <2>0
      <3> QED BY <1>2, <1>4, <2>0, <2>1, <3>1
    <2>4. StoreOf(w)[i] = b[j]
      BY <1>5, <2>3 DEF StoreOf
    <2>5. StoreOf(r)[n + i] = r.buf[j]
      BY <1>1, <2>0 DEF StoreOf
    <2> HIDE DEF j
    <2>6. k = IF j < p THEN j + Size - p ELSE j - p
      BY <2>2
    <2>7. ~(k < n)
      BY <1>2, <2>0, <2>1, <2>6
    <2> QED BY <1>10, <2>2, <2>4, <2>5, <2>7
  <1>12. StoreOf(w) = t
    <2>1. t \in Seq(Bytes \cup {Stale})
      BY <1>10, SeqMonotonic
    <2> QED BY <1>9, <1>10, <1>11, <2>1, SeqEqual
  <1> QED BY <1>5, <1>6, <1>7, <1>8, <1>10, <1>12 DEF InRing

(***************************************************************************)
(* The inductive invariant.                                                *)
(***************************************************************************)
Labels == {"idle", "open_out", "open_in", "write", "trigger_out", "tx_enter", "tx",
           "tx_done", "written", "rx_enter", "rx", "receive", "read", "close_in",
           "free_in", "drain", "close_out", "free_out"}

(* Where the two contexts are.  A loop that is in "tx" has turns left, and  *)
(* one in "receive" has a byte in its hand.                                 *)
CpuType == [Contexts -> [at : Labels, max : Nat, byte : Bytes \cup {Stale}]]
JobType == [msg : Seq(Bytes), n : Nat, call : {"none", "write", "read", "release"}]
CpuOK ==
  /\ cpu \in CpuType /\ job \in JobType
  /\ \A c \in Contexts : /\ cpu[c].at = "tx" => cpu[c].max # 0
                         /\ cpu[c].at = "receive" => cpu[c].byte \in Bytes

RingsOK == OutRing(out) /\ InRing(inp)

(* The interrupt is at work on directions whose mode bit is set: the task,  *)
(* which alone clears these bits, does not run meanwhile.                   *)
IsrOK ==
  /\ cpu["isr"].at \in {"idle", "tx_enter", "tx", "tx_done", "rx_enter", "rx", "receive"}
  /\ cpu["isr"].at \in {"rx_enter", "rx", "receive"} => "INPUT" \in mode
  /\ cpu["isr"].at \in {"tx", "tx_done"} => "OUTPUT" \in mode

(* The mode bit is set after the runtime exists and cleared before it is    *)
(* freed; bytes are queued only between the two.                            *)
TaskOK ==
  /\ cpu["task"].at = "open_out" => "out" \in runtime
  /\ cpu["task"].at = "open_in" => "in" \in runtime
  /\ cpu["task"].at = "free_out" => "OUTPUT" \notin mode
  /\ cpu["task"].at = "free_in" => "INPUT" \notin mode
  /\ cpu["task"].at \in {"write", "trigger_out", "tx_enter", "tx", "tx_done",
                         "written", "drain", "close_out", "free_out"}
       => "out" \in opened
  /\ "out" \notin opened \/ cpu["task"].at \in {"open_out", "close_out", "free_out"}
       => out.avail = Size

(* MPU401_MODE_BIT_RX_LOOP keeps the two contexts from receiving at once. *)
RxAlone ==
  /\ \A c \in Contexts : cpu[c].at \in {"rx", "receive"} => "RX_LOOP" \in mode
  /\ ~ \A c \in Contexts : cpu[c].at \in {"rx", "receive"}

IInv == /\ TypeOK /\ CpuOK /\ RingsOK /\ IsrOK /\ TaskOK /\ RxAlone
        /\ InterruptFindsRuntime /\ UartWhileOpen /\ QueuedMeansTriggered

(* Queued and Stored are the contents of the two rings. *)
LEMMA QueuedStored == Queued = QueueOf(out) /\ Stored = StoreOf(inp)
  BY DEF Queued, Stored, QueueOf, StoreOf

(* Initially nothing is open and both rings are empty. *)
LEMMA InitIInv == Init => IInv
  <1> SUFFICES ASSUME Init PROVE IInv
    OBVIOUS
  <1> USE RawMidiAssumption
  <1>1. out \in Ring /\ inp \in Ring /\ RingsOK /\ Queued = <<>> /\ out.avail = Size
    <2>1. out = Fresh(Size) /\ inp = Fresh(0)
      BY DEF Init
    <2>2. out.avail = Size
      BY <2>1 DEF Fresh
    <2> QED BY <2>1, <2>2, FreshRings, QueuedStored DEF RingsOK
  <1>2. /\ cpu["task"] = Idle /\ cpu["isr"] = Idle
        /\ Idle.at = "idle" /\ Idle.max = 0 /\ Idle.byte = Stale
    BY DEF Init, Contexts, Idle
  <1>3. CpuOK
    <2>1. <<>> \in Seq(Bytes)
      BY EmptySeq
    <2> QED BY <2>1 DEF Init, CpuOK, CpuType, JobType, Idle, NoJob, Contexts, Labels
  <1>4. TypeOK
    <2>1. <<>> \in Seq(Bytes)
      BY EmptySeq
    <2> QED BY <1>1, <1>3, <2>1 DEF Init, TypeOK, CpuOK, CpuType, JobType
  <1>5. IsrOK /\ TaskOK /\ RxAlone
    BY <1>1, <1>2 DEF Init, IsrOK, TaskOK, RxAlone, Contexts
  <1>6. InterruptFindsRuntime /\ UartWhileOpen /\ QueuedMeansTriggered
    BY <1>1, <1>2 DEF Init, InterruptFindsRuntime, UartWhileOpen, QueuedMeansTriggered
  <1> QED BY <1>1, <1>3, <1>4, <1>5, <1>6 DEF IInv

(* A step that touches no ring keeps them and what is in them. *)
LEMMA RingsKept ==
  ASSUME IInv, UNCHANGED ringVars
  PROVE  /\ RingsOK' /\ Queued' = Queued /\ out' = out
         /\ out' \in Ring /\ inp' \in Ring /\ wire' \in Seq(Bytes) /\ got' \in Seq(Bytes)
  BY DEF IInv, RingsOK, OutRing, InRing, QueueOf, StoreOf, Queued, TypeOK, ringVars

(* Type correctness of the next state, from that of what a step changes. *)
LEMMA NextTypes ==
  ASSUME CpuOK', out' \in Ring, inp' \in Ring, rx' \in Seq(Bytes),
         wire' \in Seq(Bytes), got' \in Seq(Bytes), opened' \subseteq Streams,
         runtime' \subseteq Streams, mode' \subseteq Bits, uart' \in BOOLEAN
  PROVE  TypeOK'
  BY DEF TypeOK, CpuOK, CpuType, JobType

(* A context goes to another place outside the loops. *)
LEMMA Moved ==
  ASSUME CpuOK, NEW c \in Contexts, NEW l \in Labels \ {"tx", "receive"},
         Goto(c, l) \/ Leave(c, l), job' \in JobType
  PROVE  CpuOK' /\ cpu'[c].at = l /\ \A d \in Contexts \ {c} : cpu'[d] = cpu[d]
  <1> USE RawMidiAssumption
  <1>1. /\ cpu' \in CpuType /\ cpu'[c].at = l
        /\ \A d \in Contexts \ {c} : cpu'[d] = cpu[d]
    <2>1. CASE Goto(c, l)
      BY <2>1 DEF CpuOK, CpuType, Goto
    <2>2. CASE Leave(c, l)
      BY <2>2 DEF CpuOK, CpuType, Leave, Idle
    <2> QED BY <2>1, <2>2
  <1> QED BY <1>1 DEF CpuOK, Labels

(* The task goes on outside the loops and touches no ring; the interrupt is *)
(* not running.                                                             *)
LEMMA TaskMoved ==
  ASSUME IInv, cpu["isr"].at = "idle",
         NEW l \in Labels \ {"tx", "rx", "receive"}, Goto("task", l),
         job' \in JobType, UNCHANGED ringVars, rx' \in Seq(Bytes),
         opened' \subseteq Streams, runtime' \subseteq Streams,
         mode' \subseteq Bits, uart' \in BOOLEAN
  PROVE  /\ TypeOK' /\ CpuOK' /\ RingsOK' /\ IsrOK' /\ RxAlone'
         /\ cpu'["task"].at = l /\ cpu'["isr"].at = "idle"
         /\ Queued' = Queued /\ out' = out
  <1>1. CpuOK /\ "task" \in Contexts /\ "isr" \in Contexts \ {"task"}
    BY DEF IInv, Contexts
  <1>2. CpuOK' /\ cpu'["task"].at = l /\ cpu'["isr"] = cpu["isr"]
    BY <1>1, Moved
  <1>3. IsrOK' /\ RxAlone'
    BY <1>2 DEF IsrOK, RxAlone, Contexts
  <1> QED BY <1>2, <1>3, RingsKept, NextTypes

(* What is left to show for such a step, and what it may assume. *)
TaskPart == TaskOK /\ InterruptFindsRuntime /\ UartWhileOpen /\ QueuedMeansTriggered

(* The parts of the inductive invariant, by name. *)
LEMMA Unpack ==
  ASSUME IInv
  PROVE  /\ CpuOK /\ IsrOK /\ TaskOK /\ RxAlone /\ InterruptFindsRuntime
         /\ UartWhileOpen /\ QueuedMeansTriggered /\ RingsOK
         /\ cpu \in CpuType /\ job \in JobType /\ rx \in Seq(Bytes) /\ <<>> \in Seq(Bytes)
         /\ opened \subseteq Streams /\ runtime \subseteq Streams
         /\ mode \subseteq Bits /\ uart \in BOOLEAN
         /\ out \in Ring /\ inp \in Ring /\ wire \in Seq(Bytes) /\ got \in Seq(Bytes)
  BY EmptySeq DEF IInv, CpuOK, TypeOK

(* snd_mpu401_uart_output_open: the runtime exists, so the mode bit may be set. *)
LEMMA OutputOpenIInv ==
  ASSUME IInv, snd_mpu401_uart_output_open
  PROVE  IInv'
  <1>1. /\ cpu["task"].at = "open_out" /\ cpu["isr"].at = "idle"
        /\ mode' = mode \cup {"OUTPUT"} /\ opened' = opened \cup {"out"}
        /\ uart' \in BOOLEAN /\ rx' \in Seq(Bytes)
        /\ ("INPUT" \in mode /\ uart' = uart) \/ uart' = TRUE
    BY Unpack DEF snd_mpu401_uart_output_open, At, Runs, UartCommand
  <1>2. /\ Goto("task", "idle") /\ job' = job /\ UNCHANGED ringVars
        /\ runtime' = runtime
    BY DEF snd_mpu401_uart_output_open
  <1>3. /\ TypeOK' /\ CpuOK' /\ RingsOK' /\ IsrOK' /\ RxAlone'
        /\ cpu'["task"].at = "idle" /\ cpu'["isr"].at = "idle"
        /\ Queued' = Queued /\ out' = out
    BY <1>1, <1>2, Unpack, TaskMoved DEF Labels, Streams, Bits
  <1>4. TaskPart'
    BY <1>1, <1>2, <1>3, Unpack
       DEF TaskPart, TaskOK, InterruptFindsRuntime, UartWhileOpen, QueuedMeansTriggered
  <1> QED BY <1>3, <1>4 DEF IInv, TaskPart

(* snd_mpu401_uart_input_open: the runtime exists, so the mode bit may be set. *)
LEMMA InputOpenIInv ==
  ASSUME IInv, snd_mpu401_uart_input_open
  PROVE  IInv'
  <1>1. /\ cpu["task"].at = "open_in" /\ cpu["isr"].at = "idle"
        /\ mode' = mode \cup {"INPUT"} /\ opened' = opened \cup {"in"}
        /\ uart' \in BOOLEAN /\ rx' \in Seq(Bytes)
        /\ ("OUTPUT" \in mode /\ uart' = uart) \/ uart' = TRUE
    BY Unpack DEF snd_mpu401_uart_input_open, At, Runs, UartCommand
  <1>2. /\ Goto("task", "idle") /\ job' = job /\ UNCHANGED ringVars
        /\ runtime' = runtime
    BY DEF snd_mpu401_uart_input_open
  <1>3. /\ TypeOK' /\ CpuOK' /\ RingsOK' /\ IsrOK' /\ RxAlone'
        /\ cpu'["task"].at = "idle" /\ cpu'["isr"].at = "idle"
        /\ Queued' = Queued /\ out' = out
    BY <1>1, <1>2, Unpack, TaskMoved DEF Labels, Streams, Bits
  <1>4. TaskPart'
    BY <1>1, <1>2, <1>3, Unpack
       DEF TaskPart, TaskOK, InterruptFindsRuntime, UartWhileOpen, QueuedMeansTriggered
  <1> QED BY <1>3, <1>4 DEF IInv, TaskPart

(* snd_mpu401_uart_output_trigger: what was queued will be sent. *)
LEMMA TriggerIInv ==
  ASSUME IInv, snd_mpu401_uart_output_trigger
  PROVE  IInv'
  <1>1. /\ cpu["task"].at = "trigger_out" /\ cpu["isr"].at = "idle"
        /\ mode' = mode \cup {"OUTPUT_TRIGGER"}
    BY Unpack DEF snd_mpu401_uart_output_trigger, At, Runs
  <1>2. /\ Goto("task", "tx_enter") /\ job' = job /\ UNCHANGED ringVars
        /\ opened' = opened /\ runtime' = runtime /\ uart' = uart /\ rx' = rx
    BY Unpack DEF snd_mpu401_uart_output_trigger, portVars
  <1>3. /\ TypeOK' /\ CpuOK' /\ RingsOK' /\ IsrOK' /\ RxAlone'
        /\ cpu'["task"].at = "tx_enter" /\ cpu'["isr"].at = "idle"
        /\ Queued' = Queued /\ out' = out
    BY <1>1, <1>2, Unpack, TaskMoved DEF Labels, Streams, Bits
  <1>4. TaskPart'
    BY <1>1, <1>2, <1>3, Unpack
       DEF TaskPart, TaskOK, InterruptFindsRuntime, UartWhileOpen, QueuedMeansTriggered
  <1> QED BY <1>3, <1>4 DEF IInv, TaskPart

(* snd_mpu401_uart_output_close: the mode bit goes before the runtime. *)
LEMMA OutputCloseIInv ==
  ASSUME IInv, snd_mpu401_uart_output_close
  PROVE  IInv'
  <1>1. /\ cpu["task"].at = "close_out" /\ cpu["isr"].at = "idle"
        /\ mode' = mode \ {"OUTPUT"}
        /\ uart' \in BOOLEAN /\ rx' \in Seq(Bytes)
        /\ ("INPUT" \in mode /\ uart' = uart) \/ "INPUT" \notin mode
    BY Unpack DEF snd_mpu401_uart_output_close, At, Runs, UartCommand
  <1>2. /\ Goto("task", "free_out") /\ job' = job /\ UNCHANGED ringVars
        /\ opened' = opened /\ runtime' = runtime
    BY DEF snd_mpu401_uart_output_close
  <1>3. /\ TypeOK' /\ CpuOK' /\ RingsOK' /\ IsrOK' /\ RxAlone'
        /\ cpu'["task"].at = "free_out" /\ cpu'["isr"].at = "idle"
        /\ Queued' = Queued /\ out' = out
    BY <1>1, <1>2, Unpack, TaskMoved DEF Labels, Streams, Bits
  <1>4. TaskPart'
    BY <1>1, <1>2, <1>3, Unpack
       DEF TaskPart, TaskOK, InterruptFindsRuntime, UartWhileOpen, QueuedMeansTriggered
  <1> QED BY <1>3, <1>4 DEF IInv, TaskPart

(* snd_mpu401_uart_input_close: the mode bit goes before the runtime. *)
LEMMA InputCloseIInv ==
  ASSUME IInv, snd_mpu401_uart_input_close
  PROVE  IInv'
  <1>1. /\ cpu["task"].at = "close_in" /\ cpu["isr"].at = "idle"
        /\ mode' = mode \ {"INPUT"}
        /\ uart' \in BOOLEAN /\ rx' \in Seq(Bytes)
        /\ ("OUTPUT" \in mode /\ uart' = uart) \/ "OUTPUT" \notin mode
    BY Unpack DEF snd_mpu401_uart_input_close, At, Runs, UartCommand
  <1>2. /\ Goto("task", "free_in") /\ job' = job /\ UNCHANGED ringVars
        /\ opened' = opened /\ runtime' = runtime
    BY DEF snd_mpu401_uart_input_close
  <1>3. /\ TypeOK' /\ CpuOK' /\ RingsOK' /\ IsrOK' /\ RxAlone'
        /\ cpu'["task"].at = "free_in" /\ cpu'["isr"].at = "idle"
        /\ Queued' = Queued /\ out' = out
    BY <1>1, <1>2, Unpack, TaskMoved DEF Labels, Streams, Bits
  <1>4. TaskPart'
    BY <1>1, <1>2, <1>3, Unpack
       DEF TaskPart, TaskOK, InterruptFindsRuntime, UartWhileOpen, QueuedMeansTriggered
  <1> QED BY <1>3, <1>4 DEF IInv, TaskPart

(* The first step of releasing the input stops the receiver. *)
LEMMA ReleaseInputIInv ==
  ASSUME IInv, ReleaseInput
  PROVE  IInv'
  <1>1. /\ cpu["task"].at = "idle" /\ cpu["isr"].at = "idle"
        /\ mode' = mode \ {"INPUT_TRIGGER"}
    BY Unpack DEF ReleaseInput, At, Runs
  <1>2. /\ Goto("task", "close_in") /\ job' = job /\ UNCHANGED ringVars
        /\ opened' = opened /\ runtime' = runtime /\ uart' = uart /\ rx' = rx
    BY Unpack DEF ReleaseInput, portVars
  <1>3. /\ TypeOK' /\ CpuOK' /\ RingsOK' /\ IsrOK' /\ RxAlone'
        /\ cpu'["task"].at = "close_in" /\ cpu'["isr"].at = "idle"
        /\ Queued' = Queued /\ out' = out
    BY <1>1, <1>2, Unpack, TaskMoved DEF Labels, Streams, Bits
  <1>4. TaskPart'
    BY <1>1, <1>2, <1>3, Unpack
       DEF TaskPart, TaskOK, InterruptFindsRuntime, UartWhileOpen, QueuedMeansTriggered
  <1> QED BY <1>3, <1>4 DEF IInv, TaskPart

(* The output runtime is freed: its mode bit is clear and its queue empty. *)
LEMMA FreeOutputIInv ==
  ASSUME IInv, FreeOutput
  PROVE  IInv'
  <1>1. /\ cpu["task"].at = "free_out" /\ cpu["isr"].at = "idle"
        /\ opened' = opened \ {"out"} /\ runtime' = runtime \ {"out"}
    BY Unpack DEF FreeOutput, At, Runs
  <1>2. /\ Goto("task", "idle") /\ job' = job /\ UNCHANGED ringVars
        /\ mode' = mode /\ uart' = uart /\ rx' = rx
    BY DEF FreeOutput
  <1>3. /\ TypeOK' /\ CpuOK' /\ RingsOK' /\ IsrOK' /\ RxAlone'
        /\ cpu'["task"].at = "idle" /\ cpu'["isr"].at = "idle"
        /\ Queued' = Queued /\ out' = out
    BY <1>1, <1>2, Unpack, TaskMoved DEF Labels, Streams, Bits
  <1>4. TaskPart'
    BY <1>1, <1>2, <1>3, Unpack
       DEF TaskPart, TaskOK, InterruptFindsRuntime, UartWhileOpen, QueuedMeansTriggered
  <1> QED BY <1>3, <1>4 DEF IInv, TaskPart

(* A write begins. *)
LEMMA WriteIInv ==
  ASSUME IInv, NEW msg \in Seq(Bytes), Write(msg)
  PROVE  IInv'
  <1>1. /\ cpu["task"].at = "idle" /\ cpu["isr"].at = "idle" /\ "out" \in opened
    BY Unpack DEF Write, At, Runs
  <1>2. /\ Goto("task", "write") /\ job' \in JobType /\ UNCHANGED ringVars
        /\ opened' = opened /\ runtime' = runtime /\ uart' = uart /\ rx' = rx /\ mode' = mode
    BY Unpack DEF Write, portVars, JobType
  <1>3. /\ TypeOK' /\ CpuOK' /\ RingsOK' /\ IsrOK' /\ RxAlone'
        /\ cpu'["task"].at = "write" /\ cpu'["isr"].at = "idle"
        /\ Queued' = Queued /\ out' = out
    BY <1>1, <1>2, Unpack, TaskMoved DEF Labels, Streams, Bits
  <1>4. TaskPart'
    BY <1>1, <1>2, <1>3, Unpack
       DEF TaskPart, TaskOK, InterruptFindsRuntime, UartWhileOpen, QueuedMeansTriggered
  <1> QED BY <1>3, <1>4 DEF IInv, TaskPart

(* Releasing the output begins with one more byte. *)
LEMMA ReleaseOutputIInv ==
  ASSUME IInv, ReleaseOutput
  PROVE  IInv'
  <1>1. /\ cpu["task"].at = "idle" /\ cpu["isr"].at = "idle" /\ "out" \in opened
    BY Unpack DEF ReleaseOutput, At, Runs
  <1>2. /\ Goto("task", "write") /\ UNCHANGED ringVars
        /\ job' = [msg |-> <<ActiveSensing>>, n |-> 0, call |-> "release"]
        /\ opened' = opened /\ runtime' = runtime /\ uart' = uart /\ rx' = rx /\ mode' = mode
    BY Unpack DEF ReleaseOutput, portVars
  <1>2a. job' \in JobType
    BY <1>2, RawMidiAssumption DEF JobType
  <1>3. /\ TypeOK' /\ CpuOK' /\ RingsOK' /\ IsrOK' /\ RxAlone'
        /\ cpu'["task"].at = "write" /\ cpu'["isr"].at = "idle"
        /\ Queued' = Queued /\ out' = out
    BY <1>1, <1>2, <1>2a, Unpack, TaskMoved DEF Labels, Streams, Bits
  <1>4. TaskPart'
    BY <1>1, <1>2, <1>3, Unpack
       DEF TaskPart, TaskOK, InterruptFindsRuntime, UartWhileOpen, QueuedMeansTriggered
  <1> QED BY <1>3, <1>4 DEF IInv, TaskPart

(* A read begins: the receiver is started and flushes the UART at first. *)
LEMMA ReadIInv ==
  ASSUME IInv, NEW n \in Nat, Read(n)
  PROVE  IInv'
  <1>1. /\ cpu["task"].at = "idle" /\ cpu["isr"].at = "idle" /\ "in" \in opened
        /\ mode' = mode \cup {"INPUT_TRIGGER"} /\ rx' \in Seq(Bytes)
    BY Unpack DEF Read, At, Runs
  <1>2. /\ Goto("task", "rx_enter") /\ job' \in JobType /\ UNCHANGED ringVars
        /\ opened' = opened /\ runtime' = runtime /\ uart' = uart
    BY Unpack DEF Read, portVars, JobType
  <1>3. /\ TypeOK' /\ CpuOK' /\ RingsOK' /\ IsrOK' /\ RxAlone'
        /\ cpu'["task"].at = "rx_enter" /\ cpu'["isr"].at = "idle"
        /\ Queued' = Queued /\ out' = out
    BY <1>1, <1>2, Unpack, TaskMoved DEF Labels, Streams, Bits
  <1>4. TaskPart'
    BY <1>1, <1>2, <1>3, Unpack
       DEF TaskPart, TaskOK, InterruptFindsRuntime, UartWhileOpen, QueuedMeansTriggered
  <1> QED BY <1>3, <1>4 DEF IInv, TaskPart

(* After a transmission a write goes on or ends. *)
LEMMA WriteMoreIInv ==
  ASSUME IInv, WriteMore
  PROVE  IInv'
  <1>1. /\ cpu["task"].at = "written" /\ cpu["isr"].at = "idle" /\ UNCHANGED ringVars
        /\ opened' = opened /\ runtime' = runtime /\ uart' = uart /\ rx' = rx /\ mode' = mode
    BY DEF WriteMore, At, Runs, portVars
  <1>2. PICK l \in {"idle", "write"} : Goto("task", l) /\ job' \in {job, NoJob}
    BY DEF WriteMore
  <1>3. job' \in JobType
    <2>1. NoJob \in JobType
      BY EmptySeq DEF JobType, NoJob
    <2> QED BY <1>2, <2>1, Unpack
  <1>4. /\ TypeOK' /\ CpuOK' /\ RingsOK' /\ IsrOK' /\ RxAlone'
        /\ cpu'["task"].at = l /\ cpu'["isr"].at = "idle"
        /\ Queued' = Queued /\ out' = out
    BY <1>1, <1>2, <1>3, Unpack, TaskMoved DEF Labels
  <1>5. TaskPart'
    BY <1>1, <1>2, <1>4, Unpack
       DEF TaskPart, TaskOK, InterruptFindsRuntime, UartWhileOpen, QueuedMeansTriggered
  <1> QED BY <1>4, <1>5 DEF IInv, TaskPart

(* Opening gives the direction an empty ring before its mode bit is set. *)
LEMMA OpenIInv ==
  ASSUME IInv, NEW s \in Streams, Open(s)
  PROVE  IInv'
  <1>1. /\ cpu["task"].at = "idle" /\ cpu["isr"].at = "idle" /\ s \notin opened
        /\ runtime' = runtime \cup {s} /\ job' = job
        /\ opened' = opened /\ mode' = mode /\ uart' = uart /\ rx' = rx
        /\ wire' = wire /\ got' = got
    BY DEF Open, At, Runs
  <1>2. PICK l \in {"open_out", "open_in"} :
          Goto("task", l) /\ (l = "open_out" <=> s = "out") /\ (l = "open_in" <=> s = "in")
    BY DEF Open, Streams
  <1>3. CpuOK' /\ cpu'["task"].at = l /\ cpu'["isr"] = cpu["isr"]
    BY <1>1, <1>2, Moved, Unpack DEF Contexts, Labels
  <1>4. /\ out' \in Ring /\ inp' \in Ring /\ RingsOK'
        /\ s = "out" => out'.avail = Size /\ Queued' = <<>>
        /\ s = "in" => out' = out /\ Queued' = Queued
    <2>1. CASE s = "out"
      <3>1. out' = Fresh(Size) /\ inp' = inp
        BY <2>1 DEF Open
      <3>2. QueueOf(out)' = QueueOf(out') /\ StoreOf(inp)' = StoreOf(inp)
        BY <3>1 DEF QueueOf, StoreOf
      <3>3. RingsOK' /\ out' \in Ring /\ inp' \in Ring /\ QueueOf(out') = <<>>
        BY <3>1, FreshRings, Unpack DEF RingsOK
      <3>4. out'.avail = Size
        BY <3>1 DEF Fresh
      <3>5. Queued' = QueueOf(out)'
        BY DEF Queued, QueueOf
      <3> QED BY <2>1, <3>2, <3>3, <3>4, <3>5
    <2>2. CASE s # "out"
      <3>1. out' = out /\ inp' = Fresh(0)
        BY <2>2 DEF Open
      <3>2. Queued' = Queued
        BY <3>1 DEF Queued
      <3> QED BY <2>2, <3>1, <3>2, FreshRings, Unpack DEF RingsOK
    <2> QED BY <2>1, <2>2
  <1>5. TypeOK'
    BY <1>1, <1>3, <1>4, Unpack, NextTypes
  <1>6. IsrOK' /\ RxAlone' /\ InterruptFindsRuntime' /\ UartWhileOpen'
    BY <1>1, <1>2, <1>3, Unpack
       DEF IsrOK, RxAlone, InterruptFindsRuntime, UartWhileOpen, Contexts
  <1>7. TaskOK' /\ QueuedMeansTriggered'
    BY <1>1, <1>2, <1>3, <1>4, Unpack DEF TaskOK, QueuedMeansTriggered, Streams
  <1> QED BY <1>3, <1>4, <1>5, <1>6, <1>7 DEF IInv

(* Freeing the input ring: the receiver has been stopped. *)
LEMMA FreeInputIInv ==
  ASSUME IInv, FreeInput
  PROVE  IInv'
  <1>1. /\ cpu["task"].at = "free_in" /\ cpu["isr"].at = "idle"
        /\ runtime' = runtime \ {"in"} /\ opened' = opened \ {"in"}
        /\ inp' = Fresh(0) /\ Goto("task", "idle") /\ out' = out /\ job' = job
        /\ mode' = mode /\ uart' = uart /\ rx' = rx /\ wire' = wire /\ got' = got
    BY DEF FreeInput, At, Runs
  <1>2. CpuOK' /\ cpu'["task"].at = "idle" /\ cpu'["isr"] = cpu["isr"]
    BY <1>1, Moved, Unpack DEF Contexts, Labels
  <1>3. inp' \in Ring /\ RingsOK' /\ Queued' = Queued
    BY <1>1, FreshRings, Unpack DEF RingsOK, Queued
  <1>4. TypeOK'
    BY <1>1, <1>2, <1>3, Unpack, NextTypes
  <1>5. IsrOK' /\ RxAlone' /\ InterruptFindsRuntime' /\ UartWhileOpen'
    BY <1>1, <1>2, Unpack
       DEF IsrOK, RxAlone, InterruptFindsRuntime, UartWhileOpen, TaskOK, Contexts
  <1>6. TaskOK' /\ QueuedMeansTriggered'
    BY <1>1, <1>2, <1>3, Unpack DEF TaskOK, QueuedMeansTriggered
  <1> QED BY <1>2, <1>3, <1>4, <1>5, <1>6 DEF IInv

(* The drain loop ends with an empty queue; only then the trigger goes. *)
LEMMA DrainIInv ==
  ASSUME IInv, snd_rawmidi_drain_output
  PROVE  IInv'
  <1>1. /\ cpu["task"].at = "drain" /\ cpu["isr"].at = "idle"
        /\ mode' = mode \ {"OUTPUT_TRIGGER"} /\ out' = Fresh(Size)
        /\ Goto("task", "close_out") /\ inp' = inp /\ job' = NoJob
        /\ opened' = opened /\ runtime' = runtime /\ uart' = uart
        /\ rx' = rx /\ wire' = wire /\ got' = got
    BY DEF snd_rawmidi_drain_output, At, Runs, portVars
  <1>2. NoJob \in JobType
    BY EmptySeq DEF JobType, NoJob
  <1>3. CpuOK' /\ cpu'["task"].at = "close_out" /\ cpu'["isr"] = cpu["isr"]
    BY <1>1, <1>2, Moved, Unpack DEF Contexts, Labels
  <1>4. out' \in Ring /\ RingsOK' /\ Queued' = <<>> /\ out'.avail = Size
    <2>1. out'.avail = Size
      BY <1>1 DEF Fresh
    <2>2. Queued' = QueueOf(out')
      BY DEF Queued, QueueOf
    <2> QED BY <1>1, <2>1, <2>2, FreshRings, Unpack DEF RingsOK
  <1>5. TypeOK'
    BY <1>1, <1>3, <1>4, Unpack, NextTypes
  <1>6. IsrOK' /\ RxAlone' /\ InterruptFindsRuntime' /\ UartWhileOpen'
    BY <1>1, <1>3, Unpack
       DEF IsrOK, RxAlone, InterruptFindsRuntime, UartWhileOpen, Contexts
  <1>7. TaskOK' /\ QueuedMeansTriggered'
    BY <1>1, <1>3, <1>4, Unpack DEF TaskOK, QueuedMeansTriggered
  <1> QED BY <1>3, <1>4, <1>5, <1>6, <1>7 DEF IInv

(* snd_rawmidi_kernel_write1: the bytes are queued, the trigger is next. *)
LEMMA Write1Out ==
  ASSUME IInv, snd_rawmidi_kernel_write1
  PROVE  /\ out' \in Ring /\ OutRing(out') /\ job' \in JobType
         /\ \/ out' = out /\ Goto("task", "idle")
            \/ /\ Goto("task", "trigger_out")
               /\ \E t \in Seq(Bytes) : QueueOf(out') = QueueOf(out) \o t
  <1>1. CASE job.msg = <<>> \/ (out.avail = 0 /\ job.call = "write")
    <2>1. Goto("task", "idle") /\ job' = NoJob /\ out' = out
      BY <1>1 DEF snd_rawmidi_kernel_write1
    <2> QED BY <2>1, EmptySeq, Unpack DEF JobType, NoJob, RingsOK
  <1>2. CASE ~(job.msg = <<>> \/ (out.avail = 0 /\ job.call = "write"))
    <2> DEFINE n == Smaller(Len(job.msg), out.avail)
    <2>1. /\ out' = Written(out, job.msg, n) /\ Goto("task", "trigger_out")
          /\ job' = [job EXCEPT !.n = n, !.msg = SubSeq(@, n + 1, Len(@))]
      BY <1>2 DEF snd_rawmidi_kernel_write1
    <2>2. /\ job.msg \in Seq(Bytes) /\ Len(job.msg) \in Nat /\ out.avail \in Nat
          /\ job \in JobType
      BY Unpack, LenProperties, RawMidiAssumption DEF JobType, Ring
    <2>3. n \in 0 .. Len(job.msg) /\ n <= out.avail
      BY <2>2 DEF Smaller
    <2>4. /\ out' \in Ring /\ OutRing(out')
          /\ QueueOf(out') = QueueOf(out) \o SubSeq(job.msg, 1, n)
      BY <2>1, <2>2, <2>3, WrittenRing, Unpack DEF RingsOK
    <2>5. SubSeq(job.msg, 1, n) \in Seq(Bytes) /\ SubSeq(job.msg, n + 1, Len(job.msg)) \in Seq(Bytes)
      <3>1. /\ 1 \in 1 .. Len(job.msg) + 1 /\ n \in 1 - 1 .. Len(job.msg)
            /\ n + 1 \in 1 .. Len(job.msg) + 1 /\ Len(job.msg) \in (n + 1) - 1 .. Len(job.msg)
        BY <2>2, <2>3
      <3> QED BY <2>2, <3>1, PieceOf
    <2>6. job' \in JobType
      <3>1. n \in Nat
        BY <2>2, <2>3
      <3>2. job' = [msg |-> SubSeq(job.msg, n + 1, Len(job.msg)), n |-> n, call |-> job.call]
        BY <2>1, <2>2 DEF JobType
      <3> QED BY <2>2, <2>5, <3>1, <3>2 DEF JobType
    <2> QED BY <2>1, <2>4, <2>5, <2>6
  <1> QED BY <1>1, <1>2

(* snd_rawmidi_kernel_write1 keeps the inductive invariant. *)
LEMMA Write1IInv ==
  ASSUME IInv, snd_rawmidi_kernel_write1
  PROVE  IInv'
  <1>1. /\ cpu["task"].at = "write" /\ cpu["isr"].at = "idle" /\ inp' = inp
        /\ opened' = opened /\ runtime' = runtime /\ uart' = uart /\ mode' = mode
        /\ rx' = rx /\ wire' = wire /\ got' = got
    BY DEF snd_rawmidi_kernel_write1, At, Runs, portVars
  <1>2. PICK l \in {"idle", "trigger_out"} :
          Goto("task", l) /\ (l = "idle" => out' = out)
    BY Write1Out
  <1>3. CpuOK' /\ cpu'["task"].at = l /\ cpu'["isr"] = cpu["isr"]
    BY <1>2, Write1Out, Moved, Unpack DEF Contexts, Labels
  <1>4. RingsOK' /\ out' \in Ring /\ (l = "idle" => Queued' = Queued)
    BY <1>1, <1>2, Write1Out, Unpack DEF RingsOK, Queued
  <1>5. TypeOK'
    BY <1>1, <1>3, <1>4, Unpack, NextTypes
  <1>6. IsrOK' /\ RxAlone' /\ InterruptFindsRuntime' /\ UartWhileOpen'
    BY <1>1, <1>2, <1>3, Unpack
       DEF IsrOK, RxAlone, InterruptFindsRuntime, UartWhileOpen, Contexts
  <1>7. TaskOK' /\ QueuedMeansTriggered'
    BY <1>1, <1>2, <1>3, <1>4, Unpack DEF TaskOK, QueuedMeansTriggered
  <1> QED BY <1>3, <1>4, <1>5, <1>6, <1>7 DEF IInv

(* One piece of a read. *)
LEMMA Read1Inp ==
  ASSUME IInv, snd_rawmidi_kernel_read1
  PROVE  /\ inp' \in Ring /\ InRing(inp') /\ got' \in Seq(Bytes) /\ job' \in JobType
         /\ \/ inp' = inp /\ got' = <<>> /\ Goto("task", "idle")
            \/ /\ cpu' = cpu
               /\ \E n \in 1 .. Len(StoreOf(inp)) :
                    /\ got' = SubSeq(StoreOf(inp), 1, n)
                    /\ StoreOf(inp') = SubSeq(StoreOf(inp), n + 1, Len(StoreOf(inp)))
  <1> USE RawMidiAssumption
  <1>0. /\ inp \in Ring /\ inp.avail \in 0 .. Size /\ inp.appl_ptr \in 0 .. Size - 1
        /\ InRing(inp) /\ job.n \in Nat /\ job \in JobType /\ <<>> \in Seq(Bytes)
    BY Unpack DEF Ring, RingsOK, JobType
  <1>1. CASE job.n = 0 \/ inp.avail = 0
    <2>1. Goto("task", "idle") /\ job' = NoJob /\ got' = <<>> /\ inp' = inp
      BY <1>1 DEF snd_rawmidi_kernel_read1
    <2> QED BY <1>0, <2>1 DEF JobType, NoJob
  <1>2. CASE ~(job.n = 0 \/ inp.avail = 0)
    <2> DEFINE n == Piece(inp, job.n)
    <2>1. /\ got' = SubSeq(Stored, 1, n) /\ inp' = Consumed(inp, n) /\ cpu' = cpu
          /\ job' = [job EXCEPT !.n = @ - n]
      BY <1>2 DEF snd_rawmidi_kernel_read1
    <2>2. n \in 1 .. inp.avail /\ n <= job.n
      BY <1>0, <1>2 DEF Piece, Smaller
    <2>3. Len(StoreOf(inp)) = inp.avail /\ StoreOf(inp) \in Seq(Bytes)
      BY <1>0, QueueFacts DEF InRing
    <2> HIDE DEF n
    <2>4. /\ inp' \in Ring /\ InRing(inp')
          /\ StoreOf(inp') = SubSeq(StoreOf(inp), n + 1, Len(StoreOf(inp)))
      <3>1. n \in 0 .. inp.avail
        BY <1>0, <2>2
      <3> QED BY <1>0, <2>1, <3>1, ConsumedRing
    <2>5. got' = SubSeq(StoreOf(inp), 1, n)
      BY <2>1, QueuedStored
    <2>6. got' \in Seq(Bytes)
      <3>1. 1 \in 1 .. Len(StoreOf(inp)) + 1 /\ n \in 1 - 1 .. Len(StoreOf(inp))
        BY <1>0, <2>2, <2>3
      <3> QED BY <2>3, <2>5, <3>1, PieceOf
    <2>7. job' \in JobType
      <3>1. job.n - n \in Nat
        BY <1>0, <2>2
      <3>2. job' = [msg |-> job.msg, n |-> job.n - n, call |-> job.call]
        BY <1>0, <2>1 DEF JobType
      <3> QED BY <1>0, <3>1, <3>2 DEF JobType
    <2> QED BY <2>1, <2>2, <2>3, <2>4, <2>5, <2>6, <2>7
  <1> QED BY <1>1, <1>2

(* snd_rawmidi_kernel_read1 keeps the inductive invariant. *)
LEMMA Read1IInv ==
  ASSUME IInv, snd_rawmidi_kernel_read1
  PROVE  IInv'
  <1>1. /\ cpu["task"].at = "read" /\ cpu["isr"].at = "idle" /\ out' = out
        /\ opened' = opened /\ runtime' = runtime /\ uart' = uart /\ mode' = mode
        /\ rx' = rx /\ wire' = wire
    BY DEF snd_rawmidi_kernel_read1, At, Runs, portVars
  <1>2. /\ CpuOK' /\ cpu'["isr"] = cpu["isr"] /\ cpu'["task"].at \in {"idle", "read"}
    <2>1. CASE Goto("task", "idle")
      BY <2>1, Read1Inp, Moved, Unpack DEF Contexts, Labels
    <2>2. CASE cpu' = cpu
      BY <1>1, <2>2, Read1Inp, Unpack DEF CpuOK
    <2> QED BY <2>1, <2>2, Read1Inp
  <1>3. RingsOK' /\ inp' \in Ring /\ Queued' = Queued
    BY <1>1, Read1Inp, Unpack DEF RingsOK, Queued
  <1>4. TypeOK'
    BY <1>1, <1>2, <1>3, Read1Inp, Unpack, NextTypes
  <1>5. IsrOK' /\ RxAlone' /\ InterruptFindsRuntime' /\ UartWhileOpen'
    BY <1>1, <1>2, Unpack
       DEF IsrOK, RxAlone, InterruptFindsRuntime, UartWhileOpen, Contexts
  <1>6. TaskOK' /\ QueuedMeansTriggered'
    BY <1>1, <1>2, <1>3, Unpack DEF TaskOK, QueuedMeansTriggered
  <1> QED BY <1>2, <1>3, <1>4, <1>5, <1>6 DEF IInv

(* A context enters a loop. *)
LEMMA Entered ==
  ASSUME CpuOK, NEW c \in Contexts, NEW l \in {"tx", "rx"}, NEW max \in Nat \ {0},
         Enter(c, l, max), job' = job
  PROVE  CpuOK' /\ cpu'[c].at = l /\ \A d \in Contexts \ {c} : cpu'[d] = cpu[d]
  <1>1. /\ cpu' \in CpuType /\ cpu'[c].at = l /\ cpu'[c].max = max
        /\ \A d \in Contexts \ {c} : cpu'[d] = cpu[d]
    BY DEF CpuOK, CpuType, Enter, Labels
  <1> QED BY <1>1 DEF CpuOK

(* The transmit loop takes and leaves its bit. *)
LEMMA TxEnterIInv ==
  ASSUME IInv, NEW c \in Contexts, TxEnter(c)
  PROVE  IInv'
  <1> USE RawMidiAssumption
  <1>1. /\ cpu[c].at = "tx_enter" /\ (c = "task" => cpu["isr"].at = "idle")
        /\ UNCHANGED ringVars /\ job' = job /\ rx' = rx
        /\ opened' = opened /\ runtime' = runtime /\ uart' = uart
    BY DEF TxEnter, At, Runs, portVars
  <1>2. PICK l \in {"idle", "drain", "written", "tx"} :
          /\ CpuOK' /\ cpu'[c].at = l /\ \A d \in Contexts \ {c} : cpu'[d] = cpu[d]
          /\ \/ mode' = mode /\ l # "tx" /\ (c = "isr" => l = "idle")
                /\ (c = "task" => l # "idle")
             \/ l = "tx" /\ mode' = mode \cup {"TX_LOOP"}
                /\ (c = "isr" => "OUTPUT" \in mode)
    <2>1. CASE Enter(c, "tx", TxMax) /\ mode' = mode \cup {"TX_LOOP"}
                 /\ (c = "isr" => "OUTPUT" \in mode)
      BY <1>1, <2>1, Entered, Unpack
    <2>2. CASE Leave(c, AfterTx(c)) /\ mode' = mode
      <3>1. /\ AfterTx(c) \in {"idle", "drain", "written"}
            /\ (c = "isr" <=> AfterTx(c) = "idle")
        BY DEF AfterTx
      <3>2. AfterTx(c) \in Labels \ {"tx", "receive"}
        BY <3>1 DEF Labels
      <3> QED BY <1>1, <2>2, <3>1, <3>2, Moved, Unpack DEF Contexts
    <2> QED BY <2>1, <2>2 DEF TxEnter
  <1>3. TypeOK' /\ RingsOK' /\ Queued' = Queued /\ out' = out
    BY <1>1, <1>2, RingsKept, NextTypes, Unpack DEF Bits
  <1>4. IsrOK' /\ RxAlone'
    BY <1>1, <1>2, Unpack DEF IsrOK, RxAlone, Contexts
  <1>5. InterruptFindsRuntime' /\ UartWhileOpen'
    BY <1>1, <1>2, Unpack DEF InterruptFindsRuntime, UartWhileOpen, Contexts
  <1>6. TaskOK' /\ QueuedMeansTriggered'
    BY <1>1, <1>2, <1>3, Unpack DEF TaskOK, QueuedMeansTriggered, Contexts
  <1> QED BY <1>2, <1>3, <1>4, <1>5, <1>6 DEF IInv

(* Leaving the transmit loop keeps the inductive invariant. *)
LEMMA TxEndIInv ==
  ASSUME IInv, NEW c \in Contexts, TxEmpty(c) \/ TxDone(c)
  PROVE  IInv'
  <1>1. /\ cpu[c].at \in {"tx", "tx_done"} /\ (c = "task" => cpu["isr"].at = "idle")
        /\ UNCHANGED ringVars /\ job' = job /\ rx' = rx
        /\ opened' = opened /\ runtime' = runtime /\ uart' = uart
        /\ mode' \in {mode, mode \ {"TX_LOOP"}}
    BY DEF TxEmpty, TxDone, At, Runs, portVars
  <1>2. PICK l \in {"idle", "drain", "written", "tx_done"} :
          /\ CpuOK' /\ cpu'[c].at = l /\ \A d \in Contexts \ {c} : cpu'[d] = cpu[d]
          /\ (c = "isr" => l \in {"idle", "tx_done"})
          /\ (c = "task" => l # "idle")
    <2>1. CASE Goto(c, "tx_done")
      BY <1>1, <2>1, Moved, Unpack DEF Labels
    <2>2. CASE Leave(c, AfterTx(c))
      <3>1. /\ AfterTx(c) \in {"idle", "drain", "written"}
            /\ (c = "isr" <=> AfterTx(c) = "idle")
        BY DEF AfterTx
      <3>2. AfterTx(c) \in Labels \ {"tx", "receive"}
        BY <3>1 DEF Labels
      <3> QED BY <1>1, <2>2, <3>1, <3>2, Moved, Unpack DEF Contexts
    <2> QED BY <2>1, <2>2 DEF TxEmpty, TxDone
  <1>3. TypeOK' /\ RingsOK' /\ Queued' = Queued /\ out' = out
    BY <1>1, <1>2, RingsKept, NextTypes, Unpack
  <1>4. IsrOK' /\ RxAlone'
    BY <1>1, <1>2, Unpack DEF IsrOK, RxAlone, Contexts
  <1>5. InterruptFindsRuntime' /\ UartWhileOpen'
    BY <1>1, <1>2, Unpack DEF InterruptFindsRuntime, UartWhileOpen, Contexts
  <1>6. TaskOK' /\ QueuedMeansTriggered'
    BY <1>1, <1>2, <1>3, Unpack DEF TaskOK, QueuedMeansTriggered, Contexts
  <1> QED BY <1>2, <1>3, <1>4, <1>5, <1>6 DEF IInv

(* A turn of the transmit loop sends the oldest byte, or waits. *)
LEMMA TxByteOut ==
  ASSUME IInv, NEW c \in Contexts, TxByte(c)
  PROVE  /\ out' \in Ring /\ OutRing(out') /\ wire' \in Seq(Bytes)
         /\ Len(QueueOf(out)) \in Nat \ {0} /\ out.avail < Size
         /\ \/ out' = out /\ wire' = wire
            \/ /\ wire = <<>> /\ wire' = <<QueueOf(out)[1]>>
               /\ QueueOf(out') = SubSeq(QueueOf(out), 2, Len(QueueOf(out)))
  <1>1. /\ out \in Ring /\ OutRing(out) /\ out.avail < Size /\ wire \in Seq(Bytes)
    BY Unpack DEF RingsOK, TxByte
  <1>2. /\ Acked(out) \in Ring /\ OutRing(Acked(out)) /\ QueueOf(out) # <<>>
        /\ out.buf[out.hw_ptr] = QueueOf(out)[1]
        /\ QueueOf(Acked(out)) = SubSeq(QueueOf(out), 2, Len(QueueOf(out)))
    BY <1>1, AckedRing
  <1>3. QueueOf(out) \in Seq(Bytes) /\ Len(QueueOf(out)) \in Nat \ {0}
    BY <1>1, <1>2, EmptySeq DEF OutRing
  <1>4. QueueOf(out)[1] \in Bytes
    BY <1>3, ElementOfSeq
  <1>5. <<QueueOf(out)[1]>> \in Seq(Bytes)
    BY <1>4
  <1> QED BY <1>1, <1>2, <1>3, <1>5 DEF TxByte

(* A turn of the transmit loop keeps the inductive invariant. *)
LEMMA TxByteIInv ==
  ASSUME IInv, NEW c \in Contexts, TxByte(c)
  PROVE  IInv'
  <1>1. /\ cpu[c].at = "tx" /\ (c = "task" => cpu["isr"].at = "idle")
        /\ job' = job /\ rx' = rx /\ inp' = inp /\ got' = got
        /\ opened' = opened /\ runtime' = runtime /\ uart' = uart /\ mode' = mode
    BY DEF TxByte, At, Runs, portVars
  <1>2. PICK l \in {"tx", "tx_done"} :
          /\ CpuOK' /\ cpu'[c].at = l /\ \A d \in Contexts \ {c} : cpu'[d] = cpu[d]
    <2> DEFINE l == IF cpu[c].max = 1 THEN "tx_done" ELSE "tx"
    <2>1. /\ cpu \in CpuType /\ cpu[c].max \in Nat \ {0}
          /\ cpu' = [cpu EXCEPT ![c].max = @ - 1, ![c].at = l]
      BY <1>1, Unpack DEF TxByte, CpuOK, CpuType
    <2>2. cpu[c].max - 1 \in Nat /\ (l = "tx" => cpu[c].max - 1 # 0)
      BY <2>1
    <2>3. /\ cpu' \in CpuType /\ cpu'[c].at = l /\ cpu'[c].max = cpu[c].max - 1
          /\ \A d \in Contexts \ {c} : cpu'[d] = cpu[d]
      BY <2>1, <2>2 DEF CpuType, Labels
    <2>4. CpuOK'
      BY <1>1, <2>2, <2>3, Unpack DEF CpuOK
    <2> QED BY <2>3, <2>4
  <1>3. RingsOK' /\ TypeOK'
    BY <1>1, <1>2, TxByteOut, NextTypes, Unpack DEF RingsOK
  <1>4. IsrOK' /\ RxAlone'
    BY <1>1, <1>2, Unpack DEF IsrOK, RxAlone, Contexts
  <1>5. InterruptFindsRuntime' /\ UartWhileOpen'
    BY <1>1, <1>2, Unpack DEF InterruptFindsRuntime, UartWhileOpen, Contexts
  <1>6. TaskOK'
    <2>1. out.avail # Size
      BY TxByteOut, RawMidiAssumption
    <2> QED BY <1>1, <1>2, <2>1, Unpack DEF TaskOK, Contexts
  <1>7. QueuedMeansTriggered'
    <2>1. Queued # <<>>
      BY TxByteOut, QueuedStored, EmptySeq
    <2> QED BY <1>1, <1>2, <2>1, Unpack DEF QueuedMeansTriggered, Contexts
  <1> QED BY <1>2, <1>3, <1>4, <1>5, <1>6, <1>7 DEF IInv

(* The receive loop: entered only when the other context is not in it. *)
LEMMA RxEnterIInv ==
  ASSUME IInv, NEW c \in Contexts, RxEnter(c)
  PROVE  IInv'
  <1> USE RawMidiAssumption
  <1>1. /\ cpu[c].at = "rx_enter" /\ (c = "task" => cpu["isr"].at = "idle")
        /\ UNCHANGED ringVars /\ job' = job /\ rx' = rx
        /\ opened' = opened /\ runtime' = runtime /\ uart' = uart
    BY DEF RxEnter, At, Runs, portVars
  <1>2. PICK l \in {"tx_enter", "read", "rx"} :
          /\ CpuOK' /\ cpu'[c].at = l /\ \A d \in Contexts \ {c} : cpu'[d] = cpu[d]
          /\ (c = "isr" => l # "read") /\ (c = "task" => l # "tx_enter")
          /\ \/ mode' = mode /\ l # "rx"
             \/ l = "rx" /\ "RX_LOOP" \notin mode /\ mode' = mode \cup {"RX_LOOP"}
    <2>1. CASE "RX_LOOP" \notin mode /\ Enter(c, "rx", RxMax) /\ mode' = mode \cup {"RX_LOOP"}
      BY <1>1, <2>1, Entered, Unpack
    <2>2. CASE Leave(c, AfterRx(c)) /\ mode' = mode
      <3>1. /\ AfterRx(c) \in {"tx_enter", "read"}
            /\ (c = "isr" <=> AfterRx(c) = "tx_enter")
        BY DEF AfterRx
      <3>2. AfterRx(c) \in Labels \ {"tx", "receive"}
        BY <3>1 DEF Labels
      <3> QED BY <1>1, <2>2, <3>1, <3>2, Moved, Unpack DEF Contexts
    <2> QED BY <2>1, <2>2 DEF RxEnter
  <1>3. TypeOK' /\ RingsOK' /\ Queued' = Queued /\ out' = out
    BY <1>1, <1>2, RingsKept, NextTypes, Unpack DEF Bits
  <1>4. IsrOK' /\ RxAlone'
    BY <1>1, <1>2, Unpack DEF IsrOK, RxAlone, Contexts
  <1>5. InterruptFindsRuntime' /\ UartWhileOpen'
    BY <1>1, <1>2, Unpack DEF InterruptFindsRuntime, UartWhileOpen, IsrOK, Contexts
  <1>6. TaskOK' /\ QueuedMeansTriggered'
    BY <1>1, <1>2, <1>3, Unpack DEF TaskOK, QueuedMeansTriggered, Contexts
  <1> QED BY <1>2, <1>3, <1>4, <1>5, <1>6 DEF IInv

(* Leaving the receive loop keeps the inductive invariant. *)
LEMMA RxDoneIInv ==
  ASSUME IInv, NEW c \in Contexts, RxDone(c)
  PROVE  IInv'
  <1>1. /\ cpu[c].at = "rx" /\ (c = "task" => cpu["isr"].at = "idle")
        /\ UNCHANGED ringVars /\ job' = job /\ rx' = rx
        /\ opened' = opened /\ runtime' = runtime /\ uart' = uart
        /\ mode' = mode \ {"RX_LOOP"} /\ Leave(c, AfterRx(c))
    BY DEF RxDone, At, Runs, portVars
  <1>2. PICK l \in {"tx_enter", "read"} :
          /\ CpuOK' /\ cpu'[c].at = l /\ \A d \in Contexts \ {c} : cpu'[d] = cpu[d]
          /\ (c = "isr" <=> l = "tx_enter")
    <2>1. /\ AfterRx(c) \in {"tx_enter", "read"}
          /\ (c = "isr" <=> AfterRx(c) = "tx_enter")
      BY DEF AfterRx
    <2>2. AfterRx(c) \in Labels \ {"tx", "receive"}
      BY <2>1 DEF Labels
    <2> QED BY <1>1, <2>1, <2>2, Moved, Unpack DEF Contexts
  <1>3. TypeOK' /\ RingsOK' /\ Queued' = Queued /\ out' = out
    BY <1>1, <1>2, RingsKept, NextTypes, Unpack
  <1>4. IsrOK' /\ RxAlone'
    BY <1>1, <1>2, Unpack DEF IsrOK, RxAlone, Contexts
  <1>5. InterruptFindsRuntime' /\ UartWhileOpen'
    BY <1>1, <1>2, Unpack DEF InterruptFindsRuntime, UartWhileOpen, Contexts
  <1>6. TaskOK' /\ QueuedMeansTriggered'
    BY <1>1, <1>2, <1>3, Unpack DEF TaskOK, QueuedMeansTriggered, Contexts
  <1> QED BY <1>2, <1>3, <1>4, <1>5, <1>6 DEF IInv

(* A byte is taken from the UART, for the ring or to be forgotten. *)
LEMMA RxByteCpu ==
  ASSUME IInv, NEW c \in Contexts, RxByte(c)
  PROVE  /\ CpuOK' /\ rx' \in Seq(Bytes) /\ cpu[c].at = "rx"
         /\ \A d \in Contexts \ {c} : cpu'[d] = cpu[d]
         /\ \/ rx = <<>> /\ rx' = rx /\ cpu'[c].at = "rx"
            \/ /\ rx # <<>> /\ rx' = Tail(rx)
               /\ \/ cpu'[c].at = "rx"
                  \/ cpu'[c].at = "receive" /\ cpu'[c].byte = Head(rx)
  <1>1. /\ cpu \in CpuType /\ cpu[c].max \in Nat \ {0} /\ cpu[c].at = "rx" /\ job' = job
        /\ rx \in Seq(Bytes)
    BY Unpack DEF RxByte, At, CpuType
  <1>2. cpu[c].max - 1 \in Nat
    BY <1>1
  <1>3. CASE rx = <<>>
    <2>1. cpu' = [cpu EXCEPT ![c].max = @ - 1] /\ rx' = rx
      BY <1>3 DEF RxByte
    <2>2. /\ cpu' \in CpuType /\ cpu'[c].at = "rx"
          /\ \A d \in Contexts \ {c} : cpu'[d] = cpu[d]
      BY <1>1, <1>2, <2>1 DEF CpuType
    <2>3. CpuOK'
      BY <1>1, <2>2, Unpack DEF CpuOK
    <2> QED BY <1>1, <1>3, <2>1, <2>2, <2>3
  <1>4. CASE rx # <<>> /\ "INPUT_TRIGGER" \in mode
    <2>1. /\ cpu' = [cpu EXCEPT ![c] =
                       [at |-> "receive", max |-> cpu[c].max - 1, byte |-> Head(rx)]]
          /\ rx' = Tail(rx)
      BY <1>4 DEF RxByte
    <2>2. Head(rx) \in Bytes /\ Tail(rx) \in Seq(Bytes)
      BY <1>1, <1>4, HeadTailProperties
    <2>3. /\ cpu' \in CpuType /\ cpu'[c].at = "receive" /\ cpu'[c].byte = Head(rx)
          /\ \A d \in Contexts \ {c} : cpu'[d] = cpu[d]
      BY <1>1, <1>2, <2>1, <2>2 DEF CpuType, Labels
    <2>4. CpuOK'
      BY <1>1, <2>2, <2>3, Unpack DEF CpuOK
    <2> QED BY <1>1, <1>4, <2>1, <2>2, <2>3, <2>4
  <1>5. CASE rx # <<>> /\ "INPUT_TRIGGER" \notin mode
    <2>1. /\ cpu' = [cpu EXCEPT ![c] = [cpu[c] EXCEPT !.max = @ - 1]]
          /\ rx' = Tail(rx)
      BY <1>5 DEF RxByte
    <2>2. Tail(rx) \in Seq(Bytes)
      BY <1>1, <1>5, HeadTailProperties
    <2>3. /\ cpu' \in CpuType /\ cpu'[c].at = "rx"
          /\ \A d \in Contexts \ {c} : cpu'[d] = cpu[d]
      BY <1>1, <1>2, <2>1 DEF CpuType
    <2>4. CpuOK'
      BY <1>1, <2>3, Unpack DEF CpuOK
    <2> QED BY <1>1, <1>5, <2>1, <2>2, <2>3, <2>4
  <1> QED BY <1>3, <1>4, <1>5

(* A turn of the receive loop keeps the inductive invariant. *)
LEMMA RxByteIInv ==
  ASSUME IInv, NEW c \in Contexts, RxByte(c)
  PROVE  IInv'
  <1>1. /\ cpu[c].at = "rx" /\ (c = "task" => cpu["isr"].at = "idle")
        /\ UNCHANGED ringVars /\ opened' = opened /\ runtime' = runtime
        /\ uart' = uart /\ mode' = mode
    BY DEF RxByte, At, Runs, portVars
  <1>2. /\ CpuOK' /\ cpu'[c].at \in {"rx", "receive"}
        /\ \A d \in Contexts \ {c} : cpu'[d] = cpu[d]
    BY RxByteCpu
  <1>3. TypeOK' /\ RingsOK' /\ Queued' = Queued /\ out' = out
    BY <1>1, <1>2, RxByteCpu, RingsKept, NextTypes, Unpack
  <1>4. IsrOK' /\ RxAlone'
    BY <1>1, <1>2, Unpack DEF IsrOK, RxAlone, Contexts
  <1>5. InterruptFindsRuntime' /\ UartWhileOpen'
    BY <1>1, <1>2, Unpack DEF InterruptFindsRuntime, UartWhileOpen, Contexts
  <1>6. TaskOK' /\ QueuedMeansTriggered'
    BY <1>1, <1>2, <1>3, Unpack DEF TaskOK, QueuedMeansTriggered, Contexts
  <1> QED BY <1>2, <1>3, <1>4, <1>5, <1>6 DEF IInv

(* snd_rawmidi_receive stores the byte if there is room. *)
LEMMA ReceiveInp ==
  ASSUME IInv, NEW c \in Contexts, snd_rawmidi_receive(c)
  PROVE  /\ inp' \in Ring /\ InRing(inp') /\ cpu[c].at = "receive" /\ cpu[c].byte \in Bytes
         /\ CpuOK' /\ cpu'[c].at = "rx" /\ \A d \in Contexts \ {c} : cpu'[d] = cpu[d]
         /\ \/ inp' = inp
            \/ StoreOf(inp') = Append(StoreOf(inp), cpu[c].byte)
  <1>1. /\ cpu \in CpuType /\ cpu[c].at = "receive" /\ cpu[c].byte \in Bytes /\ job' = job
        /\ inp \in Ring /\ InRing(inp)
    BY Unpack DEF snd_rawmidi_receive, At, CpuOK, RingsOK
  <1>2. /\ cpu' \in CpuType /\ cpu'[c].at = "rx"
        /\ \A d \in Contexts \ {c} : cpu'[d] = cpu[d]
    BY <1>1 DEF snd_rawmidi_receive, CpuType, Labels
  <1>3. CpuOK'
    BY <1>1, <1>2, Unpack DEF CpuOK
  <1>4. CASE inp.avail < Size
    <2>1. inp' = Received(inp, cpu[c].byte)
      BY <1>4 DEF snd_rawmidi_receive
    <2> QED BY <1>1, <1>2, <1>3, <1>4, <2>1, ReceivedRing
  <1>5. CASE ~(inp.avail < Size)
    BY <1>1, <1>2, <1>3, <1>5 DEF snd_rawmidi_receive
  <1> QED BY <1>4, <1>5

(* snd_rawmidi_receive keeps the inductive invariant. *)
LEMMA ReceiveIInv ==
  ASSUME IInv, NEW c \in Contexts, snd_rawmidi_receive(c)
  PROVE  IInv'
  <1>1. /\ cpu[c].at = "receive" /\ (c = "task" => cpu["isr"].at = "idle")
        /\ out' = out /\ wire' = wire /\ got' = got /\ rx' = rx
        /\ opened' = opened /\ runtime' = runtime /\ uart' = uart /\ mode' = mode
    BY DEF snd_rawmidi_receive, At, Runs, portVars
  <1>2. /\ CpuOK' /\ cpu'[c].at = "rx" /\ \A d \in Contexts \ {c} : cpu'[d] = cpu[d]
    BY ReceiveInp
  <1>3. TypeOK' /\ RingsOK' /\ Queued' = Queued
    BY <1>1, ReceiveInp, NextTypes, Unpack DEF RingsOK, Queued
  <1>4. IsrOK' /\ RxAlone'
    BY <1>1, <1>2, Unpack DEF IsrOK, RxAlone, Contexts
  <1>5. InterruptFindsRuntime' /\ UartWhileOpen'
    BY <1>1, <1>2, Unpack DEF InterruptFindsRuntime, UartWhileOpen, Contexts
  <1>6. TaskOK' /\ QueuedMeansTriggered'
    BY <1>1, <1>2, <1>3, Unpack DEF TaskOK, QueuedMeansTriggered, Contexts
  <1> QED BY <1>2, <1>3, <1>4, <1>5, <1>6 DEF IInv

(* The device sends, receives and interrupts. *)
LEMMA DeviceIInv ==
  ASSUME IInv, DeviceReady \/ \E b \in Bytes : ByteArrives(b)
  PROVE  IInv'
  <1>1. /\ opened' = opened /\ runtime' = runtime /\ uart' = uart /\ mode' = mode
        /\ cpu' = cpu /\ job' = job /\ out' = out /\ inp' = inp /\ got' = got
    BY DEF DeviceReady, ByteArrives, portVars, ringVars
  <1>2. rx' \in Seq(Bytes) /\ wire' \in Seq(Bytes)
    <2>1. CASE DeviceReady
      BY <2>1, Unpack DEF DeviceReady
    <2>2. ASSUME NEW b \in Bytes, ByteArrives(b) PROVE rx' \in Seq(Bytes) /\ wire' = wire
      BY <2>2, Unpack, AppendProperties DEF ByteArrives, ringVars
    <2> QED BY <2>1, <2>2, Unpack
  <1>3. CpuOK'
    BY <1>1, Unpack DEF CpuOK
  <1>4. TypeOK' /\ RingsOK' /\ Queued' = Queued
    BY <1>1, <1>2, <1>3, NextTypes, Unpack DEF RingsOK, Queued
  <1>5. IsrOK' /\ RxAlone' /\ InterruptFindsRuntime' /\ UartWhileOpen'
    BY <1>1, Unpack DEF IsrOK, RxAlone, InterruptFindsRuntime, UartWhileOpen
  <1>6. TaskOK' /\ QueuedMeansTriggered'
    BY <1>1, <1>4, Unpack DEF TaskOK, QueuedMeansTriggered
  <1> QED BY <1>3, <1>4, <1>5, <1>6 DEF IInv

(* The entry of snd_mpu401_uart_interrupt keeps the inductive invariant. *)
LEMMA InterruptIInv ==
  ASSUME IInv, snd_mpu401_uart_interrupt
  PROVE  IInv'
  <1>1. /\ opened' = opened /\ runtime' = runtime /\ uart' = uart /\ mode' = mode
        /\ cpu["isr"].at = "idle" /\ UNCHANGED ringVars /\ job' = job
        /\ rx' \in Seq(Bytes)
    BY Unpack DEF snd_mpu401_uart_interrupt, portVars
  <1>2. PICK l \in {"rx_enter", "tx_enter"} :
          Goto("isr", l) /\ (l = "rx_enter" => "INPUT" \in mode)
    BY DEF snd_mpu401_uart_interrupt
  <1>3. CpuOK' /\ cpu'["isr"].at = l /\ cpu'["task"] = cpu["task"]
    BY <1>1, <1>2, Moved, Unpack DEF Contexts, Labels
  <1>4. TypeOK' /\ RingsOK' /\ Queued' = Queued /\ out' = out
    BY <1>1, <1>3, RingsKept, NextTypes, Unpack
  <1>5. IsrOK' /\ RxAlone' /\ InterruptFindsRuntime' /\ UartWhileOpen'
    BY <1>1, <1>2, <1>3, Unpack
       DEF IsrOK, RxAlone, InterruptFindsRuntime, UartWhileOpen, Contexts
  <1>6. TaskOK' /\ QueuedMeansTriggered'
    BY <1>1, <1>3, <1>4, Unpack DEF TaskOK, QueuedMeansTriggered
  <1> QED BY <1>3, <1>4, <1>5, <1>6 DEF IInv

(* The turns of the two loops, whichever context takes them. *)
LEMMA LoopsIInv ==
  ASSUME IInv, NEW c \in Contexts, Loops(c)
  PROVE  IInv'
  BY TxEnterIInv, TxByteIInv, TxEndIInv, RxEnterIInv, RxByteIInv, ReceiveIInv,
     RxDoneIInv DEF Loops

(* Every step keeps the invariant. *)
LEMMA NextIInv ==
  ASSUME IInv, [Next]_vars
  PROVE  IInv'
  <1>1. CASE \E s \in Streams : Open(s)
    BY <1>1, OpenIInv
  <1>2. CASE \E n \in Requests : Read(n) \/ \E msg \in [1 .. n -> Bytes] : Write(msg)
    <2>1. PICK n \in Requests : Read(n) \/ \E msg \in [1 .. n -> Bytes] : Write(msg)
      BY <1>2
    <2>2. n \in Nat
      BY RawMidiAssumption
    <2>3. ASSUME NEW msg \in [1 .. n -> Bytes] PROVE msg \in Seq(Bytes)
      BY <2>2
    <2> QED BY <2>1, <2>2, <2>3, ReadIInv, WriteIInv
  <1>3. CASE ReleaseInput \/ ReleaseOutput
    BY <1>3, ReleaseInputIInv, ReleaseOutputIInv
  <1>4. CASE Proceed
    <2>1. CASE Loops("task")
      BY <2>1, LoopsIInv DEF Contexts
    <2>2. CASE snd_mpu401_uart_output_open \/ snd_mpu401_uart_input_open
      BY <2>2, OutputOpenIInv, InputOpenIInv
    <2>3. CASE snd_rawmidi_kernel_write1 \/ snd_mpu401_uart_output_trigger \/ WriteMore
      BY <2>3, Write1IInv, TriggerIInv, WriteMoreIInv
    <2>4. CASE snd_rawmidi_kernel_read1 \/ snd_mpu401_uart_input_close \/ FreeInput
      BY <2>4, Read1IInv, InputCloseIInv, FreeInputIInv
    <2>5. CASE snd_rawmidi_drain_output \/ snd_mpu401_uart_output_close \/ FreeOutput
      BY <2>5, DrainIInv, OutputCloseIInv, FreeOutputIInv
    <2> QED BY <1>4, <2>1, <2>2, <2>3, <2>4, <2>5 DEF Proceed
  <1>5. CASE snd_mpu401_uart_interrupt \/ Loops("isr")
    BY <1>5, InterruptIInv, LoopsIInv DEF Contexts
  <1>6. CASE DeviceReady \/ \E b \in Bytes : ByteArrives(b)
    BY <1>6, DeviceIInv
  <1>7. CASE UNCHANGED vars
    <2>1. /\ opened' = opened /\ runtime' = runtime /\ uart' = uart /\ mode' = mode
          /\ cpu' = cpu /\ job' = job /\ rx' = rx /\ out' = out /\ inp' = inp
          /\ wire' = wire /\ got' = got
      BY <1>7 DEF vars
    <2>2. CpuOK' /\ RingsOK' /\ IsrOK' /\ TaskOK' /\ RxAlone'
      BY <2>1, Unpack DEF CpuOK, RingsOK, IsrOK, TaskOK, RxAlone
    <2>3. TypeOK'
      BY <2>1, <2>2, NextTypes, Unpack
    <2>4. InterruptFindsRuntime' /\ UartWhileOpen' /\ QueuedMeansTriggered'
      BY <2>1, Unpack DEF InterruptFindsRuntime, UartWhileOpen,
                          QueuedMeansTriggered, Queued
    <2> QED BY <2>2, <2>3, <2>4 DEF IInv
  <1> QED BY <1>1, <1>2, <1>3, <1>4, <1>5, <1>6, <1>7 DEF Next

(* IInv is an invariant. *)
THEOREM Invariance == Spec => []IInv
  <1>1. IInv /\ [Next]_vars => IInv'
    BY NextIInv
  <1> QED BY <1>1, InitIInv, PTL DEF Spec

(* The parts of a MIDI port agree wherever the interrupt of the UART falls  *)
(* between the steps of opening, writing, reading and releasing it.         *)
THEOREM PortStaysConsistent == Spec => []PortConsistent
  <1>1. IInv => PortConsistent
    BY DEF IInv, PortConsistent
  <1> QED BY <1>1, Invariance, PTL

(***************************************************************************)
(* The output implements ByteQueue.                                        *)
(***************************************************************************)

(* A sequence that grows at its end has the old one as a prefix. *)
LEMMA Grown ==
  ASSUME NEW q \in Seq(Bytes), NEW t \in Seq(Bytes)
  PROVE  /\ q \o t \in Seq(Bytes) /\ Len(q) <= Len(q \o t)
         /\ SubSeq(q, 1, Len(q)) = SubSeq(q \o t, 1, Len(q))
  <1> DEFINE c == q \o t
             m == Len(q)
  <1>1. /\ c \in Seq(Bytes) /\ m \in Nat /\ Len(t) \in Nat /\ Len(c) = m + Len(t)
        /\ \A i \in 1 .. m : c[i] = q[i]
    BY ConcatProperties, LenProperties
  <1>2. /\ SubSeq(q, 1, m) \in Seq(Bytes) /\ Len(SubSeq(q, 1, m)) = m - 1 + 1
        /\ \A i \in 1 .. m - 1 + 1 : SubSeq(q, 1, m)[i] = q[1 + i - 1]
    <2>1. 1 \in 1 .. Len(q) + 1 /\ m \in 1 - 1 .. Len(q)
      BY <1>1
    <2> QED BY <2>1, PieceOf
  <1>3. /\ SubSeq(c, 1, m) \in Seq(Bytes) /\ Len(SubSeq(c, 1, m)) = m - 1 + 1
        /\ \A i \in 1 .. m - 1 + 1 : SubSeq(c, 1, m)[i] = c[1 + i - 1]
    <2>1. 1 \in 1 .. Len(c) + 1 /\ m \in 1 - 1 .. Len(c)
      BY <1>1
    <2> QED BY <1>1, <2>1, PieceOf
  <1>4. \A i \in 1 .. m - 1 + 1 : 1 + i - 1 = i /\ i \in 1 .. m
    BY <1>1
  <1>5. \A i \in 1 .. Len(SubSeq(q, 1, m)) : SubSeq(q, 1, m)[i] = SubSeq(c, 1, m)[i]
    BY <1>1, <1>2, <1>3, <1>4
  <1>6. SubSeq(q, 1, m) = SubSeq(c, 1, m)
    BY <1>2, <1>3, <1>5, SeqEqual
  <1> QED BY <1>1, <1>6

(* The steps that neither queue nor send keep the queue and the wire. *)
LEMMA OutputStutters ==
  ASSUME IInv, [Next]_vars,
         ~ \E s \in Streams : Open(s), ~ snd_rawmidi_kernel_write1,
         ~ \E c \in Contexts : TxByte(c), ~ snd_rawmidi_drain_output, ~ DeviceReady
  PROVE  out' = out /\ wire' = wire
  <1>1. CASE \E n \in Requests : Read(n) \/ \E msg \in [1 .. n -> Bytes] : Write(msg)
    BY <1>1 DEF Read, Write, ringVars
  <1>2. CASE ReleaseInput \/ ReleaseOutput
    BY <1>2 DEF ReleaseInput, ReleaseOutput, ringVars
  <1>3. ASSUME NEW c \in Contexts, Loops(c) PROVE out' = out /\ wire' = wire
    BY <1>3 DEF Loops, TxEnter, TxEmpty, TxDone, RxEnter, RxByte,
                snd_rawmidi_receive, RxDone, ringVars
  <1>4. CASE Proceed
    BY <1>3, <1>4 DEF Proceed, Contexts, snd_mpu401_uart_output_open,
         snd_mpu401_uart_input_open, snd_mpu401_uart_output_trigger, WriteMore,
         snd_rawmidi_kernel_read1, snd_mpu401_uart_input_close, FreeInput,
         snd_mpu401_uart_output_close, FreeOutput, ringVars
  <1>5. CASE snd_mpu401_uart_interrupt \/ Loops("isr")
    BY <1>3, <1>5 DEF snd_mpu401_uart_interrupt, Contexts, ringVars
  <1>6. CASE \E b \in Bytes : ByteArrives(b)
    BY <1>6 DEF ByteArrives, ringVars
  <1>7. CASE UNCHANGED vars
    BY <1>7 DEF vars
  <1> QED BY <1>1, <1>2, <1>4, <1>5, <1>6, <1>7 DEF Next

(* Every step of the port is a step of its output queue, or none. *)
LEMMA OutputStep ==
  ASSUME IInv, [Next]_vars
  PROVE  [OutputQueue!Next]_(OutputQueue!vars)
  <1> USE RawMidiAssumption
  <1>0. /\ out \in Ring /\ OutRing(out) /\ Queued \in Seq(Bytes) /\ wire \in Seq(Bytes)
        /\ Queued = QueueOf(out)
    BY Unpack, QueuedStored DEF RingsOK, OutRing
  <1>a. Queued' = QueueOf(out')
    BY DEF Queued, QueueOf
  <1>b. out.avail = Size => Queued = <<>>
    BY <1>0, QueueFacts
  <1>c. (Queued' = Queued /\ wire' = wire) => [OutputQueue!Next]_(OutputQueue!vars)
    BY DEF OutputQueue!vars
  <1>1. ASSUME NEW s \in Streams, Open(s) PROVE Queued' = Queued /\ wire' = wire
    <2>1. wire' = wire /\ cpu["task"].at = "idle" /\ s \notin opened
      BY <1>1 DEF Open, At
    <2>2. CASE s = "out"
      <3>1. out.avail = Size
        BY <2>1, <2>2, Unpack DEF TaskOK
      <3>2. out' = Fresh(Size)
        BY <1>1, <2>2 DEF Open
      <3> QED BY <1>a, <1>b, <2>1, <3>1, <3>2, FreshRings
    <2>3. CASE s # "out"
      <3>1. out' = out
        BY <1>1, <2>3 DEF Open
      <3> QED BY <1>0, <1>a, <2>1, <3>1
    <2> QED BY <2>2, <2>3
  <1>2. CASE snd_rawmidi_kernel_write1
    <2>1. wire' = wire
      BY <1>2 DEF snd_rawmidi_kernel_write1
    <2>2. CASE out' = out
      BY <1>0, <1>a, <1>c, <2>1, <2>2
    <2>3. ASSUME NEW t \in Seq(Bytes), QueueOf(out') = QueueOf(out) \o t
          PROVE  [OutputQueue!Next]_(OutputQueue!vars)
      <3>1. CASE Queued' = Queued
        BY <1>c, <2>1, <3>1
      <3>2. CASE Queued' # Queued
        <4>1. /\ Queued' \in Seq(Bytes) /\ Len(Queued) <= Len(Queued')
              /\ SubSeq(Queued, 1, Len(Queued)) = SubSeq(Queued', 1, Len(Queued))
          BY <1>0, <1>a, <2>3, Grown
        <4>2. \A i \in DOMAIN Queued' : Queued'[i] \in Bytes
          BY <4>1, LenProperties, ElementOfSeq
        <4>3. OutputQueue!Put
          BY <2>1, <3>2, <4>1, <4>2 DEF OutputQueue!Put, OutputQueue!IsPrefix
        <4> QED BY <4>3 DEF OutputQueue!Next
      <3> QED BY <3>1, <3>2
    <2> QED BY <1>2, <2>2, <2>3, Write1Out
  <1>3. ASSUME NEW c \in Contexts, TxByte(c)
        PROVE  [OutputQueue!Next]_(OutputQueue!vars)
    <2>1. CASE out' = out /\ wire' = wire
      BY <1>0, <1>a, <1>c, <2>1
    <2>2. CASE /\ wire' = <<QueueOf(out)[1]>>
               /\ QueueOf(out') = SubSeq(QueueOf(out), 2, Len(QueueOf(out)))
      <3>1. Len(Queued) \in Nat \ {0}
        BY <1>0, <1>3, TxByteOut
      <3>2. SubSeq(Queued, 1, 1) = <<Queued[1]>>
        <4>1. 1 \in 1 .. Len(Queued) /\ 1 \in 1 .. Len(Queued)
          BY <3>1
        <4>2. SubSeq(Queued, 1, 1) = <<Queued[1]>> \o SubSeq(Queued, 2, 1)
          BY <1>0, <4>1, SubSeqRecursiveFirst
        <4>3. SubSeq(Queued, 2, 1) = <<>>
          BY SubSeqEmpty
        <4>4. <<Queued[1]>> \in Seq(Bytes)
          BY <1>0, <4>1, ElementOfSeq
        <4> QED BY <4>2, <4>3, <4>4, ConcatEmptySeq
      <3>3. 1 \in 1 .. Len(Queued) /\ 1 + 1 = 2
        BY <3>1
      <3>4. OutputQueue!Take
        BY <1>0, <1>a, <2>2, <3>2, <3>3 DEF OutputQueue!Take
      <3> QED BY <3>4 DEF OutputQueue!Next
    <2> QED BY <1>3, <2>1, <2>2, TxByteOut
  <1>4. CASE snd_rawmidi_drain_output
    <2>1. out.avail = Size /\ out' = Fresh(Size) /\ wire' = wire
      BY <1>0, <1>4 DEF snd_rawmidi_drain_output, Ring
    <2> QED BY <1>a, <1>b, <1>c, <2>1, FreshRings
  <1>5. CASE DeviceReady
    <2>1. wire # <<>> /\ wire' = <<>> /\ out' = out
      BY <1>5 DEF DeviceReady
    <2>2. OutputQueue!Delivered
      BY <1>0, <1>a, <2>1 DEF OutputQueue!Delivered
    <2> QED BY <2>2 DEF OutputQueue!Next
  <1>6. CASE out' = out /\ wire' = wire
    BY <1>0, <1>a, <1>c, <1>6
  <1> QED BY <1>1, <1>2, <1>3, <1>4, <1>5, <1>6, <1>c, OutputStutters

(* Everything written to the port leaves it in order, once, and nothing is  *)
(* dropped, although the transmit loops of task and interrupt meet.         *)
THEOREM OutputImplementsQueue == Spec => OutputInOrder
  <1>1. Init => OutputQueue!Init
    <2> SUFFICES ASSUME Init PROVE OutputQueue!Init
      OBVIOUS
    <2>1. Queued = QueueOf(out) /\ out = Fresh(Size) /\ wire = <<>>
      BY QueuedStored DEF Init
    <2> QED BY <2>1, FreshRings DEF OutputQueue!Init
  <1>2. IInv /\ [Next]_vars => [OutputQueue!Next]_(OutputQueue!vars)
    BY OutputStep
  <1> QED BY <1>1, <1>2, Invariance, PTL DEF Spec, OutputInOrder, OutputQueue!Spec

(***************************************************************************)
(* The input implements a ByteQueue that may lose bytes.                   *)
(***************************************************************************)

(* The byte a context has taken from the UART and not yet stored. *)
HeldIn(f) == IF f["isr"].at = "receive" THEN <<f["isr"].byte>>
             ELSE IF f["task"].at = "receive" THEN <<f["task"].byte>> ELSE <<>>

(* At most one context holds a byte: the loop bit sees to that. *)
LEMMA HeldFacts ==
  ASSUME NEW f, \A c \in Contexts : f[c].at = "receive" => f[c].byte \in Bytes,
         ~ \A c \in Contexts : f[c].at \in {"rx", "receive"}
  PROVE  /\ HeldIn(f) \in Seq(Bytes)
         /\ \A c \in Contexts : /\ f[c].at = "receive" => HeldIn(f) = <<f[c].byte>>
                                /\ f[c].at = "rx" => HeldIn(f) = <<>>
  <1>1. /\ f["isr"].at = "receive" => <<f["isr"].byte>> \in Seq(Bytes)
        /\ f["task"].at = "receive" => <<f["task"].byte>> \in Seq(Bytes)
        /\ <<>> \in Seq(Bytes)
    BY EmptySeq DEF Contexts
  <1> QED BY <1>1 DEF HeldIn, Contexts

(* A context that holds no byte before and after a step changes nothing. *)
LEMMA HeldKept ==
  ASSUME NEW f, NEW g, NEW c \in Contexts, f[c].at # "receive", g[c].at # "receive",
         \A d \in Contexts \ {c} : g[d] = f[d]
  PROVE  HeldIn(g) = HeldIn(f)
  BY DEF HeldIn, Contexts

(* The held byte as the refinement mapping has it, in both states. *)
LEMMA HeldNow == Held = HeldIn(cpu)
  BY DEF Held, HeldIn

(* A context that moves without taking or storing a byte leaves it alone. *)
LEMMA MovedHeld ==
  ASSUME CpuOK, NEW c \in Contexts, cpu[c].at # "receive", NEW l, l # "receive",
         NEW max, Goto(c, l) \/ Leave(c, l) \/ Enter(c, l, max)
  PROVE  Held' = Held
  <1>1. cpu'[c].at = l /\ \A d \in Contexts \ {c} : cpu'[d] = cpu[d]
    BY DEF CpuOK, CpuType, Goto, Leave, Enter, Idle
  <1>2. HeldIn(cpu') = HeldIn(cpu)
    BY <1>1, HeldKept
  <1>3. Held' = HeldIn(cpu')
    BY DEF Held, HeldIn
  <1> QED BY <1>2, <1>3, HeldNow

(* Leaving out bytes in the middle is a loss that keeps the order. *)
LEMMA CutOut ==
  ASSUME NEW a \in Seq(Bytes), NEW b \in Seq(Bytes), NEW c \in Seq(Bytes)
  PROVE  a \o c \in InputQueue!Thinned((a \o b) \o c)
  <1> DEFINE q == (a \o b) \o c
             r == a \o c
             from == [i \in 1 .. Len(a) + Len(c) |->
                        IF i <= Len(a) THEN i ELSE i + Len(b)]
  <1>1. Len(a) \in Nat /\ Len(b) \in Nat /\ Len(c) \in Nat
    BY LenProperties
  <1>2. /\ a \o b \in Seq(Bytes) /\ Len(a \o b) = Len(a) + Len(b)
        /\ \A i \in 1 .. Len(a) + Len(b) :
             (a \o b)[i] = IF i <= Len(a) THEN a[i] ELSE b[i - Len(a)]
    BY ConcatProperties
  <1>3. /\ q \in Seq(Bytes) /\ Len(q) = (Len(a) + Len(b)) + Len(c)
        /\ \A i \in 1 .. (Len(a) + Len(b)) + Len(c) :
             q[i] = IF i <= Len(a) + Len(b) THEN (a \o b)[i]
                    ELSE c[i - (Len(a) + Len(b))]
    BY <1>2, ConcatProperties
  <1>4. /\ r \in Seq(Bytes) /\ Len(r) = Len(a) + Len(c)
        /\ \A i \in 1 .. Len(a) + Len(c) :
             r[i] = IF i <= Len(a) THEN a[i] ELSE c[i - Len(a)]
    BY ConcatProperties
  <1>5. DOMAIN q = 1 .. (Len(a) + Len(b)) + Len(c)
    BY <1>3, LenProperties
  <1>6. from \in [1 .. Len(a) + Len(c) -> DOMAIN q]
    BY <1>1, <1>5
  <1>7. \A i, j \in 1 .. Len(a) + Len(c) : i < j => from[i] < from[j]
    BY <1>1
  <1>8. \A i \in 1 .. Len(a) + Len(c) : r[i] = q[from[i]]
    <2> SUFFICES ASSUME NEW i \in 1 .. Len(a) + Len(c) PROVE r[i] = q[from[i]]
      OBVIOUS
    <2>1. CASE i <= Len(a)
      <3>1. i \in 1 .. Len(a) + Len(b) /\ i \in 1 .. (Len(a) + Len(b)) + Len(c)
        BY <1>1, <2>1
      <3>2. i <= Len(a) + Len(b)
        BY <3>1
      <3> QED BY <1>2, <1>3, <1>4, <2>1, <3>1, <3>2
    <2>2. CASE ~(i <= Len(a))
      <3>1. /\ i + Len(b) \in 1 .. (Len(a) + Len(b)) + Len(c)
            /\ ~(i + Len(b) <= Len(a) + Len(b))
            /\ (i + Len(b)) - (Len(a) + Len(b)) = i - Len(a)
        BY <1>1, <2>2
      <3> QED BY <1>3, <1>4, <2>2, <3>1
    <2> QED BY <2>1, <2>2
  <1>9. r = [i \in DOMAIN from |-> q[from[i]]]
    <2>1. r = [i \in 1 .. Len(a) + Len(c) |-> r[i]]
      BY <1>4, LenProperties
    <2> QED BY <1>8, <2>1
  <1>10. Len(a) + Len(c) \in 0 .. Len(q)
    BY <1>1, <1>3
  <1> HIDE DEF from, q, r
  <1>11. from \in UNION {[1 .. n -> DOMAIN q] : n \in 0 .. Len(q)}
    BY <1>6, <1>10
  <1>12. \A i, j \in DOMAIN from : i < j => from[i] < from[j]
    BY <1>6, <1>7
  <1>13. r \in InputQueue!Thinned(q)
    BY <1>9, <1>11, <1>12 DEF InputQueue!Thinned
  <1> QED BY <1>13 DEF q, r

(* What is read is the oldest part of all that is on its way. *)
LEMMA TakenFront ==
  ASSUME NEW s \in Seq(Bytes), NEW t \in Seq(Bytes), NEW n \in 1 .. Len(s)
  PROVE  /\ n \in 1 .. Len(s \o t)
         /\ SubSeq(s \o t, 1, n) = SubSeq(s, 1, n)
         /\ SubSeq(s \o t, n + 1, Len(s \o t)) = SubSeq(s, n + 1, Len(s)) \o t
  <1> DEFINE c == s \o t
             x == SubSeq(c, n + 1, Len(c))
             u == SubSeq(s, n + 1, Len(s))
  <1>1. /\ c \in Seq(Bytes) /\ Len(s) \in Nat /\ Len(t) \in Nat /\ Len(c) = Len(s) + Len(t)
        /\ \A i \in 1 .. Len(s) + Len(t) : c[i] = IF i <= Len(s) THEN s[i] ELSE t[i - Len(s)]
    BY ConcatProperties, LenProperties
  <1>2. n \in 1 .. Len(c) /\ 1 \in 1 .. Len(s)
    BY <1>1
  <1>3. SubSeq(c, 1, n) = SubSeq(s, 1, n)
    BY <1>2, SubSeqOfConcat1
  <1>4. /\ x \in Seq(Bytes) /\ Len(x) = Len(c) - (n + 1) + 1
        /\ \A i \in 1 .. Len(c) - (n + 1) + 1 : x[i] = c[(n + 1) + i - 1]
    <2>1. n + 1 \in 1 .. Len(c) + 1 /\ Len(c) \in (n + 1) - 1 .. Len(c)
      BY <1>1
    <2> QED BY <1>1, <2>1, PieceOf
  <1>5. /\ u \in Seq(Bytes) /\ Len(u) = Len(s) - (n + 1) + 1
        /\ \A i \in 1 .. Len(s) - (n + 1) + 1 : u[i] = s[(n + 1) + i - 1]
    <2>1. n + 1 \in 1 .. Len(s) + 1 /\ Len(s) \in (n + 1) - 1 .. Len(s)
      BY <1>1
    <2> QED BY <2>1, PieceOf
  <1>6. /\ u \o t \in Seq(Bytes) /\ Len(u \o t) = Len(u) + Len(t)
        /\ \A i \in 1 .. Len(u) + Len(t) : (u \o t)[i] = IF i <= Len(u) THEN u[i] ELSE t[i - Len(u)]
    BY <1>5, ConcatProperties
  <1>7. Len(x) = Len(u) + Len(t)
    BY <1>1, <1>4, <1>5
  <1>8. ASSUME NEW i \in 1 .. Len(x) PROVE x[i] = (u \o t)[i]
    <2>1. /\ i \in 1 .. Len(u) + Len(t) /\ (n + 1) + i - 1 = n + i
          /\ n + i \in 1 .. Len(s) + Len(t) /\ Len(u) = Len(s) - n
          /\ i \in 1 .. Len(c) - (n + 1) + 1
      BY <1>1, <1>4, <1>5, <1>7
    <2>2. x[i] = c[n + i]
      BY <1>4, <2>1
    <2>3. CASE i <= Len(u)
      <3>1. n + i <= Len(s) /\ i \in 1 .. Len(s) - (n + 1) + 1
        BY <1>1, <2>1, <2>3
      <3> QED BY <1>1, <1>5, <1>6, <2>1, <2>2, <2>3, <3>1
    <2>4. CASE ~(i <= Len(u))
      <3> DEFINE k == Len(u)
      <3>0. i \in Int /\ n \in Int /\ Len(s) \in Int /\ k = Len(s) - n /\ ~(i <= k)
        BY <1>1, <2>1, <2>4
      <3> HIDE DEF k
      <3>a. ~(n + i <= Len(s)) /\ n + i - Len(s) = i - k
        BY <3>0
      <3>1. ~(n + i <= Len(s)) /\ n + i - Len(s) = i - Len(u)
        BY <3>a DEF k
      <3> QED BY <1>1, <1>6, <2>1, <2>2, <2>4, <3>1
    <2> QED BY <2>3, <2>4
  <1>9. x = u \o t
    BY <1>4, <1>6, <1>7, <1>8, SeqEqual
  <1> QED BY <1>2, <1>3, <1>9

(* The input queue: what is stored, what is in hand, what the UART holds. *)
InQueue == (StoreOf(inp) \o HeldIn(cpu)) \o rx

(* The input queue as the refinement mapping has it, before a step ... *)
LEMMA InQueueNow == InQueue = Stored \o Held \o rx
  BY QueuedStored, HeldNow DEF InQueue

(* ... and after it. *)
LEMMA InQueueNext == InQueue' = (Stored \o Held \o rx)'
  <1>1. StoreOf(inp)' = Stored' /\ HeldIn(cpu)' = Held'
    BY DEF StoreOf, Stored, HeldIn, Held
  <1> QED BY <1>1 DEF InQueue

(* Types of the three parts. *)
LEMMA InTypes ==
  ASSUME IInv
  PROVE  /\ StoreOf(inp) \in Seq(Bytes) /\ HeldIn(cpu) \in Seq(Bytes) /\ rx \in Seq(Bytes)
         /\ InQueue \in Seq(Bytes) /\ StoreOf(inp) \o HeldIn(cpu) \in Seq(Bytes)
         /\ InQueue = StoreOf(inp) \o (HeldIn(cpu) \o rx)
         /\ \A c \in Contexts : /\ cpu[c].at = "receive" => HeldIn(cpu) = <<cpu[c].byte>>
                                /\ cpu[c].at = "rx" => HeldIn(cpu) = <<>>
  <1>1. StoreOf(inp) \in Seq(Bytes) /\ rx \in Seq(Bytes)
    BY Unpack DEF RingsOK, InRing
  <1>2. /\ HeldIn(cpu) \in Seq(Bytes)
        /\ \A c \in Contexts : /\ cpu[c].at = "receive" => HeldIn(cpu) = <<cpu[c].byte>>
                               /\ cpu[c].at = "rx" => HeldIn(cpu) = <<>>
    BY Unpack, HeldFacts DEF CpuOK, RxAlone
  <1> QED BY <1>1, <1>2, ConcatProperties, ConcatAssociative DEF InQueue

(* Steps of the queue in terms of InQueue. *)
LEMMA InputLoses ==
  ASSUME InQueue' \in InputQueue!Thinned(InQueue), got' = got
  PROVE  [InputQueue!Next]_(InputQueue!vars)
  BY InQueueNow, InQueueNext DEF InputQueue!Next, InputQueue!Lose

(* A step that changes neither the input queue nor what was read stutters. *)
LEMMA InputStutters ==
  ASSUME InQueue' = InQueue, got' = got
  PROVE  [InputQueue!Next]_(InputQueue!vars)
  BY InQueueNow, InQueueNext DEF InputQueue!vars

(* A step that leaves the ring and the byte in hand alone, and may flush    *)
(* the UART.                                                                *)
LEMMA InputFlushed ==
  ASSUME IInv, Held' = Held, inp' = inp, got' = got, rx' = rx \/ rx' = <<>>
  PROVE  [InputQueue!Next]_(InputQueue!vars)
  <1>1. /\ StoreOf(inp)' = StoreOf(inp) /\ HeldIn(cpu)' = HeldIn(cpu)
        /\ InQueue' = (StoreOf(inp) \o HeldIn(cpu)) \o rx'
    BY DEF StoreOf, HeldIn, Held, InQueue
  <1>2. CASE rx' = rx
    BY <1>1, <1>2, InputStutters DEF InQueue
  <1>3. CASE rx' = <<>>
    <2> DEFINE a == StoreOf(inp) \o HeldIn(cpu)
    <2>1. a \in Seq(Bytes) /\ rx \in Seq(Bytes) /\ <<>> \in Seq(Bytes)
      BY InTypes, EmptySeq
    <2> HIDE DEF a
    <2>2. a \o <<>> \in InputQueue!Thinned((a \o rx) \o <<>>)
      BY <2>1, CutOut
    <2>3. (a \o rx) \o <<>> = a \o rx
      <3>1. a \o rx \in Seq(Bytes)
        BY <2>1, ConcatProperties
      <3> QED BY <3>1, ConcatEmptySeq
    <2>4. InQueue' = a \o <<>> /\ InQueue = a \o rx
      BY <1>1, <1>3 DEF InQueue, a
    <2> QED BY <2>2, <2>3, <2>4, InputLoses
  <1> QED BY <1>2, <1>3

(* The ring is emptied: what was stored is lost, the rest is kept. *)
LEMMA InputEmptied ==
  ASSUME IInv, Held' = Held, inp' = Fresh(0), got' = got, rx' = rx
  PROVE  [InputQueue!Next]_(InputQueue!vars)
  <1> DEFINE c == HeldIn(cpu) \o rx
  <1>1. /\ StoreOf(inp)' = StoreOf(inp') /\ HeldIn(cpu)' = HeldIn(cpu)
        /\ InQueue' = (StoreOf(inp)' \o HeldIn(cpu)) \o rx
    BY DEF StoreOf, HeldIn, Held, InQueue
  <1>2. StoreOf(inp)' = <<>>
    BY <1>1, FreshRings
  <1>3. StoreOf(inp) \in Seq(Bytes) /\ <<>> \in Seq(Bytes) /\ c \in Seq(Bytes)
    BY InTypes, EmptySeq, ConcatProperties
  <1>4. InQueue' = <<>> \o c
    <2>1. HeldIn(cpu) \in Seq(Bytes) /\ rx \in Seq(Bytes)
      BY InTypes
    <2>2. (<<>> \o HeldIn(cpu)) \o rx = <<>> \o (HeldIn(cpu) \o rx)
      BY <1>3, <2>1, ConcatAssociative
    <2> QED BY <1>1, <1>2, <2>2
  <1>5. InQueue = (<<>> \o StoreOf(inp)) \o c
    <2>1. <<>> \o StoreOf(inp) = StoreOf(inp)
      BY <1>3, ConcatEmptySeq
    <2> QED BY <2>1, InTypes
  <1> HIDE DEF c
  <1>6. <<>> \o c \in InputQueue!Thinned((<<>> \o StoreOf(inp)) \o c)
    BY <1>3, CutOut
  <1> QED BY <1>4, <1>5, <1>6, InputLoses

(* A byte arrives behind all others. *)
LEMMA InputPut ==
  ASSUME IInv, NEW b \in Bytes, ByteArrives(b)
  PROVE  [InputQueue!Next]_(InputQueue!vars)
  <1>1. rx' = Append(rx, b) /\ inp' = inp /\ cpu' = cpu /\ got' = got
    BY DEF ByteArrives, ringVars
  <1>2. rx' = rx \o <<b>> /\ <<b>> \in Seq(Bytes)
    BY <1>1, Unpack, AppendIsConcat
  <1>3. InQueue' = InQueue \o <<b>>
    <2>1. InQueue' = (StoreOf(inp) \o HeldIn(cpu)) \o rx'
      BY <1>1 DEF InQueue, StoreOf, HeldIn
    <2> DEFINE a == StoreOf(inp) \o HeldIn(cpu)
    <2>2. a \in Seq(Bytes) /\ rx \in Seq(Bytes)
      BY InTypes
    <2> HIDE DEF a
    <2>3. a \o (rx \o <<b>>) = (a \o rx) \o <<b>>
      BY <1>2, <2>2, ConcatAssociative
    <2>4. InQueue' = a \o (rx \o <<b>>) /\ InQueue = a \o rx
      BY <1>2, <2>1 DEF InQueue, a
    <2> QED BY <2>3, <2>4
  <1>4. /\ InQueue' \in Seq(Bytes) /\ Len(InQueue) <= Len(InQueue')
        /\ SubSeq(InQueue, 1, Len(InQueue)) = SubSeq(InQueue', 1, Len(InQueue))
    BY <1>2, <1>3, InTypes, Grown
  <1>5. InQueue' # InQueue
    <2>1. Len(InQueue') = Len(InQueue) + Len(<<b>>) /\ Len(InQueue) \in Nat
      BY <1>2, <1>3, InTypes, ConcatProperties, LenProperties
    <2>2. Len(<<b>>) = 1
      OBVIOUS
    <2> QED BY <2>1, <2>2
  <1>6. \A i \in DOMAIN InQueue' : InQueue'[i] \in Bytes
    BY <1>4, LenProperties, ElementOfSeq
  <1>7. InputQueue!Put
    BY <1>1, <1>4, <1>5, <1>6, InQueueNow, InQueueNext
       DEF InputQueue!Put, InputQueue!IsPrefix
  <1> QED BY <1>7 DEF InputQueue!Next

(* A byte is taken from the UART in hand, or forgotten. *)
LEMMA InputRxByte ==
  ASSUME IInv, NEW c \in Contexts, RxByte(c)
  PROVE  [InputQueue!Next]_(InputQueue!vars)
  <1>0. /\ inp' = inp /\ got' = got /\ cpu[c].at = "rx" /\ HeldIn(cpu) = <<>>
        /\ StoreOf(inp)' = StoreOf(inp) /\ rx \in Seq(Bytes) /\ StoreOf(inp) \in Seq(Bytes)
    BY InTypes, RxByteCpu DEF RxByte, ringVars, StoreOf
  <1>1. IInv'
    BY RxByteIInv
  <1>2. /\ cpu'[c].at = "receive" => HeldIn(cpu') = <<cpu'[c].byte>>
        /\ cpu'[c].at = "rx" => HeldIn(cpu') = <<>>
    <2>1. CpuOK' /\ RxAlone'
      BY <1>1 DEF IInv
    <2> QED BY <2>1, HeldFacts DEF CpuOK, RxAlone
  <1>3. InQueue' = (StoreOf(inp) \o HeldIn(cpu')) \o rx'
    BY <1>0 DEF InQueue, HeldIn
  <1>4. InQueue = StoreOf(inp) \o rx
    BY <1>0, ConcatEmptySeq DEF InQueue
  <1>5. CASE rx' = rx /\ cpu'[c].at = "rx"
    BY <1>0, <1>2, <1>3, <1>5, InputStutters DEF InQueue
  <1>6. CASE rx # <<>> /\ rx' = Tail(rx)
    <2>1. /\ Head(rx) \in Bytes /\ Tail(rx) \in Seq(Bytes) /\ <<Head(rx)>> \in Seq(Bytes)
          /\ rx = <<Head(rx)>> \o Tail(rx)
      <3>1. Head(rx) \in Bytes /\ Tail(rx) \in Seq(Bytes)
        BY <1>0, <1>6, HeadTailProperties
      <3>2. Len(rx) \in Nat \ {0}
        BY <1>0, <1>6, EmptySeq
      <3>3. 1 \in 1 .. Len(rx) /\ Len(rx) \in 1 .. Len(rx)
        BY <3>2
      <3>4. SubSeq(rx, 1, Len(rx)) = <<rx[1]>> \o SubSeq(rx, 1 + 1, Len(rx))
        BY <1>0, <3>3, SubSeqRecursiveFirst
      <3>5. SubSeq(rx, 1, Len(rx)) = rx /\ Tail(rx) = SubSeq(rx, 2, Len(rx))
        BY <1>0, <1>6, SubSeqFull, TailIsSubSeq
      <3>6. Head(rx) = rx[1] /\ 1 + 1 = 2
        BY <1>0, <1>6
      <3>7. <<Head(rx)>> \in Seq(Bytes)
        BY <3>1
      <3> QED BY <3>1, <3>4, <3>5, <3>6, <3>7
    <2>2. InQueue = (StoreOf(inp) \o <<Head(rx)>>) \o Tail(rx)
      BY <1>0, <1>4, <2>1, ConcatAssociative
    <2>3. CASE cpu'[c].at = "receive" /\ cpu'[c].byte = Head(rx)
      BY <1>0, <1>2, <1>3, <1>6, <2>2, <2>3, InputStutters
    <2>4. CASE cpu'[c].at = "rx"
      <3>1. InQueue' = StoreOf(inp) \o Tail(rx)
        BY <1>0, <1>2, <1>3, <1>6, <2>4, ConcatEmptySeq
      <3>2. InQueue' \in InputQueue!Thinned(InQueue)
        BY <1>0, <2>1, <2>2, <3>1, CutOut
      <3> QED BY <1>0, <3>2, InputLoses
    <2> QED BY <1>6, <2>3, <2>4, RxByteCpu
  <1> QED BY <1>5, <1>6, RxByteCpu

(* The byte in hand is stored behind the others, or there is no room. *)
LEMMA InputReceive ==
  ASSUME IInv, NEW c \in Contexts, snd_rawmidi_receive(c)
  PROVE  [InputQueue!Next]_(InputQueue!vars)
  <1> DEFINE e == cpu[c].byte
  <1>0. /\ rx' = rx /\ got' = got /\ HeldIn(cpu) = <<e>> /\ e \in Bytes
        /\ rx \in Seq(Bytes) /\ StoreOf(inp) \in Seq(Bytes) /\ <<e>> \in Seq(Bytes)
    BY InTypes, ReceiveInp DEF snd_rawmidi_receive
  <1>1. HeldIn(cpu') = <<>>
    <2>1. CpuOK' /\ RxAlone'
      BY ReceiveIInv DEF IInv
    <2>2. cpu'[c].at = "rx"
      BY ReceiveInp
    <2> QED BY <2>1, <2>2, HeldFacts DEF CpuOK, RxAlone
  <1>2. InQueue' = (StoreOf(inp') \o HeldIn(cpu')) \o rx
    BY <1>0 DEF InQueue, HeldIn, StoreOf
  <1>3. InQueue = (StoreOf(inp) \o <<e>>) \o rx
    BY <1>0 DEF InQueue
  <1>4. CASE StoreOf(inp') = Append(StoreOf(inp), e)
    <2>1. StoreOf(inp') = StoreOf(inp) \o <<e>> /\ StoreOf(inp) \o <<e>> \in Seq(Bytes)
      BY <1>0, <1>4, AppendIsConcat, ConcatProperties
    <2>2. StoreOf(inp') \o <<>> = StoreOf(inp) \o <<e>>
      BY <2>1, ConcatEmptySeq
    <2> QED BY <1>0, <1>1, <1>2, <1>3, <2>2, InputStutters
  <1>5. CASE inp' = inp
    <2>1. StoreOf(inp) \o <<>> = StoreOf(inp)
      BY <1>0, ConcatEmptySeq
    <2>2. InQueue' = StoreOf(inp) \o rx
      BY <1>1, <1>2, <1>5, <2>1
    <2>3. InQueue' \in InputQueue!Thinned(InQueue)
      BY <1>0, <1>3, <2>2, CutOut
    <2> QED BY <1>0, <2>3, InputLoses
  <1> QED BY <1>4, <1>5, ReceiveInp

(* A piece of a read takes from the front, or the read is over. *)
LEMMA InputRead1 ==
  ASSUME IInv, snd_rawmidi_kernel_read1
  PROVE  [InputQueue!Next]_(InputQueue!vars)
  <1>0. rx' = rx /\ cpu["task"].at = "read" /\ "task" \in Contexts
    BY DEF snd_rawmidi_kernel_read1, At, Contexts
  <1>1. CASE inp' = inp /\ got' = <<>> /\ Goto("task", "idle")
    <2>1. Held' = Held
      BY <1>0, <1>1, MovedHeld, Unpack
    <2>2. InQueue' = InQueue
      BY <1>0, <1>1, <2>1 DEF InQueue, StoreOf, HeldIn, Held
    <2>3. CASE got = <<>>
      BY <1>1, <2>2, <2>3, InputStutters
    <2>4. CASE got # <<>>
      <3>1. InputQueue!Delivered
        BY <1>1, <2>2, <2>4, InQueueNow, InQueueNext DEF InputQueue!Delivered
      <3> QED BY <3>1 DEF InputQueue!Next
    <2> QED BY <2>3, <2>4
  <1>2. ASSUME cpu' = cpu, NEW n \in 1 .. Len(StoreOf(inp)),
               got' = SubSeq(StoreOf(inp), 1, n),
               StoreOf(inp') = SubSeq(StoreOf(inp), n + 1, Len(StoreOf(inp)))
        PROVE  [InputQueue!Next]_(InputQueue!vars)
    <2> DEFINE t == HeldIn(cpu) \o rx
    <2>1. /\ StoreOf(inp) \in Seq(Bytes) /\ t \in Seq(Bytes) /\ InQueue = StoreOf(inp) \o t
      BY InTypes, ConcatProperties
    <2>2. StoreOf(inp') \in Seq(Bytes)
      BY Read1Inp DEF InRing
    <2>3. InQueue' = StoreOf(inp') \o t
      <3>1. InQueue' = (StoreOf(inp') \o HeldIn(cpu)) \o rx
        BY <1>0, <1>2 DEF InQueue, StoreOf, HeldIn
      <3>2. HeldIn(cpu) \in Seq(Bytes) /\ rx \in Seq(Bytes)
        BY InTypes
      <3>3. (StoreOf(inp') \o HeldIn(cpu)) \o rx = StoreOf(inp') \o (HeldIn(cpu) \o rx)
        BY <2>2, <3>2, ConcatAssociative
      <3> QED BY <3>1, <3>3
    <2> HIDE DEF t
    <2>4. /\ n \in 1 .. Len(InQueue) /\ got' = SubSeq(InQueue, 1, n)
          /\ InQueue' = SubSeq(InQueue, n + 1, Len(InQueue))
      BY <1>2, <2>1, <2>3, TakenFront
    <2>5. InputQueue!Take
      BY <2>4, InQueueNow, InQueueNext DEF InputQueue!Take
    <2> QED BY <2>5 DEF InputQueue!Next
  <1> QED BY <1>1, <1>2, Read1Inp

(* The steps of the loops that take no byte. *)
LEMMA InputLoops ==
  ASSUME IInv, NEW c \in Contexts, Loops(c)
  PROVE  [InputQueue!Next]_(InputQueue!vars)
  <1>0. CpuOK
    BY Unpack
  <1>1. CASE TxEnter(c) \/ TxEmpty(c) \/ TxDone(c) \/ RxEnter(c) \/ RxDone(c)
    <2>1. /\ cpu[c].at # "receive" /\ inp' = inp /\ got' = got /\ rx' = rx
      BY <1>1 DEF TxEnter, TxEmpty, TxDone, RxEnter, RxDone, At, ringVars
    <2>2. AfterTx(c) # "receive" /\ AfterRx(c) # "receive"
      BY DEF AfterTx, AfterRx
    <2>3. Held' = Held
      <3>1. CASE TxEnter(c)
        <4>1. Leave(c, AfterTx(c)) \/ Enter(c, "tx", TxMax)
          BY <3>1 DEF TxEnter
        <4> QED BY <1>0, <2>1, <2>2, <4>1, MovedHeld
      <3>2. CASE TxEmpty(c)
        <4>1. Goto(c, "tx_done")
          BY <3>2 DEF TxEmpty
        <4> QED BY <1>0, <2>1, <4>1, MovedHeld
      <3>3. CASE TxDone(c) \/ RxDone(c)
        <4>1. Leave(c, AfterTx(c)) \/ Leave(c, AfterRx(c))
          BY <3>3 DEF TxDone, RxDone
        <4> QED BY <1>0, <2>1, <2>2, <4>1, MovedHeld
      <3>4. CASE RxEnter(c)
        <4>1. Leave(c, AfterRx(c)) \/ Enter(c, "rx", RxMax)
          BY <3>4 DEF RxEnter
        <4> QED BY <1>0, <2>1, <2>2, <4>1, MovedHeld
      <3> QED BY <1>1, <3>1, <3>2, <3>3, <3>4
    <2> QED BY <2>1, <2>3, InputFlushed
  <1>2. CASE TxByte(c)
    <2>1. /\ cpu[c].at # "receive" /\ inp' = inp /\ got' = got /\ rx' = rx
      BY <1>2 DEF TxByte, At
    <2>2. cpu'[c].at # "receive" /\ \A d \in Contexts \ {c} : cpu'[d] = cpu[d]
      BY <1>0, <1>2 DEF TxByte, CpuOK, CpuType
    <2>3. HeldIn(cpu') = HeldIn(cpu)
      BY <2>1, <2>2, HeldKept
    <2>4. Held' = Held
      BY <2>3 DEF Held, HeldIn
    <2> QED BY <2>1, <2>4, InputFlushed
  <1> QED BY <1>1, <1>2, InputRxByte, InputReceive DEF Loops

(* A step of the task between its calls and critical sections: it takes no  *)
(* byte in hand and leaves the input ring and what was read alone.          *)
LEMMA InputTask ==
  ASSUME IInv, NEW l, l # "receive", cpu["task"].at # "receive", Goto("task", l),
         inp' = inp, got' = got, rx' = rx \/ rx' = <<>>
  PROVE  [InputQueue!Next]_(InputQueue!vars)
  <1>1. Held' = Held
    BY MovedHeld, Unpack DEF Contexts
  <1> QED BY <1>1, InputFlushed

(* Every step of the port is a step of the input queue or changes nothing   *)
(* of it.                                                                   *)
LEMMA InputStep ==
  ASSUME IInv, [Next]_vars
  PROVE  [InputQueue!Next]_(InputQueue!vars)
  <1>1. ASSUME NEW s \in Streams, Open(s)
        PROVE  [InputQueue!Next]_(InputQueue!vars)
    <2>1. /\ got' = got /\ rx' = rx /\ cpu["task"].at # "receive"
          /\ inp' = inp \/ inp' = Fresh(0)
      BY <1>1 DEF Open, At
    <2>2. PICK l \in {"open_out", "open_in"} : Goto("task", l)
      BY <1>1 DEF Open
    <2>3. Held' = Held
      BY <2>1, <2>2, MovedHeld, Unpack DEF Contexts
    <2> QED BY <2>1, <2>3, InputFlushed, InputEmptied
  <1>2. ASSUME NEW n \in Requests, Read(n)
        PROVE  [InputQueue!Next]_(InputQueue!vars)
    BY <1>2, InputTask DEF Read, At, ringVars
  <1>3. ASSUME NEW n \in Requests, NEW msg \in [1 .. n -> Bytes], Write(msg)
        PROVE  [InputQueue!Next]_(InputQueue!vars)
    BY <1>3, InputTask DEF Write, At, ringVars
  <1>4. CASE ReleaseInput \/ ReleaseOutput
    BY <1>4, InputTask DEF ReleaseInput, ReleaseOutput, At, ringVars
  <1>5. CASE snd_mpu401_uart_output_open \/ snd_mpu401_uart_input_open
    BY <1>5, InputTask
       DEF snd_mpu401_uart_output_open, snd_mpu401_uart_input_open, UartCommand, At, ringVars
  <1>6. CASE snd_rawmidi_kernel_write1
    <2>1. PICK l \in {"idle", "trigger_out"} : Goto("task", l)
      BY <1>6 DEF snd_rawmidi_kernel_write1
    <2>2. cpu["task"].at # "receive" /\ inp' = inp /\ got' = got /\ rx' = rx
      BY <1>6 DEF snd_rawmidi_kernel_write1, At
    <2> QED BY <2>1, <2>2, InputTask
  <1>7. CASE snd_mpu401_uart_output_trigger \/ WriteMore
    BY <1>7, InputTask DEF snd_mpu401_uart_output_trigger, WriteMore, At, ringVars
  <1>8. CASE snd_mpu401_uart_input_close \/ snd_mpu401_uart_output_close
    BY <1>8, InputTask
       DEF snd_mpu401_uart_input_close, snd_mpu401_uart_output_close, UartCommand, At, ringVars
  <1>9. CASE FreeInput
    <2>1. /\ got' = got /\ rx' = rx /\ inp' = Fresh(0)
          /\ cpu["task"].at # "receive" /\ Goto("task", "idle")
      BY <1>9 DEF FreeInput, At
    <2>2. Held' = Held
      BY <2>1, MovedHeld, Unpack DEF Contexts
    <2> QED BY <2>1, <2>2, InputEmptied
  <1>10. CASE snd_rawmidi_drain_output \/ FreeOutput
    BY <1>10, InputTask DEF snd_rawmidi_drain_output, FreeOutput, At, ringVars
  <1>11. CASE snd_mpu401_uart_interrupt
    <2>1. /\ got' = got /\ inp' = inp /\ cpu["isr"].at # "receive"
          /\ rx' = rx \/ rx' = <<>>
      BY <1>11 DEF snd_mpu401_uart_interrupt, ringVars
    <2>2. PICK l \in {"rx_enter", "tx_enter"} : Goto("isr", l)
      BY <1>11 DEF snd_mpu401_uart_interrupt
    <2>3. Held' = Held
      BY <2>1, <2>2, MovedHeld, Unpack DEF Contexts
    <2> QED BY <2>1, <2>3, InputFlushed
  <1>12. CASE DeviceReady
    BY <1>12, InputStutters DEF DeviceReady, InQueue, StoreOf, HeldIn
  <1>13. CASE UNCHANGED vars
    BY <1>13, InputStutters DEF vars, InQueue, StoreOf, HeldIn
  <1>14. ASSUME NEW c \in Contexts, Loops(c)
         PROVE  [InputQueue!Next]_(InputQueue!vars)
    BY <1>14, InputLoops
  <1>15. CASE \E b \in Bytes : ByteArrives(b)
    BY <1>15, InputPut
  <1>16. CASE snd_rawmidi_kernel_read1
    BY <1>16, InputRead1
  <1>17. CASE Proceed
    BY <1>5, <1>6, <1>7, <1>8, <1>9, <1>10, <1>14, <1>16, <1>17 DEF Proceed, Contexts
  <1>18. CASE Next
    BY <1>1, <1>2, <1>3, <1>4, <1>11, <1>12, <1>14, <1>15, <1>17, <1>18 DEF Next, Contexts
  <1> QED BY <1>13, <1>18

(* What the device received reaches the readers in order and at most once,  *)
(* whichever of task and interrupt takes each byte from the UART and stores *)
(* it; bytes may be lost, and only as a gap that keeps the others' order.   *)
THEOREM InputImplementsQueue == Spec => InputInOrder
  <1>1. Init => InputQueue!Init
    <2> SUFFICES ASSUME Init PROVE InputQueue!Init
      OBVIOUS
    <2>1. StoreOf(inp) = <<>> /\ HeldIn(cpu) = <<>> /\ rx = <<>> /\ got = <<>>
      BY FreshRings DEF Init, HeldIn, Idle, Contexts
    <2>2. <<>> \in Seq(Bytes) /\ <<>> \o <<>> = <<>>
      BY EmptySeq, ConcatEmptySeq
    <2>3. InQueue = <<>>
      BY <2>1, <2>2 DEF InQueue
    <2> QED BY <2>1, <2>3, InQueueNow DEF InputQueue!Init
  <1>2. IInv /\ [Next]_vars => [InputQueue!Next]_(InputQueue!vars)
    BY InputStep
  <1> QED BY <1>1, <1>2, Invariance, PTL DEF Spec, InputInOrder, InputQueue!Spec

(***************************************************************************)
(* The FM synthesizer: its type, and what makes its voices consistent.     *)
(***************************************************************************)
Keys == (Channels \X Notes) \cup {NoKey}
Voice == [state : States, time : Nat, key : Keys]
Synth == [voice : [Voices -> Voice], use_time : Nat, keyon : SUBSET Voices,
          connection : SUBSET First]

(* Only a second voice is withheld, only a first one plays four operators,  *)
(* and the one goes with the other.                                         *)
Bound(f) ==
  /\ \A v \in Voices : /\ f.voice[v].state = "NOT_AVAIL" => v \in Second
                       /\ f.voice[v].state = "ON_4OP" => v \in First
  /\ \A v \in First : f.voice[v + 3].state = "NOT_AVAIL" <=> f.voice[v].state = "ON_4OP"
Well(f) == f \in Synth /\ Bound(f)

Keyed(f) ==
  \A v \in Voices : /\ Taken(f, v) => v \in f.keyon
                    /\ v \notin First \cup Second => (v \in f.keyon => Taken(f, v))

Ranked(f) == \A v \in Voices : f.voice[v].time \in 0 .. Cardinality(Voices)

Chans == [Channels -> [note : [Notes -> SUBSET Flags], hold : BOOLEAN]]

(* A note that has any flag is on. *)
Sounding(ch) ==
  \A c \in Channels, n \in Notes : ch[c].note[n] # {} => "ON" \in ch[c].note[n]

FmInv ==
  /\ chan \in Chans /\ Sounding(chan) /\ used \in BOOLEAN
  /\ Well(fm) /\ Ranked(fm)
  /\ used => Keyed(fm)

(* First and second voices. *)
LEMMA Pairs ==
  /\ Voices \subseteq Nat /\ First \subseteq Voices /\ Second \subseteq Voices
  /\ First \cap Second = {}
  /\ \A v \in First : v + 3 \in Second /\ v + 3 \in Voices /\ v + 3 \notin First
                      /\ v + 3 # v /\ (v + 3) - 3 = v
  /\ \A v \in Second : v - 3 \in First /\ (v - 3) + 3 = v
  <1>1. Voices \subseteq 0 .. 17
    BY FmVoicesAssumption
  <1>2. Voices \subseteq Nat /\ First \subseteq Voices /\ Second \subseteq Voices
    BY <1>1 DEF First, Second
  <1>3. First \cap Second = {}
    <2> SUFFICES ASSUME NEW v \in First, v \in Second PROVE FALSE
      OBVIOUS
    <2>1. /\ v \in 0 .. 17 /\ (v < 3 \/ (v > 8 /\ v < 12))
          /\ ((v > 2 /\ v < 6) \/ (v > 11 /\ v < 15))
      BY <1>1 DEF First, Second
    <2> QED BY <2>1
  <1>4. \A v \in First : v + 3 \in Second /\ v \in Nat
    BY <1>2, PairsAssumption
  <1>5. \A v \in First : v + 3 # v /\ (v + 3) - 3 = v
    BY <1>4
  <1>6. \A v \in Second : v - 3 \in First /\ (v - 3) + 3 = v
    <2>1. TAKE v \in Second
    <2>2. PICK u \in First : v = u + 3
      BY PairsAssumption
    <2>3. u \in Nat /\ v - 3 = u
      BY <1>4, <2>2
    <2> QED BY <2>2, <2>3
  <1> QED BY <1>2, <1>3, <1>4, <1>5, <1>6

(* There are finitely many voices. *)
LEMMA FewVoices ==
  /\ IsFiniteSet(Voices) /\ Cardinality(Voices) \in Nat
  /\ \A S \in SUBSET Voices : IsFiniteSet(S) /\ Cardinality(S) \in Nat
  <1>1. IsFiniteSet(0 .. 17)
    <2>1. PICK a \in Int, b \in Int : a = 0 /\ b = 17
      OBVIOUS
    <2>2. IsFiniteSet(a .. b)
      BY FS_Interval
    <2> QED BY <2>1, <2>2
  <1>2. Voices \subseteq 0 .. 17
    BY FmVoicesAssumption
  <1>3. IsFiniteSet(Voices)
    BY <1>1, <1>2, FS_Subset
  <1>4. \A S \in SUBSET Voices : IsFiniteSet(S)
    BY <1>3, FS_Subset
  <1> QED BY <1>3, <1>4, FS_CardinalityType

(* The fields of a synthesizer. *)
LEMMA Fields ==
  ASSUME NEW f \in Synth
  PROVE  /\ f.voice \in [Voices -> Voice] /\ f.use_time \in Nat
         /\ f.keyon \subseteq Voices /\ f.connection \subseteq First
         /\ \A v \in Voices : /\ f.voice[v] \in Voice /\ f.voice[v].state \in States
                              /\ f.voice[v].time \in Nat /\ f.voice[v].key \in Keys
  <1>1. /\ f.voice \in [Voices -> Voice] /\ f.use_time \in Nat
        /\ f.keyon \subseteq Voices /\ f.connection \subseteq First
    BY DEF Synth
  <1>2. \A v \in Voices : f.voice[v] \in Voice
    BY <1>1
  <1>3. \A x \in Voice : x.state \in States /\ x.time \in Nat /\ x.key \in Keys
    BY DEF Voice
  <1> QED BY <1>1, <1>2, <1>3

(***************************************************************************)
(* The end of notes.                                                       *)
(***************************************************************************)
Seconds(f, K) == {v + 3 : v \in {u \in K : f.voice[u].state = "ON_4OP"}}

(* What killing the voices K makes of f. *)
Killed(f, K, g) ==
  /\ g \in Synth /\ g.keyon = f.keyon \ K /\ g.connection = f.connection
  /\ \A v \in Voices :
       /\ g.voice[v].key = f.voice[v].key
       /\ g.voice[v].state = IF v \in K \cup Seconds(f, K) THEN "OFF" ELSE f.voice[v].state

(* snd_opl3_kill_voice does just that, and frees second voices only. *)
LEMMA KillVoice ==
  ASSUME NEW f, Well(f), NEW K \in SUBSET Voices
  PROVE  Killed(f, K, snd_opl3_kill_voice(f, K)) /\ Seconds(f, K) \subseteq Second
  <1> DEFINE killed == K \cup Seconds(f, K)
             Turn(w) == IF w \in K THEN 64 * f.voice[w].key[2] + 2 * w
                                   ELSE 64 * f.voice[w - 3].key[2] + 2 * (w - 3) + 1
             Time(w) == f.use_time + Cardinality({u \in killed : Turn(u) < Turn(w)})
             new == [w \in Voices |->
                      IF w \in killed
                      THEN [f.voice[w] EXCEPT !.state = "OFF", !.time = Time(w)]
                      ELSE f.voice[w]]
             g == [f EXCEPT !.voice = new, !.use_time = @ + Cardinality(killed),
                            !.keyon = @ \ K]
  <1>1. snd_opl3_kill_voice(f, K) = g
    BY DEF snd_opl3_kill_voice, Seconds
  <1>2. f \in Synth /\ Bound(f)
    BY DEF Well
  <1>3. /\ f.voice \in [Voices -> Voice] /\ f.use_time \in Nat
        /\ f.keyon \subseteq Voices /\ f.connection \subseteq First
        /\ \A v \in Voices : /\ f.voice[v] \in Voice /\ f.voice[v].state \in States
                             /\ f.voice[v].time \in Nat /\ f.voice[v].key \in Keys
    BY <1>2, Fields
  <1>4. Seconds(f, K) \subseteq Second
    BY <1>2, Pairs DEF Seconds, Bound
  <1>5. killed \in SUBSET Voices
    BY <1>4, Pairs
  <1>6. \A w : Time(w) \in Nat
    <2>1. TAKE w
    <2>2. {u \in killed : Turn(u) < Turn(w)} \in SUBSET Voices
      BY <1>5
    <2>3. Cardinality({u \in killed : Turn(u) < Turn(w)}) \in Nat
      BY <2>2, FewVoices
    <2> QED BY <1>3, <2>3
  <1>7. Cardinality(killed) \in Nat
    BY <1>5, FewVoices
  <1> HIDE DEF killed, Turn, Time
  <1>8. \A w \in Voices : [f.voice[w] EXCEPT !.state = "OFF", !.time = Time(w)] \in Voice
    BY <1>3, <1>6 DEF Voice, States
  <1>9. new \in [Voices -> Voice]
    BY <1>3, <1>8
  <1>10. \A w \in Voices :
           /\ new[w].key = f.voice[w].key
           /\ new[w].state = IF w \in killed THEN "OFF" ELSE f.voice[w].state
    BY <1>3 DEF Voice
  <1> HIDE DEF new
  <1>11. /\ g.voice = new /\ g.use_time = f.use_time + Cardinality(killed)
         /\ g.keyon = f.keyon \ K /\ g.connection = f.connection
    BY <1>2 DEF Synth
  <1>12. g \in Synth
    <2>1. f.use_time + Cardinality(killed) \in Nat /\ f.keyon \ K \in SUBSET Voices
      BY <1>3, <1>7
    <2>2. PICK t \in Nat, k \in SUBSET Voices :
            t = f.use_time + Cardinality(killed) /\ k = f.keyon \ K
      BY <2>1
    <2>3. g = [f EXCEPT !.voice = new, !.use_time = t, !.keyon = k]
      BY <2>2
    <2> QED BY <1>2, <1>9, <2>3 DEF Synth
  <1> HIDE DEF g
  <1>13. Killed(f, K, g)
    BY <1>10, <1>11, <1>12 DEF Killed, killed
  <1> QED BY <1>1, <1>4, <1>13

(* A kill leaves the other notes alone, *)
LEMMA KillTaken ==
  ASSUME NEW f, Well(f), NEW K \in SUBSET Voices, \A v \in K : Taken(f, v),
         NEW g, Killed(f, K, g), NEW v \in Voices
  PROVE  /\ Taken(g, v) <=> Taken(f, v) /\ v \notin K
         /\ g.voice[v].key = f.voice[v].key
         /\ f.voice[v].state = "OFF" => g.voice[v].state = "OFF"
  <1>1. g.voice[v].state = IF v \in K \cup Seconds(f, K) THEN "OFF" ELSE f.voice[v].state
    BY DEF Killed
  <1>2. v \in Seconds(f, K) => f.voice[v].state = "NOT_AVAIL"
    BY Pairs DEF Seconds, Well, Bound
  <1>3. g.voice[v].key = f.voice[v].key
    BY DEF Killed
  <1> QED BY <1>1, <1>2, <1>3 DEF Taken, On

(* and the table consistent. *)
LEMMA KillKeeps ==
  ASSUME NEW f, Well(f), NEW K \in SUBSET Voices, \A v \in K : Taken(f, v),
         NEW g, Killed(f, K, g)
  PROVE  Well(g) /\ (Keyed(f) => Keyed(g))
  <1>1. Bound(f) /\ g \in Synth /\ g.keyon = f.keyon \ K
    BY DEF Well, Killed
  <1>2. \A v \in Voices : g.voice[v].state =
          IF v \in K \cup Seconds(f, K) THEN "OFF" ELSE f.voice[v].state
    BY DEF Killed
  <1>3. \A v \in Voices : /\ g.voice[v].state = "NOT_AVAIL" => v \in Second
                          /\ g.voice[v].state = "ON_4OP" => v \in First
    BY <1>1, <1>2 DEF Bound
  <1>4. ASSUME NEW v \in First
        PROVE  g.voice[v + 3].state = "NOT_AVAIL" <=> g.voice[v].state = "ON_4OP"
    <2>1. v \in Voices /\ v + 3 \in Voices /\ v + 3 \in Second /\ v \notin Second
      BY Pairs
    <2>2. f.voice[v + 3].state = "NOT_AVAIL" <=> f.voice[v].state = "ON_4OP"
      BY <1>1 DEF Bound
    <2>3. v \notin Seconds(f, K)
      <3>1. SUFFICES ASSUME NEW u \in K, f.voice[u].state = "ON_4OP", v = u + 3
                     PROVE  FALSE
        BY DEF Seconds
      <3>2. u \in First
        BY <1>1, <3>1 DEF Bound
      <3> QED BY <2>1, <3>1, <3>2, Pairs
    <2>4. v + 3 \in Seconds(f, K) <=> v \in K /\ f.voice[v].state = "ON_4OP"
      <3>1. ASSUME NEW u \in K, v + 3 = u + 3 PROVE u = v
        BY <2>1, <3>1, Pairs
      <3> QED BY <3>1 DEF Seconds
    <2>5. v + 3 \in K => f.voice[v + 3].state # "NOT_AVAIL"
      BY DEF Taken, On
    <2>6. CASE v + 3 \in K \cup Seconds(f, K)
      <3>1. g.voice[v + 3].state = "OFF"
        BY <1>2, <2>1, <2>6
      <3>2. CASE v \in K
        BY <1>2, <2>1, <3>1, <3>2
      <3>3. CASE v \notin K
        <4>1. v + 3 \in K
          BY <2>4, <2>6, <3>3
        <4>2. g.voice[v].state = f.voice[v].state
          BY <1>2, <2>1, <2>3, <3>3
        <4> QED BY <2>2, <2>5, <3>1, <4>1, <4>2
      <3> QED BY <3>2, <3>3
    <2>7. CASE v + 3 \notin K \cup Seconds(f, K)
      <3>1. g.voice[v + 3].state = f.voice[v + 3].state
        BY <1>2, <2>1, <2>7
      <3>2. CASE v \in K
        <4>1. g.voice[v].state = "OFF" /\ f.voice[v].state # "ON_4OP"
          BY <1>2, <2>1, <2>4, <2>7, <3>2
        <4> QED BY <2>2, <3>1, <4>1
      <3>3. CASE v \notin K
        <4>1. g.voice[v].state = f.voice[v].state
          BY <1>2, <2>1, <2>3, <3>3
        <4> QED BY <2>2, <3>1, <4>1
      <3> QED BY <3>2, <3>3
    <2> QED BY <2>6, <2>7
  <1>5. Well(g)
    BY <1>1, <1>3, <1>4 DEF Well, Bound
  <1>6. ASSUME Keyed(f) PROVE Keyed(g)
    <2>1. \A v \in Voices : Taken(g, v) <=> Taken(f, v) /\ v \notin K
      BY KillTaken
    <2> QED BY <1>1, <1>6, <2>1 DEF Keyed
  <1> QED BY <1>5, <1>6

(* snd_opl3_note_off ends the notes of keys and no other. *)
NotesOff(f, ks, g) ==
  /\ Well(g) /\ (Keyed(f) => Keyed(g))
  /\ \A v \in Voices : /\ Taken(g, v) <=> Taken(f, v) /\ f.voice[v].key \notin ks
                       /\ g.voice[v].key = f.voice[v].key
                       /\ f.voice[v].state = "OFF" => g.voice[v].state = "OFF"
(* The search of snd_opl3_note_off finds every voice of a note. *)
LEMMA NoteOffEffect ==
  ASSUME NEW f, Well(f), NEW ks
  PROVE  NotesOff(f, ks, snd_opl3_note_off(f, ks))
  <1> DEFINE K == {v \in Voices : Taken(f, v) /\ f.voice[v].key \in ks}
             g == snd_opl3_kill_voice(f, K)
  <1>1. snd_opl3_note_off(f, ks) = g
    BY DEF snd_opl3_note_off
  <1>2. K \in SUBSET Voices /\ \A v \in K : Taken(f, v)
    OBVIOUS
  <1>3. \A v \in Voices : v \in K <=> Taken(f, v) /\ f.voice[v].key \in ks
    OBVIOUS
  <1> HIDE DEF K
  <1>4. Killed(f, K, g)
    BY <1>2, KillVoice
  <1> HIDE DEF g
  <1>5. Well(g) /\ (Keyed(f) => Keyed(g))
    BY <1>2, <1>4, KillKeeps
  <1>6. \A v \in Voices : /\ Taken(g, v) <=> Taken(f, v) /\ v \notin K
                          /\ g.voice[v].key = f.voice[v].key
                          /\ f.voice[v].state = "OFF" => g.voice[v].state = "OFF"
    BY <1>2, <1>4, KillTaken
  <1> QED BY <1>1, <1>3, <1>5, <1>6 DEF NotesOff

(* snd_opl3_pitch_ctrl keys voices that play, and they are now the last     *)
(* used.                                                                    *)
Bent(f, g) ==
  /\ Well(g) /\ (Keyed(f) => Keyed(g))
  /\ \A v \in Voices : /\ Taken(g, v) <=> Taken(f, v)
                       /\ g.voice[v].key = f.voice[v].key
(* A voice that is bent plays already, so no key goes down anew. *)
LEMMA PitchEffect ==
  ASSUME NEW f, Well(f), NEW c
  PROVE  Bent(f, snd_opl3_pitch_ctrl(f, c))
  <1> DEFINE P == {v \in Voices : Taken(f, v) /\ f.voice[v].key[1] = c}
             Time(v) == f.use_time + Cardinality({u \in P : u < v})
             new == [v \in Voices |->
                      IF v \in P THEN [f.voice[v] EXCEPT !.time = Time(v)]
                      ELSE f.voice[v]]
             g == [f EXCEPT !.voice = new, !.use_time = @ + Cardinality(P),
                            !.keyon = @ \cup P]
  <1>1. snd_opl3_pitch_ctrl(f, c) = g
    BY DEF snd_opl3_pitch_ctrl
  <1>2. f \in Synth /\ Bound(f)
    BY DEF Well
  <1>3. /\ f.voice \in [Voices -> Voice] /\ f.use_time \in Nat
        /\ f.keyon \subseteq Voices /\ f.connection \subseteq First
        /\ \A v \in Voices : /\ f.voice[v] \in Voice /\ f.voice[v].state \in States
                             /\ f.voice[v].time \in Nat /\ f.voice[v].key \in Keys
    BY <1>2, Fields
  <1>4. P \in SUBSET Voices /\ \A v \in P : Taken(f, v)
    OBVIOUS
  <1>5. \A v : Time(v) \in Nat
    <2>1. TAKE v
    <2>2. {u \in P : u < v} \in SUBSET Voices
      BY <1>4
    <2>3. Cardinality({u \in P : u < v}) \in Nat
      BY <2>2, FewVoices
    <2> QED BY <1>3, <2>3
  <1>6. Cardinality(P) \in Nat
    BY <1>4, FewVoices
  <1> HIDE DEF P, Time
  <1>7. \A v \in Voices : [f.voice[v] EXCEPT !.time = Time(v)] \in Voice
    BY <1>3, <1>5 DEF Voice
  <1>8. new \in [Voices -> Voice]
    BY <1>3, <1>7
  <1>9. \A v \in Voices : new[v].key = f.voice[v].key /\ new[v].state = f.voice[v].state
    BY <1>3 DEF Voice
  <1> HIDE DEF new
  <1>10. g.voice = new /\ g.keyon = f.keyon \cup P
    BY <1>2 DEF Synth
  <1>11. g \in Synth
    <2>1. f.use_time + Cardinality(P) \in Nat /\ f.keyon \cup P \in SUBSET Voices
      BY <1>3, <1>4, <1>6
    <2>2. PICK t \in Nat, k \in SUBSET Voices :
            t = f.use_time + Cardinality(P) /\ k = f.keyon \cup P
      BY <2>1
    <2>3. g = [f EXCEPT !.voice = new, !.use_time = t, !.keyon = k]
      BY <2>2
    <2> QED BY <1>2, <1>8, <2>3 DEF Synth
  <1> HIDE DEF g
  <1>12. \A v \in Voices : g.voice[v].key = f.voice[v].key /\ g.voice[v].state = f.voice[v].state
    BY <1>9, <1>10
  <1>13. Bound(g)
    BY <1>2, <1>12, Pairs DEF Bound
  <1>14. \A v \in Voices : Taken(g, v) <=> Taken(f, v)
    BY <1>12 DEF Taken
  <1>15. Keyed(f) => Keyed(g)
    BY <1>4, <1>10, <1>14 DEF Keyed
  <1> QED BY <1>1, <1>11, <1>12, <1>13, <1>14, <1>15 DEF Bent, Well

(***************************************************************************)
(* A note is played.                                                       *)
(***************************************************************************)

(* Voice v of f has the state st and the key k in g; nothing else changes   *)
(* but ages.                                                                *)
Set(f, v, st, k, g) ==
  /\ g \in Synth /\ g.voice[v].state = st /\ g.voice[v].key = k
  /\ \A w \in Voices : w # v => /\ g.voice[w].state = f.voice[w].state
                                /\ g.voice[w].key = f.voice[w].key

(* Touching a voice changes its age alone. *)
LEMMA Touched ==
  ASSUME NEW f \in Synth, NEW v \in Voices, NEW g, g = Touch(f, v)
  PROVE  /\ Set(f, v, f.voice[v].state, f.voice[v].key, g)
         /\ g.keyon = f.keyon /\ g.connection = f.connection
  <1>1. /\ f.voice \in [Voices -> Voice] /\ f.use_time \in Nat
        /\ f.voice[v] \in Voice /\ f.use_time + 1 \in Nat
    BY Fields
  <1> DEFINE x == [f.voice[v] EXCEPT !.time = f.use_time]
             fn == [f.voice EXCEPT ![v] = x]
  <1>2. x \in Voice /\ x.state = f.voice[v].state /\ x.key = f.voice[v].key
    BY <1>1 DEF Voice
  <1>3. fn \in [Voices -> Voice] /\ fn[v] = x /\ \A w \in Voices : w # v => fn[w] = f.voice[w]
    BY <1>1, <1>2
  <1>4. g = [f EXCEPT !.voice = fn, !.use_time = f.use_time + 1]
    BY DEF Touch
  <1> HIDE DEF x, fn
  <1>5. g.voice = fn /\ g.keyon = f.keyon /\ g.connection = f.connection
    BY <1>4 DEF Synth
  <1>6. g \in Synth
    BY <1>1, <1>3, <1>4 DEF Synth
  <1> QED BY <1>2, <1>3, <1>5, <1>6 DEF Set

(* The assignments to the voice and the registers. *)
Assign(f, v, k, st, on, joined, g) ==
  g = [f EXCEPT !.voice[v].key = k, !.voice[v].state = st, !.keyon = on, !.connection = joined]
(* They set the voice and the registers, and touch no other voice. *)
LEMMA Assigned ==
  ASSUME NEW f \in Synth, NEW v \in Voices, NEW k \in Keys, NEW st \in States,
         NEW on \in SUBSET Voices, NEW joined \in SUBSET First,
         NEW g, Assign(f, v, k, st, on, joined, g)
  PROVE  Set(f, v, st, k, g) /\ g.keyon = on
  <1>1. f.voice \in [Voices -> Voice] /\ f.voice[v] \in Voice
    BY Fields
  <1> DEFINE x == [f.voice[v] EXCEPT !.key = k, !.state = st]
             fn == [f.voice EXCEPT ![v] = x]
  <1>2. x \in Voice /\ x.state = st /\ x.key = k
    BY <1>1 DEF Voice
  <1>3. fn \in [Voices -> Voice] /\ fn[v] = x /\ \A w \in Voices : w # v => fn[w] = f.voice[w]
    BY <1>1, <1>2
  <1>4. g.voice = fn /\ g.keyon = on /\ g.connection = joined /\ g.use_time = f.use_time
    <2>1. [[f.voice EXCEPT ![v] = [f.voice[v] EXCEPT !.key = k]] EXCEPT
             ![v] = [[f.voice EXCEPT ![v] = [f.voice[v] EXCEPT !.key = k]][v]
                       EXCEPT !.state = st]] = fn
      BY <1>1
    <2> QED BY <1>1, <2>1 DEF Synth, Assign
  <1> HIDE DEF x, fn
  <1>5. g \in Synth
    BY <1>1, <1>3, <1>4 DEF Synth, Assign
  <1> QED BY <1>2, <1>3, <1>4, <1>5 DEF Set

(* The assignments to the second voice: it is withheld, or free again. *)
Withhold(f, v, k, st, g) == g = [f EXCEPT !.voice[v].key = k, !.voice[v].state = st]
Free(f, v, st, g) == g = [f EXCEPT !.voice[v].state = st]
(* They set the second voice alone. *)
LEMMA SecondAssigned ==
  ASSUME NEW f \in Synth, NEW v \in Voices, NEW k \in Keys, NEW st \in States,
         NEW g, Withhold(f, v, k, st, g), NEW h, Free(f, v, st, h)
  PROVE  /\ Set(f, v, st, k, g) /\ g.keyon = f.keyon
         /\ Set(f, v, st, f.voice[v].key, h) /\ h.keyon = f.keyon
  <1>1. f.voice \in [Voices -> Voice] /\ f.voice[v] \in Voice /\ f.voice[v].key \in Keys
    BY Fields
  <1>2. /\ g = [f EXCEPT !.voice[v].key = k, !.voice[v].state = st]
        /\ h = [f EXCEPT !.voice[v].state = st]
    BY DEF Withhold, Free
  <1> DEFINE x == [f.voice[v] EXCEPT !.key = k, !.state = st]
             y == [f.voice[v] EXCEPT !.state = st]
             fx == [f.voice EXCEPT ![v] = x]
             fy == [f.voice EXCEPT ![v] = y]
  <1>3. /\ x \in Voice /\ x.state = st /\ x.key = k
        /\ y \in Voice /\ y.state = st /\ y.key = f.voice[v].key
    BY <1>1 DEF Voice
  <1>4. /\ fx \in [Voices -> Voice] /\ fx[v] = x /\ \A w \in Voices : w # v => fx[w] = f.voice[w]
        /\ fy \in [Voices -> Voice] /\ fy[v] = y /\ \A w \in Voices : w # v => fy[w] = f.voice[w]
    BY <1>1, <1>3
  <1>5. g.voice = fx /\ g.keyon = f.keyon /\ h.voice = fy /\ h.keyon = f.keyon
    <2>1. [[f.voice EXCEPT ![v] = [f.voice[v] EXCEPT !.key = k]] EXCEPT
             ![v] = [[f.voice EXCEPT ![v] = [f.voice[v] EXCEPT !.key = k]][v]
                       EXCEPT !.state = st]] = fx
      BY <1>1
    <2>2. g.voice = fx /\ g.keyon = f.keyon
      BY <1>1, <1>2, <2>1 DEF Synth
    <2>3. h = [f EXCEPT !.voice = fy]
      BY <1>2
    <2>4. h.voice = fy /\ h.keyon = f.keyon
      BY <2>3 DEF Synth
    <2> QED BY <2>2, <2>4
  <1> HIDE DEF x, y, fx, fy
  <1>6. g \in Synth /\ h \in Synth
    BY <1>1, <1>2, <1>4, <1>5 DEF Synth
  <1>7. Set(f, v, st, k, g)
    BY <1>3, <1>4, <1>5, <1>6 DEF Set
  <1>8. Set(f, v, st, f.voice[v].key, h)
    BY <1>3, <1>4, <1>5, <1>6 DEF Set
  <1> QED BY <1>2, <1>5, <1>7, <1>8

(* What playing on v makes of f. *)
Played(f, v, k, op4, g) ==
  /\ g \in Synth
  /\ g.keyon = KeysAfterKill(f, v, op4) \cup {v}
  /\ g.voice[v].key = k /\ g.voice[v].state = IF op4 THEN "ON_4OP" ELSE "ON_2OP"
  /\ v \in First => g.voice[v + 3].state =
       IF op4 THEN "NOT_AVAIL" ELSE IF f.voice[v].state = "ON_4OP" THEN "OFF"
                               ELSE f.voice[v + 3].state
  /\ v \in First /\ ~op4 => g.voice[v + 3].key = f.voice[v + 3].key
  /\ \A w \in Voices : w # v /\ ~(v \in First /\ w = v + 3) =>
       g.voice[w].state = f.voice[w].state /\ g.voice[w].key = f.voice[w].key

(* Play does just that, whatever v played before. *)
LEMMA PlayEffect ==
  ASSUME NEW f, Well(f), NEW op4 \in BOOLEAN, NEW v \in Voices, op4 => v \in First,
         NEW k \in Keys
  PROVE  Played(f, v, k, op4, Play(f, v, k, op4))
  <1>1. f \in Synth /\ Bound(f)
    BY DEF Well
  <1>2. /\ f.keyon \subseteq Voices /\ f.connection \subseteq First
    BY <1>1, Fields
  <1>3. PICK st \in States : st = IF op4 THEN "ON_4OP" ELSE "ON_2OP"
    BY DEF States
  <1>4. PICK on \in SUBSET Voices : on = KeysAfterKill(f, v, op4) \cup {v}
    <2>1. KeysAfterKill(f, v, op4) \cup {v} \in SUBSET Voices
      BY <1>2 DEF KeysAfterKill
    <2> QED BY <2>1
  <1>5. PICK t : t = Touch(f, v)
    OBVIOUS
  <1>6. /\ Set(f, v, f.voice[v].state, f.voice[v].key, t)
        /\ t.keyon = f.keyon /\ t.connection = f.connection
    BY <1>1, <1>5, Touched
  <1>7. PICK joined \in SUBSET First :
          joined = IF op4 THEN t.connection \cup {v} ELSE t.connection \ {v}
    <2>1. t.connection \subseteq First
      BY <1>2, <1>6
    <2> QED BY <2>1
  <1>8. PICK g : Assign(t, v, k, st, on, joined, g)
    BY DEF Assign
  <1>9. t \in Synth
    BY <1>6 DEF Set
  <1>10. Set(t, v, st, k, g) /\ g.keyon = on
    BY <1>8, <1>9, Assigned
  <1>11. Set(f, v, st, k, g)
    BY <1>6, <1>10 DEF Set
  <1>12. Play(f, v, k, op4) =
           IF op4 THEN [Touch(g, v + 3) EXCEPT !.voice[v + 3].key = k,
                                               !.voice[v + 3].state = "NOT_AVAIL"]
           ELSE IF f.voice[v].state = "ON_4OP"
                THEN [Touch(g, v + 3) EXCEPT !.voice[v + 3].state = "OFF"]
                ELSE g
    BY <1>3, <1>4, <1>5, <1>7, <1>8 DEF Play, Assign
  <1>13. CASE op4 \/ f.voice[v].state = "ON_4OP"
    <2>1. v \in First
      BY <1>1, <1>13 DEF Bound
    <2>2. PICK u \in Voices : u = v + 3 /\ u # v
      BY <2>1, Pairs
    <2>3. g \in Synth
      BY <1>11 DEF Set
    <2>4. PICK t2 : t2 = Touch(g, u)
      OBVIOUS
    <2>5. Set(g, u, g.voice[u].state, g.voice[u].key, t2) /\ t2.keyon = g.keyon
      BY <2>3, <2>4, Touched
    <2>6. PICK r : r = Play(f, v, k, op4)
      OBVIOUS
    <2>7. t2 \in Synth
      BY <2>5 DEF Set
    <2>8. \A w \in Voices : w # v /\ w # u =>
            t2.voice[w].state = f.voice[w].state /\ t2.voice[w].key = f.voice[w].key
      BY <1>11, <2>5 DEF Set
    <2>9. t2.voice[v].state = st /\ t2.voice[v].key = k /\ t2.keyon = on
      BY <1>10, <1>11, <2>2, <2>5 DEF Set
    <2>10. t2.voice[u].key = f.voice[u].key
      BY <1>11, <2>2, <2>5 DEF Set
    <2>11. PICK x \in States : x = IF op4 THEN "NOT_AVAIL" ELSE "OFF"
      BY DEF States
    <2>12. PICK a, b : Withhold(t2, u, k, x, a) /\ Free(t2, u, x, b)
      BY DEF Withhold, Free
    <2>13. /\ Set(t2, u, x, k, a) /\ a.keyon = t2.keyon
           /\ Set(t2, u, x, t2.voice[u].key, b) /\ b.keyon = t2.keyon
      BY <2>7, <2>12, SecondAssigned
    <2>14. CASE op4
      <3>1. r = a
        BY <1>12, <2>2, <2>4, <2>6, <2>11, <2>12, <2>14 DEF Withhold
      <3>2. /\ r \in Synth /\ r.keyon = on /\ r.voice[u].state = "NOT_AVAIL"
            /\ r.voice[v].state = st /\ r.voice[v].key = k
            /\ \A w \in Voices : w # v /\ w # u =>
                 r.voice[w].state = f.voice[w].state /\ r.voice[w].key = f.voice[w].key
        BY <2>2, <2>8, <2>9, <2>11, <2>13, <2>14, <3>1 DEF Set
      <3> QED BY <1>3, <1>4, <2>1, <2>2, <2>6, <2>14, <3>2 DEF Played
    <2>15. CASE ~op4
      <3>1. r = b
        BY <1>12, <1>13, <2>2, <2>4, <2>6, <2>11, <2>12, <2>15 DEF Free
      <3>2. /\ r \in Synth /\ r.keyon = on /\ r.voice[u].state = "OFF"
            /\ r.voice[u].key = f.voice[u].key
            /\ r.voice[v].state = st /\ r.voice[v].key = k
            /\ \A w \in Voices : w # v /\ w # u =>
                 r.voice[w].state = f.voice[w].state /\ r.voice[w].key = f.voice[w].key
        BY <2>2, <2>8, <2>9, <2>10, <2>11, <2>13, <2>15, <3>1 DEF Set
      <3> QED BY <1>3, <1>4, <1>13, <2>1, <2>2, <2>6, <2>15, <3>2 DEF Played
    <2> QED BY <2>14, <2>15
  <1>14. CASE ~(op4 \/ f.voice[v].state = "ON_4OP")
    <2>1. Play(f, v, k, op4) = g
      BY <1>12, <1>14
    <2>2. v \in First => v + 3 \in Voices /\ v + 3 # v
      BY Pairs
    <2> QED BY <1>3, <1>4, <1>10, <1>11, <1>14, <2>1, <2>2 DEF Set, Played
  <1> QED BY <1>13, <1>14

(* A play keeps the table consistent and takes no voice but its own from    *)
(* the notes that play.                                                     *)
Keeps(f, v, op4, g) ==
  /\ Well(g) /\ (Keyed(f) => Keyed(g))
  /\ \A w \in Voices : w # v /\ ~(op4 /\ w = v + 3) =>
       (Taken(g, w) <=> Taken(f, w)) /\ g.voice[w].key = f.voice[w].key

(* It does so on every voice that opl3_get_voice may find. *)
LEMMA PlayKeeps ==
  ASSUME NEW f, Well(f), NEW op4 \in BOOLEAN, NEW v \in Voices, op4 => v \in First,
         f.voice[v].state # "NOT_AVAIL", NEW k \in Keys, NEW g, Played(f, v, k, op4, g)
  PROVE  Keeps(f, v, op4, g)
  <1>1. f \in Synth /\ Bound(f) /\ g \in Synth
    BY DEF Well, Played
  <1>2. g.voice[v].state = IF op4 THEN "ON_4OP" ELSE "ON_2OP"
    BY DEF Played
  <1>3. v \in First => g.voice[v + 3].state =
          IF op4 THEN "NOT_AVAIL" ELSE IF f.voice[v].state = "ON_4OP" THEN "OFF"
                                  ELSE f.voice[v + 3].state
    BY DEF Played
  <1>4. \A w \in Voices : w # v /\ ~(v \in First /\ w = v + 3) =>
          g.voice[w].state = f.voice[w].state
    BY DEF Played
  <1>5. \A w \in Voices : /\ f.voice[w].state = "NOT_AVAIL" => w \in Second
                          /\ f.voice[w].state = "ON_4OP" => w \in First
    BY <1>1 DEF Bound
  <1>6. \A w \in First : f.voice[w + 3].state = "NOT_AVAIL" <=> f.voice[w].state = "ON_4OP"
    BY <1>1 DEF Bound
  <1>7. v \in First => v + 3 \in Second /\ v + 3 \in Voices /\ v + 3 \notin First /\ v + 3 # v
    BY Pairs
  <1>8. ASSUME NEW w \in Voices
        PROVE  /\ g.voice[w].state = "NOT_AVAIL" => w \in Second
               /\ g.voice[w].state = "ON_4OP" => w \in First
    <2>1. CASE w = v
      BY <1>2, <2>1
    <2>2. CASE v \in First /\ w = v + 3
      BY <1>3, <1>5, <1>7, <2>2
    <2>3. CASE w # v /\ ~(v \in First /\ w = v + 3)
      BY <1>4, <1>5, <2>3
    <2> QED BY <2>1, <2>2, <2>3
  <1>9. ASSUME NEW u \in First
        PROVE  g.voice[u + 3].state = "NOT_AVAIL" <=> g.voice[u].state = "ON_4OP"
    <2>1. /\ u \in Voices /\ u + 3 \in Voices /\ u + 3 \in Second /\ u + 3 \notin First
          /\ u \notin Second /\ u \in Nat /\ v \in Nat
      BY Pairs
    <2>2. CASE u = v
      BY <1>2, <1>3, <1>6, <2>2
    <2>3. CASE u # v
      <3>1. g.voice[u].state = f.voice[u].state
        BY <1>4, <1>7, <2>1, <2>3
      <3>2. CASE u + 3 = v
        <4>1. f.voice[u].state # "ON_4OP" /\ ~op4
          BY <1>6, <2>1, <3>2
        <4> QED BY <1>2, <3>1, <3>2, <4>1
      <3>3. CASE u + 3 # v
        <4>1. ~(v \in First /\ u + 3 = v + 3)
          BY <2>1, <2>3
        <4>2. g.voice[u + 3].state = f.voice[u + 3].state
          BY <1>4, <2>1, <3>3, <4>1
        <4> QED BY <1>6, <3>1, <4>2
      <3> QED BY <3>2, <3>3
    <2> QED BY <2>2, <2>3
  <1>10. Well(g)
    BY <1>1, <1>8, <1>9 DEF Well, Bound
  <1>11. \A w \in Voices : w # v /\ ~(op4 /\ w = v + 3) =>
           (Taken(g, w) <=> Taken(f, w)) /\ g.voice[w].key = f.voice[w].key
    <2>1. SUFFICES ASSUME NEW w \in Voices, w # v, ~(op4 /\ w = v + 3)
                   PROVE  (Taken(g, w) <=> Taken(f, w)) /\ g.voice[w].key = f.voice[w].key
      OBVIOUS
    <2>2. CASE v \in First /\ w = v + 3
      <3>1. g.voice[w].key = f.voice[w].key
        BY <2>1, <2>2 DEF Played
      <3>2. g.voice[w].state = IF f.voice[v].state = "ON_4OP" THEN "OFF" ELSE f.voice[w].state
        BY <1>3, <2>1, <2>2
      <3>3. f.voice[v].state = "ON_4OP" => f.voice[w].state = "NOT_AVAIL"
        BY <1>6, <2>2
      <3> QED BY <3>1, <3>2, <3>3 DEF Taken, On
    <2>3. CASE ~(v \in First /\ w = v + 3)
      BY <2>1, <2>3 DEF Played, Taken
    <2> QED BY <2>2, <2>3
  <1>12. ASSUME Keyed(f) PROVE Keyed(g)
    <2>1. g.keyon = KeysAfterKill(f, v, op4) \cup {v}
      BY DEF Played
    <2>2. KeysAfterKill(f, v, op4) \subseteq f.keyon
      BY DEF KeysAfterKill
    <2>3. \A w \in f.keyon : w # v /\ ~(op4 /\ w = v + 3) => w \in KeysAfterKill(f, v, op4)
      BY DEF KeysAfterKill
    <2>4. Taken(g, v)
      BY <1>2 DEF Taken, On
    <2>5. op4 => v + 3 \in Second /\ ~Taken(g, v + 3)
      BY <1>3, <1>7 DEF Taken, On
    <2>6. ASSUME NEW w \in Voices
          PROVE  /\ Taken(g, w) => w \in g.keyon
                 /\ w \notin First \cup Second => (w \in g.keyon => Taken(g, w))
      <3>1. CASE w = v
        BY <2>1, <2>4, <3>1
      <3>2. CASE op4 /\ w = v + 3
        BY <2>5, <3>2
      <3>3. CASE w # v /\ ~(op4 /\ w = v + 3)
        <4>1. Taken(g, w) <=> Taken(f, w)
          BY <1>11, <3>3
        <4>2. w \in g.keyon <=> w \in f.keyon
          BY <2>1, <2>2, <2>3, <3>3
        <4> QED BY <1>12, <4>1, <4>2 DEF Keyed
      <3> QED BY <3>1, <3>2, <3>3
    <2> QED BY <2>6 DEF Keyed
  <1> QED BY <1>10, <1>11, <1>12 DEF Keeps

(* Of the costs, ages or numbers of voices there is a least. *)
LEMMA LeastNat ==
  ASSUME NEW T, T \subseteq Nat, T # {}
  PROVE  \E m \in T : \A x \in T : m <= x
  <1>1. IsWellFoundedOn(OpToRel(<, Nat), Nat)
    BY NatLessThanWellFounded
  <1>2. PICK m \in T : \A x \in T : ~(<<x, m>> \in OpToRel(<, Nat))
    BY <1>1, WFMin
  <1>3. \A x \in T : ~(x < m)
    BY <1>2 DEF OpToRel
  <1> QED BY <1>3

(* The least of a nonempty set of voices by cost, then age, then number. *)
LEMMA LeastVoice ==
  ASSUME NEW S \in SUBSET Voices, S # {}, NEW a, NEW b,
         \A w \in S : a[w] \in Nat /\ b[w] \in Nat
  PROVE  \E v \in S : \A w \in S : \/ a[v] < a[w]
                                   \/ a[v] = a[w] /\ (b[v] < b[w] \/ (b[v] = b[w] /\ v <= w))
  <1>1. PICK m \in {a[w] : w \in S} : \A x \in {a[w] : w \in S} : m <= x
    <2>1. {a[w] : w \in S} \subseteq Nat /\ {a[w] : w \in S} # {}
      OBVIOUS
    <2> QED BY <2>1, LeastNat
  <1>2. PICK S1 \in SUBSET S : S1 # {} /\ \A w \in S : w \in S1 <=> a[w] = m
    <2>1. {w \in S : a[w] = m} \in SUBSET S /\ {w \in S : a[w] = m} # {}
      BY <1>1
    <2> QED BY <2>1
  <1>3. PICK n \in {b[w] : w \in S1} : \A x \in {b[w] : w \in S1} : n <= x
    <2>1. {b[w] : w \in S1} \subseteq Nat /\ {b[w] : w \in S1} # {}
      BY <1>2
    <2> QED BY <2>1, LeastNat
  <1>4. PICK S2 \in SUBSET S1 : S2 # {} /\ \A w \in S1 : w \in S2 <=> b[w] = n
    <2>1. {w \in S1 : b[w] = n} \in SUBSET S1 /\ {w \in S1 : b[w] = n} # {}
      BY <1>3
    <2> QED BY <2>1
  <1>5. PICK v \in S2 : \A w \in S2 : v <= w
    <2>1. S2 \subseteq Nat
      BY <1>2, <1>4, Pairs
    <2> QED BY <1>4, <2>1, LeastNat
  <1>6. v \in S /\ a[v] = m /\ b[v] = n
    BY <1>2, <1>4
  <1>7. ASSUME NEW w \in S
        PROVE  \/ a[v] < a[w]
               \/ a[v] = a[w] /\ (b[v] < b[w] \/ (b[v] = b[w] /\ v <= w))
    <2>1. m <= a[w] /\ m \in Nat /\ a[w] \in Nat
      BY <1>1, <1>6
    <2>2. CASE a[w] = m
      <3>1. w \in S1 /\ n <= b[w] /\ n \in Nat /\ b[w] \in Nat
        BY <1>2, <1>3, <1>6, <2>2
      <3>2. b[w] = n => v <= w
        BY <1>4, <1>5, <3>1
      <3> QED BY <1>6, <2>2, <3>1, <3>2
    <2>3. CASE a[w] # m
      BY <1>6, <2>1, <2>3
    <2> QED BY <2>2, <2>3
  <1> QED BY <1>6, <1>7

(* A cost of 3 is that of a voice that cannot be had. *)
LEMMA CostRange ==
  ASSUME NEW f, Well(f), NEW op4 \in BOOLEAN, NEW v \in Voices
  PROVE  /\ Cost(f, v, op4) \in 0 .. 3
         /\ Cost(f, v, op4) < 3 <=> f.voice[v].state # "NOT_AVAIL" /\ (op4 => v \in First)
  BY DEF Cost

(* There is a voice for every note, and it can be played on. *)
LEMMA VoiceFound ==
  ASSUME NEW f, Well(f), NEW op4 \in BOOLEAN
  PROVE  opl3_get_voice(f, op4) # {}
  <1>1. f \in Synth /\ Bound(f)
    BY DEF Well
  <1>2. PICK u \in Voices : Cost(f, u, op4) < 3
    <2>1. CASE op4
      <3>1. PICK u \in First : TRUE
        BY PairsAssumption
      <3>2. u \in Voices /\ f.voice[u].state # "NOT_AVAIL"
        BY <1>1, Pairs DEF Bound
      <3> QED BY <3>1, <3>2, CostRange
    <2>2. CASE ~op4
      <3>1. PICK u \in Voices : u \notin First \cup Second
        BY PairsAssumption
      <3>2. f.voice[u].state # "NOT_AVAIL"
        BY <1>1, <3>1 DEF Bound
      <3> QED BY <2>2, <3>2, CostRange
    <2> QED BY <2>1, <2>2
  <1> DEFINE a == [w \in Voices |-> Cost(f, w, op4)]
             b == [w \in Voices |-> f.voice[w].time]
  <1>3. \A w \in Voices : a[w] = Cost(f, w, op4) /\ b[w] = f.voice[w].time
    OBVIOUS
  <1>4. \A w \in Voices : a[w] \in Nat /\ b[w] \in Nat
    <2>1. TAKE w \in Voices
    <2>2. Cost(f, w, op4) \in 0 .. 3
      BY CostRange
    <2>3. f.voice[w].time \in Nat
      BY <1>1, Fields
    <2> QED BY <1>3, <2>2, <2>3
  <1> HIDE DEF a, b
  <1>5. PICK v \in Voices : \A w \in Voices :
          \/ a[v] < a[w]
          \/ a[v] = a[w] /\ (b[v] < b[w] \/ (b[v] = b[w] /\ v <= w))
    <2>1. PICK S \in SUBSET Voices : S = Voices
      OBVIOUS
    <2>2. S # {} /\ \A w \in S : a[w] \in Nat /\ b[w] \in Nat
      BY <1>2, <1>4, <2>1
    <2>3. \E v \in S : \A w \in S :
             \/ a[v] < a[w]
             \/ a[v] = a[w] /\ (b[v] < b[w] \/ (b[v] = b[w] /\ v <= w))
      BY <2>2, LeastVoice
    <2> QED BY <2>1, <2>3
  <1>6. a[v] < 3
    <2>1. a[v] <= a[u] /\ a[u] < 3 /\ a[u] \in Nat /\ a[v] \in Nat
      BY <1>2, <1>3, <1>4, <1>5
    <2> QED BY <2>1
  <1>7. v \in opl3_get_voice(f, op4)
    BY <1>3, <1>5, <1>6 DEF opl3_get_voice
  <1> QED BY <1>7

(* The voice found is not withheld, and a first one for four operators. *)
LEMMA VoiceFoundFits ==
  ASSUME NEW f, Well(f), NEW op4 \in BOOLEAN, NEW v \in opl3_get_voice(f, op4)
  PROVE  v \in Voices /\ f.voice[v].state # "NOT_AVAIL" /\ (op4 => v \in First)
  <1>1. v \in Voices /\ Cost(f, v, op4) < 3
    BY DEF opl3_get_voice
  <1> QED BY <1>1, CostRange

(* While a voice, or a pair of them, plays nothing none is taken that does. *)
Spare(f, op4) ==
  \E u \in Voices : IF op4 THEN u \in First /\ ~Taken(f, u) /\ ~Taken(f, u + 3)
                    ELSE f.voice[u].state = "OFF"
(* For a free voice costs less than one that plays. *)
LEMMA SpareFirst ==
  ASSUME NEW f, Well(f), NEW op4 \in BOOLEAN, NEW v \in opl3_get_voice(f, op4), Spare(f, op4)
  PROVE  ~Taken(f, v) /\ (op4 => ~Taken(f, v + 3))
  <1>1. v \in Voices /\ f.voice[v].state # "NOT_AVAIL" /\ (op4 => v \in First)
    BY VoiceFoundFits
  <1>2. PICK u \in Voices : IF op4 THEN u \in First /\ ~Taken(f, u) /\ ~Taken(f, u + 3)
                            ELSE f.voice[u].state = "OFF"
    BY DEF Spare
  <1>3. Bound(f)
    BY DEF Well
  <1>4. Cost(f, v, op4) <= Cost(f, u, op4)
    <2>1. Cost(f, v, op4) < Cost(f, u, op4) \/ Cost(f, v, op4) = Cost(f, u, op4)
      BY DEF opl3_get_voice
    <2>2. Cost(f, v, op4) \in 0 .. 3 /\ Cost(f, u, op4) \in 0 .. 3
      BY <1>1, CostRange
    <2> QED BY <2>1, <2>2
  <1>5. CASE op4
    <2>1. f.voice[u].state # "NOT_AVAIL"
      BY <1>2, <1>3, <1>5, Pairs DEF Bound
    <2>2. Cost(f, u, op4) = 0
      BY <1>2, <1>5, <2>1 DEF Cost, Taken, On
    <2>3. ~Taken(f, v) /\ f.voice[v + 3].state # "ON_2OP"
      BY <1>1, <1>4, <1>5, <2>2 DEF Cost
    <2>4. f.voice[v + 3].state # "ON_4OP"
      BY <1>1, <1>3, <1>5, Pairs DEF Bound
    <2> QED BY <2>3, <2>4 DEF Taken, On
  <1>6. CASE ~op4
    <2>1. Cost(f, u, op4) <= 1
      BY <1>2, <1>6 DEF Cost, Taken, On
    <2>2. ~Taken(f, v)
      BY <1>1, <1>4, <1>6, <2>1 DEF Cost
    <2> QED BY <1>6, <2>2
  <1> QED BY <1>5, <1>6

(* One program of a note. *)
PlayedNext(f, k, op4, g) ==
  \E v \in opl3_get_voice(f, op4) : Played(f, v, k, op4, g) /\ Keeps(f, v, op4, g)
(* It is played on the voice that opl3_get_voice finds. *)
LEMMA PlayNextEffect ==
  ASSUME NEW f, Well(f), NEW op4 \in BOOLEAN, NEW k \in Keys
  PROVE  PlayedNext(f, k, op4, PlayNext(f, k, op4))
  <1>1. PICK v \in opl3_get_voice(f, op4) : v = CHOOSE x \in opl3_get_voice(f, op4) : TRUE
    BY VoiceFound, Zenon
  <1>2. v \in Voices /\ f.voice[v].state # "NOT_AVAIL" /\ (op4 => v \in First)
    BY VoiceFoundFits
  <1>3. PICK g : g = Play(f, v, k, op4)
    OBVIOUS
  <1>4. Played(f, v, k, op4, g)
    BY <1>2, <1>3, PlayEffect
  <1>5. Keeps(f, v, op4, g)
    BY <1>2, <1>4, PlayKeeps
  <1>6. PlayNext(f, k, op4) = g
    BY <1>1, <1>3 DEF PlayNext
  <1> QED BY <1>4, <1>5, <1>6 DEF PlayedNext

(***************************************************************************)
(* Ages are renumbered.                                                    *)
(***************************************************************************)
Renewed(f, g) ==
  /\ g \in Synth /\ Ranked(g) /\ g.keyon = f.keyon
  /\ \A v \in Voices : g.voice[v].state = f.voice[v].state /\ g.voice[v].key = f.voice[v].key
(* Ranks are at most the number of voices; nothing else changes. *)
LEMMA RenumberedEffect ==
  ASSUME NEW f \in Synth
  PROVE  Renewed(f, Renumbered(f))
  <1>1. /\ f.voice \in [Voices -> Voice] /\ f.use_time \in Nat
        /\ f.keyon \subseteq Voices /\ f.connection \subseteq First
        /\ \A v \in Voices : /\ f.voice[v] \in Voice /\ f.voice[v].state \in States
                             /\ f.voice[v].time \in Nat /\ f.voice[v].key \in Keys
    BY Fields
  <1> DEFINE times == {f.voice[v].time : v \in Voices}
             ages == times \cup {f.use_time}
             Rank(t) == Cardinality({a \in ages : a < t})
             new == [v \in Voices |-> [f.voice[v] EXCEPT !.time = Rank(@)]]
             g == [f EXCEPT !.use_time = Rank(@), !.voice = new]
  <1>2. Renumbered(f) = g
    BY DEF Renumbered
  <1>3. IsFiniteSet(times) /\ Cardinality(times) <= Cardinality(Voices)
    <2>1. PICK h : h = [v \in Voices |-> f.voice[v].time]
      OBVIOUS
    <2>2. h \in Surjection(Voices, times)
      BY <2>1 DEF Surjection
    <2> HIDE DEF times
    <2> QED BY <2>2, FewVoices, FS_Surjection
  <1>4. /\ IsFiniteSet(ages) /\ Cardinality(ages) \in Nat
        /\ Cardinality(ages) <= Cardinality(Voices) + 1
    <2> HIDE DEF times
    <2>1. PICK u : u = f.use_time
      OBVIOUS
    <2>2. /\ IsFiniteSet(times \cup {u})
          /\ Cardinality(times \cup {u}) = IF u \in times THEN Cardinality(times)
                                           ELSE Cardinality(times) + 1
      BY <1>3, FS_AddElement
    <2>3. Cardinality(times) \in Nat /\ Cardinality(Voices) \in Nat
      BY <1>3, FewVoices, FS_CardinalityType
    <2> QED BY <1>3, <2>1, <2>2, <2>3
  <1>5. ages \subseteq Nat
    BY <1>1
  <1>6. \A v \in Voices : f.voice[v].time \in ages
    OBVIOUS
  <1>7. f.use_time \in ages
    OBVIOUS
  <1> HIDE DEF ages
  <1>8. \A t \in ages : Rank(t) \in 0 .. Cardinality(Voices)
    <2>1. TAKE t \in ages
    <2>2. PICK L : L = {a \in ages : a < t}
      OBVIOUS
    <2>3. L \in SUBSET (ages \ {t})
      BY <1>5, <2>2
    <2>4. IsFiniteSet(ages \ {t}) /\ Cardinality(ages \ {t}) = Cardinality(ages) - 1
      BY <1>4, FS_RemoveElement
    <2>5. IsFiniteSet(L) /\ Cardinality(L) <= Cardinality(ages \ {t})
      BY <2>3, <2>4, FS_Subset
    <2>6. Cardinality(L) \in Nat /\ Cardinality(Voices) \in Nat
      BY <2>5, FewVoices, FS_CardinalityType
    <2>7. Cardinality(L) \in 0 .. Cardinality(Voices)
      BY <1>4, <2>4, <2>5, <2>6
    <2> QED BY <2>2, <2>7
  <1> HIDE DEF Rank
  <1>9. /\ \A v \in Voices : Rank(f.voice[v].time) \in 0 .. Cardinality(Voices)
        /\ \A v \in Voices : Rank(f.voice[v].time) \in Nat
        /\ Rank(f.use_time) \in Nat
    BY <1>6, <1>7, <1>8, FewVoices
  <1>10. ASSUME NEW v \in Voices
         PROVE  /\ new[v] \in Voice /\ new[v].time = Rank(f.voice[v].time)
                /\ new[v].state = f.voice[v].state /\ new[v].key = f.voice[v].key
    <2>1. PICK t \in Nat : t = Rank(f.voice[v].time)
      BY <1>9
    <2>2. new[v] = [f.voice[v] EXCEPT !.time = t]
      BY <2>1
    <2>3. f.voice[v] \in Voice
      BY <1>1
    <2> HIDE DEF new
    <2> QED BY <2>1, <2>2, <2>3 DEF Voice
  <1>11. new \in [Voices -> Voice]
    BY <1>10
  <1>12. PICK u \in Nat : u = Rank(f.use_time)
    BY <1>9
  <1> HIDE DEF new
  <1>13. g = [f EXCEPT !.use_time = u, !.voice = new]
    BY <1>12
  <1> HIDE DEF g
  <1>14. g \in Synth /\ g.voice = new /\ g.keyon = f.keyon
    BY <1>11, <1>13 DEF Synth
  <1>15. Ranked(g)
    BY <1>9, <1>10, <1>14 DEF Ranked
  <1> QED BY <1>2, <1>10, <1>14, <1>15 DEF Renewed

(* Ages do not matter to the consistency of the table. *)
LEMMA RenewedKeeps ==
  ASSUME NEW f, Well(f), NEW g, Renewed(f, g)
  PROVE  /\ Well(g) /\ Ranked(g) /\ (Keyed(f) => Keyed(g))
         /\ \A v \in Voices : /\ Taken(g, v) <=> Taken(f, v)
                              /\ g.voice[v].key = f.voice[v].key
  <1>1. /\ g \in Synth /\ Ranked(g) /\ g.keyon = f.keyon
        /\ \A v \in Voices : g.voice[v].state = f.voice[v].state /\ g.voice[v].key = f.voice[v].key
    BY DEF Renewed
  <1>2. Bound(g)
    BY <1>1, Pairs DEF Well, Bound
  <1>3. \A v \in Voices : Taken(g, v) <=> Taken(f, v)
    BY <1>1 DEF Taken
  <1>4. Keyed(f) => Keyed(g)
    BY <1>1, <1>3 DEF Keyed
  <1> QED BY <1>1, <1>2, <1>3, <1>4 DEF Well

(***************************************************************************)
(* What an event makes of the synthesizer.                                 *)
(***************************************************************************)
Fine(f, g) == Well(g) /\ Ranked(g) /\ (Keyed(f) => Keyed(g))

(* The notes of ks have ended, and only they. *)
Ended(f, ks, g) ==
  /\ Fine(f, g)
  /\ \A v \in Voices : /\ Taken(g, v) <=> Taken(f, v) /\ f.voice[v].key \notin ks
                       /\ g.voice[v].key = f.voice[v].key
(* snd_opl3_note_off, ages renumbered. *)
LEMMA NotesEnd ==
  ASSUME NEW f, Well(f), NEW ks
  PROVE  Ended(f, ks, Renumbered(snd_opl3_note_off(f, ks)))
  <1>1. PICK h : h = snd_opl3_note_off(f, ks)
    OBVIOUS
  <1>2. NotesOff(f, ks, h)
    BY <1>1, NoteOffEffect
  <1>3. Well(h) /\ h \in Synth
    BY <1>2 DEF NotesOff, Well
  <1>4. PICK g : g = Renumbered(h)
    OBVIOUS
  <1>5. Renewed(h, g)
    BY <1>3, <1>4, RenumberedEffect
  <1>6. /\ Well(g) /\ Ranked(g) /\ (Keyed(h) => Keyed(g))
        /\ \A v \in Voices : /\ Taken(g, v) <=> Taken(h, v)
                             /\ g.voice[v].key = h.voice[v].key
    BY <1>3, <1>5, RenewedKeeps
  <1>7. Ended(f, ks, g)
    BY <1>2, <1>6 DEF Ended, Fine, NotesOff
  <1> QED BY <1>1, <1>4, <1>7

(* A pitch bend. *)
LEMMA Bend ==
  ASSUME NEW f, Well(f), NEW c
  PROVE  Fine(f, Renumbered(snd_opl3_pitch_ctrl(f, c)))
  <1>1. PICK h : h = snd_opl3_pitch_ctrl(f, c)
    OBVIOUS
  <1>2. Bent(f, h)
    BY <1>1, PitchEffect
  <1>3. Well(h) /\ h \in Synth
    BY <1>2 DEF Bent, Well
  <1>4. PICK g : g = Renumbered(h)
    OBVIOUS
  <1>5. Renewed(h, g)
    BY <1>3, <1>4, RenumberedEffect
  <1>6. Well(g) /\ Ranked(g) /\ (Keyed(h) => Keyed(g))
    BY <1>3, <1>5, RenewedKeeps
  <1>7. Fine(f, g)
    BY <1>2, <1>6 DEF Fine, Bent
  <1> QED BY <1>1, <1>4, <1>7

(* A note is struck: its program is nothing, an instrument, or two. *)
LEMMA NoteStarts ==
  ASSUME NEW f, Well(f), NEW k \in Keys, NEW program \in Programs
  PROVE  Fine(f, Renumbered(snd_opl3_note_on(f, k, program)))
  <1>1. program \in {<<>>, <<FALSE>>, <<TRUE>>, <<FALSE, FALSE>>, <<FALSE, TRUE>>}
    BY FmVoicesAssumption
  <1>2. PICK h : h = snd_opl3_note_on(f, k, program)
    OBVIOUS
  <1>3. ASSUME NEW e, Well(e), NEW op4 \in BOOLEAN
        PROVE  Well(PlayNext(e, k, op4)) /\ (Keyed(e) => Keyed(PlayNext(e, k, op4)))
    <2>1. PICK d : d = PlayNext(e, k, op4)
      OBVIOUS
    <2>2. PlayedNext(e, k, op4, d)
      BY <1>3, <2>1, PlayNextEffect
    <2> QED BY <2>1, <2>2 DEF PlayedNext, Keeps
  <1>4. Well(h) /\ (Keyed(f) => Keyed(h))
    <2>1. CASE program = <<>>
      <3>1. h = f
        BY <1>2, <2>1 DEF snd_opl3_note_on
      <3> QED BY <3>1
    <2>2. CASE program \in {<<FALSE>>, <<TRUE>>}
      <3>1. PICK x \in BOOLEAN : program = <<x>>
        BY <2>2, Zenon
      <3>2. program # <<>> /\ Len(program) = 1 /\ program[1] \in BOOLEAN
        <4>1. program # <<>> /\ Len(program) = 1
          BY <3>1
        <4>2. program[1] = x
          BY <3>1
        <4> QED BY <4>1, <4>2
      <3>3. h = PlayNext(f, k, program[1])
        BY <1>2, <3>2 DEF snd_opl3_note_on
      <3> QED BY <1>3, <3>2, <3>3
    <2>3. CASE program \in {<<FALSE, FALSE>>, <<FALSE, TRUE>>}
      <3>1. PICK x \in BOOLEAN, y \in BOOLEAN : program = <<x, y>>
        BY <2>3, Zenon
      <3>2. /\ program # <<>> /\ Len(program) = 2
            /\ program[1] \in BOOLEAN /\ program[2] \in BOOLEAN
        <4>1. program # <<>> /\ Len(program) = 2
          BY <3>1
        <4>2. program[1] = x /\ program[2] = y
          BY <3>1
        <4> QED BY <4>1, <4>2
      <3>3. PICK e : e = PlayNext(f, k, program[1])
        OBVIOUS
      <3>4. h = PlayNext(e, k, program[2])
        BY <1>2, <3>2, <3>3 DEF snd_opl3_note_on
      <3>5. Well(e) /\ (Keyed(f) => Keyed(e))
        BY <1>3, <3>2, <3>3
      <3>6. Well(h) /\ (Keyed(e) => Keyed(h))
        BY <1>3, <3>2, <3>4, <3>5
      <3> QED BY <3>5, <3>6
    <2> QED BY <1>1, <2>1, <2>2, <2>3
  <1>5. h \in Synth
    BY <1>4 DEF Well
  <1>6. PICK g : g = Renumbered(h)
    OBVIOUS
  <1>7. Renewed(h, g)
    BY <1>5, <1>6, RenumberedEffect
  <1>8. Well(g) /\ Ranked(g) /\ (Keyed(h) => Keyed(g))
    BY <1>4, <1>7, RenewedKeeps
  <1> QED BY <1>2, <1>4, <1>6, <1>8 DEF Fine

(***************************************************************************)
(* The channels.                                                           *)
(***************************************************************************)
(* The notes of channel c become nt, and its pedal h. *)
ChanSet(ch, c, nt, h, new) ==
  /\ new \in Chans /\ new[c].note = nt /\ new[c].hold = h
  /\ \A d \in Channels : d # c => new[d] = ch[d]

(* The fields of a channel. *)
LEMMA ChanFields ==
  ASSUME NEW ch \in Chans, NEW c \in Channels
  PROVE  /\ ch[c] \in [note : [Notes -> SUBSET Flags], hold : BOOLEAN]
         /\ ch[c].note \in [Notes -> SUBSET Flags] /\ ch[c].hold \in BOOLEAN
         /\ \A n \in Notes : ch[c].note[n] \subseteq Flags
  <1>1. ch[c] \in [note : [Notes -> SUBSET Flags], hold : BOOLEAN]
    BY DEF Chans
  <1>2. ch[c].note \in [Notes -> SUBSET Flags] /\ ch[c].hold \in BOOLEAN
    BY <1>1
  <1> QED BY <1>1, <1>2

(* An assignment to the notes of a channel. *)
LEMMA NotesSet ==
  ASSUME NEW ch \in Chans, NEW c \in Channels, NEW nt \in [Notes -> SUBSET Flags],
         NEW new, new = [ch EXCEPT ![c].note = nt]
  PROVE  ChanSet(ch, c, nt, ch[c].hold, new)
  <1>1. ch[c] \in [note : [Notes -> SUBSET Flags], hold : BOOLEAN]
    BY ChanFields
  <1>2. PICK x : x = [ch[c] EXCEPT !.note = nt]
    OBVIOUS
  <1>3. /\ x \in [note : [Notes -> SUBSET Flags], hold : BOOLEAN]
        /\ x.note = nt /\ x.hold = ch[c].hold
    BY <1>1, <1>2
  <1>4. new = [ch EXCEPT ![c] = x]
    BY <1>2
  <1>5. new \in Chans /\ new[c] = x /\ \A d \in Channels : d # c => new[d] = ch[d]
    BY <1>3, <1>4 DEF Chans
  <1> QED BY <1>3, <1>5 DEF ChanSet

(* An assignment to the pedal of a channel. *)
LEMMA HoldSet ==
  ASSUME NEW ch \in Chans, NEW c \in Channels, NEW h \in BOOLEAN,
         NEW new, new = [ch EXCEPT ![c].hold = h]
  PROVE  ChanSet(ch, c, ch[c].note, h, new)
  <1>1. ch[c] \in [note : [Notes -> SUBSET Flags], hold : BOOLEAN]
    BY ChanFields
  <1>2. PICK x : x = [ch[c] EXCEPT !.hold = h]
    OBVIOUS
  <1>3. /\ x \in [note : [Notes -> SUBSET Flags], hold : BOOLEAN]
        /\ x.note = ch[c].note /\ x.hold = h
    BY <1>1, <1>2
  <1>4. new = [ch EXCEPT ![c] = x]
    BY <1>2
  <1>5. new \in Chans /\ new[c] = x /\ \A d \in Channels : d # c => new[d] = ch[d]
    BY <1>3, <1>4 DEF Chans
  <1> QED BY <1>3, <1>5 DEF ChanSet

(* Notes that lose all their flags no longer play. *)
Silenced(ch, new, g) ==
  \A c \in Channels, n \in Notes :
    ch[c].note[n] # {} /\ new[c].note[n] = {} => TakenBy(g, <<c, n>>) = {}
(* Flags nt: a note is on while it has any, and those of ns alone lose all. *)
Flagged(ch, c, nt, ns) ==
  /\ \A n \in Notes : nt[n] # {} => "ON" \in nt[n]
  /\ \A n \in Notes : ch[c].note[n] # {} /\ nt[n] = {} => n \in ns
(* Such a step keeps the channels in order when the voices of ns are free. *)
LEMMA ChannelStep ==
  ASSUME NEW ch \in Chans, Sounding(ch), NEW c \in Channels, NEW nt, NEW h, NEW new,
         ChanSet(ch, c, nt, h, new), NEW g, NEW ns, Flagged(ch, c, nt, ns),
         \A n \in ns : TakenBy(g, <<c, n>>) = {}
  PROVE  new \in Chans /\ Sounding(new) /\ Silenced(ch, new, g)
  <1>1. /\ new \in Chans /\ new[c].note = nt
        /\ \A d \in Channels : d # c => new[d] = ch[d]
    BY DEF ChanSet
  <1>2. ASSUME NEW d \in Channels, NEW n \in Notes
        PROVE  /\ new[d].note[n] # {} => "ON" \in new[d].note[n]
               /\ ch[d].note[n] # {} /\ new[d].note[n] = {} => TakenBy(g, <<d, n>>) = {}
    <2>1. CASE d = c
      BY <1>1, <2>1 DEF Flagged
    <2>2. CASE d # c
      BY <1>1, <2>2 DEF Sounding
    <2> QED BY <2>1, <2>2
  <1> QED BY <1>1, <1>2 DEF Sounding, Silenced

(* An ended note has no voice. *)
LEMMA EndedSilent ==
  ASSUME NEW f, NEW ks, NEW g, Ended(f, ks, g), NEW k \in ks
  PROVE  TakenBy(g, k) = {}
  BY DEF Ended, TakenBy

(***************************************************************************)
(* One lemma for each event.                                               *)
(***************************************************************************)
(* What a step has to show. *)
Good == FmInv' /\ Silenced(chan, chan', fm')

(* An event of channel c that ends the notes ns, or leaves the synth alone. *)
LEMMA EndingStep ==
  ASSUME FmInv, used' = used, NEW c \in Channels, NEW nt, NEW h,
         ChanSet(chan, c, nt, h, chan'), NEW ns, Flagged(chan, c, nt, ns),
         \/ fm' = Renumbered(snd_opl3_note_off(fm, {<<c, n>> : n \in ns}))
         \/ fm' = fm /\ ns = {}
  PROVE  Good
  <1>1. /\ chan \in Chans /\ Sounding(chan) /\ used \in BOOLEAN /\ Well(fm) /\ Ranked(fm)
        /\ used => Keyed(fm)
    BY DEF FmInv
  <1>2. Fine(fm, fm') /\ \A n \in ns : TakenBy(fm', <<c, n>>) = {}
    <2>1. CASE fm' = fm /\ ns = {}
      BY <1>1, <2>1 DEF Fine
    <2>2. CASE fm' = Renumbered(snd_opl3_note_off(fm, {<<c, n>> : n \in ns}))
      <3>1. PICK ks : ks = {<<c, n>> : n \in ns}
        OBVIOUS
      <3>2. PICK f, g : f = fm /\ g = fm'
        OBVIOUS
      <3>3. Ended(f, ks, g)
        BY <1>1, <2>2, <3>1, <3>2, NotesEnd
      <3>4. \A k \in ks : TakenBy(g, k) = {}
        BY <3>3, EndedSilent
      <3> QED BY <3>1, <3>2, <3>3, <3>4 DEF Ended
    <2> QED BY <2>1, <2>2
  <1>3. PICK ch, new, g : ch = chan /\ new = chan' /\ g = fm'
    OBVIOUS
  <1>4. new \in Chans /\ Sounding(new) /\ Silenced(ch, new, g)
    BY <1>1, <1>2, <1>3, ChannelStep
  <1>5. FmInv'
    BY <1>1, <1>2, <1>3, <1>4 DEF FmInv, Fine
  <1> QED BY <1>3, <1>4, <1>5 DEF Good

(* Note on: a note that sounds already ends first. *)
LEMMA NoteOnStep ==
  ASSUME FmInv, NEW c \in Channels, NEW n \in Notes, NEW program \in Programs,
         NoteOn(c, n, program)
  PROVE  Good
  <1>1. /\ chan \in Chans /\ Sounding(chan) /\ used \in BOOLEAN /\ Well(fm) /\ Ranked(fm)
        /\ used => Keyed(fm)
    BY DEF FmInv
  <1>2. PICK f : f = IF "ON" \in chan[c].note[n] THEN snd_opl3_note_off(fm, {<<c, n>>}) ELSE fm
    OBVIOUS
  <1>3. Well(f) /\ (Keyed(fm) => Keyed(f))
    <2>1. PICK h : h = snd_opl3_note_off(fm, {<<c, n>>})
      OBVIOUS
    <2>2. NotesOff(fm, {<<c, n>>}, h)
      BY <1>1, <2>1, NoteOffEffect
    <2> QED BY <1>1, <1>2, <2>1, <2>2 DEF NotesOff
  <1>4. PICK k \in Keys : k = <<c, n>>
    BY DEF Keys
  <1>5. fm' = Renumbered(snd_opl3_note_on(f, k, program)) /\ used' = used
    BY <1>2, <1>4 DEF NoteOn
  <1>6. Fine(f, fm')
    BY <1>3, <1>5, NoteStarts
  <1>7. PICK nt \in [Notes -> SUBSET Flags] : nt = [chan[c].note EXCEPT ![n] = {"ON"}]
    <2>1. chan[c].note \in [Notes -> SUBSET Flags]
      BY <1>1, ChanFields
    <2> QED BY <2>1 DEF Flags
  <1>8. PICK ch, new, g : ch = chan /\ new = chan' /\ g = fm'
    OBVIOUS
  <1>9. ChanSet(ch, c, nt, ch[c].hold, new)
    <2>1. new = [ch EXCEPT ![c].note = nt]
      BY <1>7, <1>8 DEF NoteOn
    <2> QED BY <1>1, <1>8, <2>1, NotesSet
  <1>10. /\ \A m \in Notes : nt[m] # {} => "ON" \in nt[m]
         /\ \A m \in Notes : ch[c].note[m] # {} /\ nt[m] = {} => m \in {}
    <2>1. ch[c].note \in [Notes -> SUBSET Flags]
      BY <1>1, <1>8, ChanFields
    <2>2. \A m \in Notes : nt[m] = IF m = n THEN {"ON"} ELSE ch[c].note[m]
      BY <1>7, <1>8, <2>1
    <2> QED BY <1>1, <1>8, <2>2 DEF Sounding
  <1>11. new \in Chans /\ Sounding(new) /\ Silenced(ch, new, g)
    <2>1. PICK ns, h : ns = {} /\ h = ch[c].hold
      OBVIOUS
    <2>2. ChanSet(ch, c, nt, h, new)
      BY <1>9, <2>1
    <2>3. \A m \in ns : TakenBy(g, <<c, m>>) = {}
      BY <2>1
    <2>4. ch \in Chans /\ Sounding(ch)
      BY <1>1, <1>8
    <2>5. Flagged(ch, c, nt, ns)
      BY <1>10, <2>1 DEF Flagged
    <2> QED BY <2>2, <2>5, <2>3, <2>4, ChannelStep
  <1>12. FmInv'
    BY <1>1, <1>3, <1>5, <1>6, <1>8, <1>11 DEF FmInv, Fine
  <1> QED BY <1>8, <1>11, <1>12 DEF Good

(* Note off: the note ends, or a pedal keeps it. *)
LEMMA NoteOffStep ==
  ASSUME FmInv, NEW c \in Channels, NEW n \in Notes, NoteOff(c, n)
  PROVE  Good
  <1>1. chan \in Chans /\ Sounding(chan) /\ used' = used /\ "ON" \in chan[c].note[n]
    BY DEF FmInv, NoteOff
  <1>2. chan[c].note \in [Notes -> SUBSET Flags]
    BY <1>1, ChanFields
  <1>3. PICK x \in SUBSET Flags : x = IF Kept(c, n) THEN chan[c].note[n] \cup {"RELEASED"} ELSE {}
    BY <1>2 DEF Flags
  <1>4. PICK nt \in [Notes -> SUBSET Flags] : nt = [chan[c].note EXCEPT ![n] = x]
    BY <1>2
  <1>5. PICK h : h = chan[c].hold
    OBVIOUS
  <1>6. ChanSet(chan, c, nt, h, chan')
    <2>1. PICK ch, new : ch = chan /\ new = chan'
      OBVIOUS
    <2>2. new = [ch EXCEPT ![c].note = nt]
      BY <1>3, <1>4, <2>1 DEF NoteOff
    <2>3. ChanSet(ch, c, nt, ch[c].hold, new)
      BY <1>1, <2>1, <2>2, NotesSet
    <2> QED BY <1>5, <2>1, <2>3
  <1>7. \A m \in Notes : nt[m] = IF m = n THEN x ELSE chan[c].note[m]
    BY <1>2, <1>4
  <1>8. \A m \in Notes : nt[m] # {} => "ON" \in nt[m]
    BY <1>1, <1>3, <1>7 DEF Sounding
  <1>9. PICK ns : ns = IF Kept(c, n) THEN {} ELSE {n}
    OBVIOUS
  <1>10. \A m \in Notes : chan[c].note[m] # {} /\ nt[m] = {} => m \in ns
    BY <1>3, <1>7, <1>9
  <1>11. \/ fm' = Renumbered(snd_opl3_note_off(fm, {<<c, m>> : m \in ns}))
         \/ fm' = fm /\ ns = {}
    <2>1. CASE Kept(c, n)
      BY <1>9, <2>1 DEF NoteOff
    <2>2. CASE ~Kept(c, n)
      <3>1. {<<c, m>> : m \in ns} = {<<c, n>>}
        BY <1>9, <2>2
      <3> QED BY <2>2, <3>1 DEF NoteOff
    <2> QED BY <2>1, <2>2
  <1>12. Flagged(chan, c, nt, ns)
    BY <1>8, <1>10 DEF Flagged
  <1> QED BY <1>1, <1>6, <1>11, <1>12, EndingStep

(* The sustain pedal: let go, the released notes end. *)
LEMMA SustainStep ==
  ASSUME FmInv, NEW c \in Channels, NEW on \in BOOLEAN, Sustain(c, on)
  PROVE  Good
  <1>1. chan \in Chans /\ Sounding(chan) /\ used' = used
    BY DEF FmInv, Sustain
  <1>2. chan[c].note \in [Notes -> SUBSET Flags]
    BY <1>1, ChanFields
  <1>3. PICK ns \in SUBSET Notes : ns = IF on THEN {} ELSE Released(c)
    BY DEF Released
  <1>4. PICK nt \in [Notes -> SUBSET Flags] :
          nt = [n \in Notes |-> IF n \in ns THEN {} ELSE chan[c].note[n]]
    BY <1>2
  <1>5. \A n \in Notes : nt[n] = IF n \in ns THEN {} ELSE chan[c].note[n]
    BY <1>4
  <1>6. ChanSet(chan, c, nt, on, chan')
    <2>1. PICK ch, new, mid : ch = chan /\ new = chan' /\ mid = [chan EXCEPT ![c].hold = on]
      OBVIOUS
    <2>2. ChanSet(ch, c, ch[c].note, on, mid)
      BY <1>1, <2>1, HoldSet
    <2>3. CASE on
      <3>1. new = mid
        BY <2>1, <2>3 DEF Sustain
      <3>2. nt = ch[c].note
        BY <1>2, <1>3, <1>4, <2>1, <2>3
      <3> QED BY <2>1, <2>2, <3>1, <3>2
    <2>4. CASE ~on
      <3>1. mid \in Chans /\ mid[c].note = ch[c].note
        BY <2>2 DEF ChanSet
      <3>2. new = [ch EXCEPT ![c].hold = FALSE, ![c].note = nt]
        BY <1>3, <1>4, <2>1, <2>4 DEF Sustain
      <3>3. new = [mid EXCEPT ![c].note = nt]
        <4>1. on = FALSE
          BY <2>4
        <4>2. mid = [ch EXCEPT ![c].hold = FALSE]
          BY <2>1, <4>1
        <4> QED BY <1>1, <2>1, <3>2, <4>2 DEF Chans
      <3>4. ChanSet(mid, c, nt, mid[c].hold, new)
        BY <3>1, <3>3, NotesSet
      <3>5. ChanSet(ch, c, nt, on, new)
        BY <2>2, <3>4 DEF ChanSet
      <3> QED BY <2>1, <3>5
    <2> QED BY <2>3, <2>4
  <1>7. \A n \in Notes : nt[n] # {} => "ON" \in nt[n]
    BY <1>1, <1>5 DEF Sounding
  <1>8. \A n \in Notes : chan[c].note[n] # {} /\ nt[n] = {} => n \in ns
    BY <1>5
  <1>9. \/ fm' = Renumbered(snd_opl3_note_off(fm, {<<c, n>> : n \in ns}))
        \/ fm' = fm /\ ns = {}
    BY <1>3 DEF Sustain, EndNotes
  <1>10. Flagged(chan, c, nt, ns)
    BY <1>7, <1>8 DEF Flagged
  <1> QED BY <1>1, <1>6, <1>9, <1>10, EndingStep

(* An event that sets the notes of channel c to nt, and ends the notes ns. *)
LEMMA NotesStep ==
  ASSUME FmInv, used' = used, NEW c \in Channels, NEW nt \in [Notes -> SUBSET Flags],
         chan' = [chan EXCEPT ![c].note = nt], NEW ns, Flagged(chan, c, nt, ns),
         fm' = EndNotes(c, ns) \/ (fm' = fm /\ ns = {})
  PROVE  Good
  <1>1. PICK ch, new, h : ch = chan /\ new = chan' /\ h = chan[c].hold
    OBVIOUS
  <1>2. ch \in Chans /\ new = [ch EXCEPT ![c].note = nt]
    BY <1>1 DEF FmInv
  <1>3. ChanSet(ch, c, nt, ch[c].hold, new)
    BY <1>2, NotesSet
  <1>4. ChanSet(chan, c, nt, h, chan')
    BY <1>1, <1>3
  <1>5. \/ fm' = Renumbered(snd_opl3_note_off(fm, {<<c, n>> : n \in ns}))
        \/ fm' = fm /\ ns = {}
    BY DEF EndNotes
  <1> QED BY <1>4, <1>5, EndingStep

(* The sustenuto pedal is pressed. *)
LEMMA SustenutoOnStep ==
  ASSUME FmInv, NEW c \in Channels, SustenutoOn(c)
  PROVE  Good
  <1>1. chan \in Chans /\ Sounding(chan) /\ used' = used /\ fm' = fm
    BY DEF FmInv, SustenutoOn
  <1>2. chan[c].note \in [Notes -> SUBSET Flags]
    BY <1>1, ChanFields
  <1>3. PICK nt \in [Notes -> SUBSET Flags] :
          nt = [n \in Notes |-> IF "ON" \in chan[c].note[n]
                                THEN chan[c].note[n] \cup {"SUSTENUTO"} ELSE chan[c].note[n]]
    BY <1>2 DEF Flags
  <1>4. PICK ns : ns = {}
    OBVIOUS
  <1>5. Flagged(chan, c, nt, ns)
    BY <1>1, <1>3 DEF Flagged, Sounding
  <1>6. chan' = [chan EXCEPT ![c].note = nt]
    BY <1>3 DEF SustenutoOn
  <1> QED BY <1>1, <1>4, <1>5, <1>6, NotesStep

(* Let go, the released notes it kept end. *)
LEMMA SustenutoOffStep ==
  ASSUME FmInv, NEW c \in Channels, SustenutoOff(c)
  PROVE  Good
  <1>1. chan \in Chans /\ Sounding(chan) /\ used' = used
    BY DEF FmInv, SustenutoOff
  <1>2. chan[c].note \in [Notes -> SUBSET Flags]
    BY <1>1, ChanFields
  <1>3. PICK ns : ns = {n \in Released(c) : "SUSTENUTO" \in chan[c].note[n]}
    OBVIOUS
  <1>4. PICK nt \in [Notes -> SUBSET Flags] :
          nt = [n \in Notes |-> IF n \in ns THEN {} ELSE chan[c].note[n] \ {"SUSTENUTO"}]
    BY <1>2
  <1>5. Flagged(chan, c, nt, ns)
    BY <1>1, <1>4 DEF Flagged, Sounding
  <1>6. chan' = [chan EXCEPT ![c].note = nt]
    BY <1>3, <1>4 DEF SustenutoOff
  <1>7. fm' = EndNotes(c, ns)
    BY <1>3 DEF SustenutoOff
  <1> QED BY <1>1, <1>5, <1>6, <1>7, NotesStep

(* All notes off: they end, or the pedal keeps them. *)
LEMMA AllNotesOffStep ==
  ASSUME FmInv, NEW c \in Channels, all_notes_off(c)
  PROVE  Good
  <1>1. chan \in Chans /\ Sounding(chan) /\ used' = used
    BY DEF FmInv, all_notes_off
  <1>2. chan[c].note \in [Notes -> SUBSET Flags]
    BY <1>1, ChanFields
  <1>3. PICK on : on = {n \in Notes : chan[c].note[n] = {"ON"}}
    OBVIOUS
  <1>4. CASE chan[c].hold
    <2>1. PICK nt \in [Notes -> SUBSET Flags] :
            nt = [n \in Notes |-> IF n \in on THEN {"ON", "RELEASED"} ELSE chan[c].note[n]]
      BY <1>2 DEF Flags
    <2>2. PICK ns : ns = {}
      OBVIOUS
    <2>3. Flagged(chan, c, nt, ns)
      BY <1>1, <2>1 DEF Flagged, Sounding
    <2>4. chan' = [chan EXCEPT ![c].note = nt] /\ fm' = fm
      BY <1>3, <1>4, <2>1 DEF all_notes_off
    <2> QED BY <1>1, <2>2, <2>3, <2>4, NotesStep
  <1>5. CASE ~chan[c].hold
    <2>1. PICK nt \in [Notes -> SUBSET Flags] :
            nt = [n \in Notes |-> IF n \in on THEN {} ELSE chan[c].note[n]]
      BY <1>2
    <2>2. Flagged(chan, c, nt, on)
      BY <1>1, <2>1 DEF Flagged, Sounding
    <2>3. chan' = [chan EXCEPT ![c].note = nt] /\ fm' = EndNotes(c, on)
      BY <1>3, <1>5, <2>1 DEF all_notes_off
    <2> QED BY <1>1, <2>2, <2>3, NotesStep
  <1> QED BY <1>4, <1>5

(* all_sounds_off forgets the notes and lets the voices play. *)
LEMMA AllSoundsOffStep ==
  ASSUME FmInv, NEW c \in Channels, all_sounds_off(c)
  PROVE  FmInv'
  <1>1. /\ chan \in Chans /\ Sounding(chan) /\ used' = used /\ fm' = fm
        /\ used \in BOOLEAN /\ Well(fm) /\ Ranked(fm) /\ (used => Keyed(fm))
    BY DEF FmInv, all_sounds_off
  <1>2. PICK nt \in [Notes -> SUBSET Flags] : nt = [n \in Notes |-> {}]
    OBVIOUS
  <1>3. PICK ch, new : ch = chan /\ new = chan'
    OBVIOUS
  <1>4. ChanSet(ch, c, nt, ch[c].hold, new)
    <2>1. new = [ch EXCEPT ![c].note = nt]
      BY <1>2, <1>3 DEF all_sounds_off
    <2> QED BY <1>1, <1>3, <2>1, NotesSet
  <1>5. new \in Chans /\ Sounding(new)
    <2>1. ASSUME NEW d \in Channels, NEW n \in Notes, new[d].note[n] # {}
          PROVE  "ON" \in new[d].note[n]
      BY <1>1, <1>2, <1>3, <1>4, <2>1 DEF ChanSet, Sounding
    <2> QED BY <1>4, <2>1 DEF ChanSet, Sounding
  <1> QED BY <1>1, <1>3, <1>5 DEF FmInv

(* The controllers are reset: the pedal is up and no note ends. *)
LEMMA ResetStep ==
  ASSUME FmInv, NEW c \in Channels, snd_midi_reset_controllers(c)
  PROVE  Good
  <1>1. chan \in Chans /\ Sounding(chan) /\ used' = used /\ fm' = fm
    BY DEF FmInv, snd_midi_reset_controllers
  <1>2. PICK h \in BOOLEAN : h = FALSE
    OBVIOUS
  <1>3. PICK ch, new, nt, ns : ch = chan /\ new = chan' /\ nt = chan[c].note /\ ns = {}
    OBVIOUS
  <1>4. ChanSet(ch, c, ch[c].note, h, new)
    <2>1. new = [ch EXCEPT ![c].hold = h]
      BY <1>2, <1>3 DEF snd_midi_reset_controllers
    <2> QED BY <1>1, <1>3, <2>1, HoldSet
  <1>5. ChanSet(chan, c, nt, h, chan')
    BY <1>3, <1>4
  <1>6. Flagged(chan, c, nt, ns)
    BY <1>1, <1>3 DEF Flagged, Sounding
  <1> QED BY <1>1, <1>3, <1>5, <1>6, EndingStep

(* A pitch bend. *)
LEMMA PitchBendStep ==
  ASSUME FmInv, NEW c \in Channels, PitchBend(c)
  PROVE  Good
  <1>1. /\ chan \in Chans /\ Sounding(chan) /\ used' = used /\ chan' = chan
        /\ used \in BOOLEAN /\ Well(fm) /\ Ranked(fm) /\ (used => Keyed(fm))
    BY DEF FmInv, PitchBend
  <1>2. fm' = Renumbered(snd_opl3_pitch_ctrl(fm, c))
    BY DEF PitchBend
  <1>3. Fine(fm, fm')
    BY <1>1, <1>2, Bend
  <1>4. FmInv'
    BY <1>1, <1>3 DEF FmInv, Fine
  <1> QED BY <1>1, <1>4 DEF Good, Silenced

(* The first client finds a silent synthesizer whose voices remember their  *)
(* keys.                                                                    *)
LEMMA UseStep ==
  ASSUME FmInv, snd_opl3_synth_use
  PROVE  Good
  <1>1. /\ chan \in Chans /\ Sounding(chan) /\ used' = TRUE /\ chan' = chan /\ fm \in Synth
    BY DEF FmInv, Well, snd_opl3_synth_use
  <1>2. \A v \in Voices : fm.voice[v].key \in Keys
    BY <1>1, Fields
  <1>3. PICK new \in [Voices -> Voice] :
          new = [v \in Voices |-> [state |-> "OFF", time |-> 0, key |-> fm.voice[v].key]]
    BY <1>2 DEF Voice, States
  <1>4. fm' = [voice |-> new, use_time |-> 0, keyon |-> {}, connection |-> {}]
    <2>1. [v \in Voices |-> [Silent.voice[v] EXCEPT !.key = fm.voice[v].key]] = new
      BY <1>3 DEF Silent
    <2>2. fm' = [Silent EXCEPT !.voice = new]
      BY <2>1 DEF snd_opl3_synth_use
    <2> QED BY <2>2 DEF Silent
  <1>5. fm' \in Synth
    BY <1>4 DEF Synth
  <1>6. \A v \in Voices : fm'.voice[v].state = "OFF" /\ fm'.voice[v].time = 0
    BY <1>3, <1>4
  <1>7. Bound(fm')
    BY <1>6, Pairs DEF Bound
  <1>8. Keyed(fm')
    BY <1>4, <1>6 DEF Keyed, Taken, On
  <1>9. Ranked(fm')
    BY <1>6, FewVoices DEF Ranked
  <1>10. FmInv'
    BY <1>1, <1>5, <1>7, <1>8, <1>9 DEF FmInv, Well
  <1> QED BY <1>1, <1>10 DEF Good, Silenced

(* The last client leaves a chip without keys down. *)
LEMMA UnuseStep ==
  ASSUME FmInv, snd_opl3_synth_unuse
  PROVE  Good
  <1>1. /\ chan \in Chans /\ Sounding(chan) /\ used' = FALSE /\ chan' = chan
        /\ Well(fm) /\ Ranked(fm) /\ fm' = [fm EXCEPT !.keyon = {}]
    BY DEF FmInv, snd_opl3_synth_unuse
  <1>2. fm' \in Synth /\ fm'.voice = fm.voice
    BY <1>1 DEF Well, Synth
  <1>3. Bound(fm') /\ Ranked(fm')
    BY <1>1, <1>2 DEF Well, Bound, Ranked
  <1>4. FmInv'
    BY <1>1, <1>2, <1>3 DEF FmInv, Well
  <1> QED BY <1>1, <1>4 DEF Good, Silenced

(***************************************************************************)
(* The theorems about the FM synthesizer.                                  *)
(***************************************************************************)
(* A synthesizer that was never used satisfies the invariant. *)
LEMMA FmInvStarts == FmInit => FmInv
  <1> SUFFICES ASSUME FmInit PROVE FmInv
    OBVIOUS
  <1>1. /\ chan = [c \in Channels |-> [note |-> [n \in Notes |-> {}], hold |-> FALSE]]
        /\ fm = Silent /\ used = FALSE
    BY DEF FmInit
  <1>2. chan \in Chans /\ Sounding(chan)
    BY <1>1 DEF Chans, Sounding
  <1>3. PICK x \in Voice : x = [state |-> "OFF", time |-> 0, key |-> NoKey]
    BY DEF Voice, States, Keys
  <1>4. PICK vs \in [Voices -> Voice] : vs = [v \in Voices |-> x]
    OBVIOUS
  <1>5. fm = [voice |-> vs, use_time |-> 0, keyon |-> {}, connection |-> {}]
    BY <1>1, <1>3, <1>4 DEF Silent
  <1>6. fm \in Synth
    BY <1>5 DEF Synth
  <1>7. \A v \in Voices : fm.voice[v].state = "OFF" /\ fm.voice[v].time = 0
    BY <1>3, <1>4, <1>5
  <1>8. Bound(fm)
    BY <1>7, Pairs DEF Bound
  <1>9. Ranked(fm)
    BY <1>7, FewVoices DEF Ranked
  <1> QED BY <1>1, <1>2, <1>6, <1>8, <1>9 DEF FmInv, Well

(* Every step keeps the invariant and, all sounds off apart, the silence. *)
LEMMA FmStep ==
  ASSUME FmInv, FmNext
  PROVE  FmInv' /\ (Silenced(chan, chan', fm') \/ \E c \in Channels : all_sounds_off(c))
  <1>1. CASE snd_opl3_synth_use
    BY <1>1, UseStep DEF Good
  <1>2. CASE snd_opl3_synth_unuse
    BY <1>2, UnuseStep DEF Good
  <1>3. ASSUME NEW c \in Channels,
               \/ \E n \in Notes : NoteOff(c, n) \/ \E p \in Programs : NoteOn(c, n, p)
               \/ \E on \in BOOLEAN : Sustain(c, on)
               \/ SustenutoOn(c) \/ SustenutoOff(c)
               \/ all_notes_off(c) \/ all_sounds_off(c)
               \/ snd_midi_reset_controllers(c) \/ PitchBend(c)
        PROVE  FmInv' /\ (Silenced(chan, chan', fm') \/ \E d \in Channels : all_sounds_off(d))
    <2>1. ASSUME NEW n \in Notes, NoteOff(c, n) PROVE Good
      BY <2>1, NoteOffStep
    <2>2. ASSUME NEW n \in Notes, NEW p \in Programs, NoteOn(c, n, p) PROVE Good
      BY <2>2, NoteOnStep
    <2>3. ASSUME NEW on \in BOOLEAN, Sustain(c, on) PROVE Good
      BY <2>3, SustainStep
    <2>4. CASE SustenutoOn(c)
      BY <2>4, SustenutoOnStep DEF Good
    <2>5. CASE SustenutoOff(c)
      BY <2>5, SustenutoOffStep DEF Good
    <2>6. CASE all_notes_off(c)
      BY <2>6, AllNotesOffStep DEF Good
    <2>7. CASE all_sounds_off(c)
      BY <2>7, AllSoundsOffStep
    <2>8. CASE snd_midi_reset_controllers(c)
      BY <2>8, ResetStep DEF Good
    <2>9. CASE PitchBend(c)
      BY <2>9, PitchBendStep DEF Good
    <2> QED BY <1>3, <2>1, <2>2, <2>3, <2>4, <2>5, <2>6, <2>7, <2>8, <2>9 DEF Good
  <1> QED BY <1>1, <1>2, <1>3 DEF FmNext

(* The invariant is inductive. *)
LEMMA FmInvStays == FmInv /\ [FmNext]_fmvars => FmInv'
  <1>1. CASE UNCHANGED fmvars
    BY <1>1 DEF fmvars, FmInv
  <1> QED BY <1>1, FmStep

(* At all times the table of voices is consistent: the second voice of a    *)
(* pair is withheld exactly while the first plays a four-operator note      *)
(* (however the note before it ended), opl3_get_voice finds a voice for     *)
(* every note, and while the synth is used an allocated voice is keyed.     *)
THEOREM VoicesStayConsistent == FmSpec => []VoicesConsistent
  <1>1. FmInv => VoicesConsistent
    <2> SUFFICES ASSUME FmInv PROVE VoicesConsistent
      OBVIOUS
    <2>1. /\ chan \in Chans /\ used \in BOOLEAN /\ Well(fm) /\ Ranked(fm)
          /\ fm \in Synth /\ Bound(fm)
      BY DEF FmInv, Well
    <2>2. FmTypeOK
      <3>1. /\ fm.keyon \subseteq Voices /\ fm.connection \subseteq First
            /\ \A v \in Voices : fm.voice[v].state \in States /\ fm.voice[v].key \in Keys
        BY <2>1, Fields
      <3>2. \A v \in Voices : fm.voice[v].time \in 0 .. Cardinality(Voices)
        BY <2>1 DEF Ranked
      <3> QED BY <2>1, <3>1, <3>2 DEF FmTypeOK, Chans, Keys
    <2>3. PairsBound
      BY <2>1 DEF PairsBound, Bound
    <2>4. VoiceForEveryNote
      BY <2>1, VoiceFound DEF VoiceForEveryNote
    <2>5. AllocatedIsKeyed
      BY DEF FmInv, Keyed, AllocatedIsKeyed
    <2> QED BY <2>2, <2>3, <2>4, <2>5 DEF VoicesConsistent
  <1> QED BY <1>1, FmInvStarts, FmInvStays, PTL DEF FmSpec

(* When a note ends, by note off, a pedal or all notes off, no voice goes   *)
(* on playing it; all sounds off, whose note_terminate does nothing, is the *)
(* one exception.                                                           *)
THEOREM EndedNotesAreSilent == FmSpec => NoteEndsSilent
  <1>1. ASSUME FmInv, [FmNext]_fmvars
        PROVE  [\/ \E c \in Channels : all_sounds_off(c)
                \/ \A c \in Channels, n \in Notes :
                     chan[c].note[n] # {} /\ chan'[c].note[n] = {} =>
                     TakenBy(fm', <<c, n>>) = {}]_fmvars
    BY <1>1, FmStep DEF Silenced
  <1> QED BY <1>1, FmInvStarts, FmInvStays, PTL DEF FmSpec, NoteEndsSilent

(* A struck note.  While a voice plays nothing those that play go on. *)
LEMMA NoteOnSpares ==
  ASSUME FmInv, NEW c \in Channels, NEW n \in Notes, NEW op4 \in BOOLEAN,
         NoteOn(c, n, <<op4>>), Spare(fm, op4), NEW v \in Voices,
         Taken(fm, v), fm.voice[v].key # <<c, n>>
  PROVE  Taken(fm', v) /\ fm'.voice[v].key = fm.voice[v].key
  <1>1. Well(fm)
    BY DEF FmInv
  <1>2. PICK f : f = IF "ON" \in chan[c].note[n] THEN snd_opl3_note_off(fm, {<<c, n>>}) ELSE fm
    OBVIOUS
  <1>3. Well(f) /\ Spare(f, op4) /\ Taken(f, v) /\ f.voice[v].key = fm.voice[v].key
    <2>1. CASE f = fm
      BY <1>1, <2>1
    <2>2. CASE f = snd_opl3_note_off(fm, {<<c, n>>})
      <3>1. NotesOff(fm, {<<c, n>>}, f)
        BY <1>1, <2>2, NoteOffEffect
      <3>2. Well(f) /\ \A w \in Voices :
              /\ Taken(f, w) <=> Taken(fm, w) /\ fm.voice[w].key \notin {<<c, n>>}
              /\ f.voice[w].key = fm.voice[w].key
              /\ fm.voice[w].state = "OFF" => f.voice[w].state = "OFF"
        BY <3>1 DEF NotesOff
      <3>3. Spare(f, op4)
        <4>1. PICK u \in Voices : IF op4 THEN u \in First /\ ~Taken(fm, u) /\ ~Taken(fm, u + 3)
                                  ELSE fm.voice[u].state = "OFF"
          BY DEF Spare
        <4>2. u \in First => u + 3 \in Voices
          BY Pairs
        <4>3. IF op4 THEN u \in First /\ ~Taken(f, u) /\ ~Taken(f, u + 3)
              ELSE f.voice[u].state = "OFF"
          BY <3>2, <4>1, <4>2
        <4> QED BY <4>3 DEF Spare
      <3> QED BY <3>2, <3>3
    <2> QED BY <1>2, <2>1, <2>2
  <1>4. PICK k \in Keys : k = <<c, n>>
    BY DEF Keys
  <1>5. PICK h : h = PlayNext(f, k, op4)
    OBVIOUS
  <1>6. PICK g : g = fm'
    OBVIOUS
  <1>7. g = Renumbered(h)
    <2>1. PICK program : program = <<op4>>
      OBVIOUS
    <2>2. program # <<>> /\ Len(program) = 1
      BY <2>1
    <2>3. program[1] = op4
      BY <2>1
    <2>4. snd_opl3_note_on(f, k, program) = h
      BY <1>5, <2>2, <2>3 DEF snd_opl3_note_on
    <2> QED BY <1>2, <1>4, <1>6, <2>1, <2>4 DEF NoteOn
  <1>8. PlayedNext(f, k, op4, h)
    BY <1>3, <1>5, PlayNextEffect
  <1>9. PICK w \in opl3_get_voice(f, op4) : Keeps(f, w, op4, h)
    BY <1>8 DEF PlayedNext
  <1>10. ~Taken(f, w) /\ (op4 => ~Taken(f, w + 3))
    BY <1>3, SpareFirst
  <1>11. v # w /\ ~(op4 /\ v = w + 3)
    BY <1>3, <1>10
  <1>12. Well(h) /\ Taken(h, v) /\ h.voice[v].key = f.voice[v].key
    BY <1>3, <1>9, <1>11 DEF Keeps
  <1>13. h \in Synth
    BY <1>12 DEF Well
  <1>14. Renewed(h, g)
    BY <1>7, <1>13, RenumberedEffect
  <1>15. (Taken(g, v) <=> Taken(h, v)) /\ g.voice[v].key = h.voice[v].key
    BY <1>12, <1>14, RenewedKeeps
  <1> QED BY <1>3, <1>6, <1>12, <1>15

(* opl3_get_voice cuts a note off only when it has to: while a voice (for   *)
(* four operators, a pair) plays nothing, every other note that plays goes  *)
(* on playing on its voice.                                                 *)
THEOREM NoNoteStolenNeedlessly == FmSpec => NoNeedlessSteal
  <1>1. ASSUME FmInv
        PROVE  \A c \in Channels, n \in Notes, op4 \in BOOLEAN :
                 /\ NoteOn(c, n, <<op4>>)
                 /\ \E v \in Voices : IF op4 THEN v \in First /\ ~Taken(fm, v) /\ ~Taken(fm, v + 3)
                                      ELSE fm.voice[v].state = "OFF"
                 => \A v \in Voices : Taken(fm, v) /\ fm.voice[v].key # <<c, n>> =>
                      Taken(fm', v) /\ fm'.voice[v].key = fm.voice[v].key
    <2> SUFFICES ASSUME NEW c \in Channels, NEW n \in Notes, NEW op4 \in BOOLEAN,
                        NoteOn(c, n, <<op4>>), Spare(fm, op4), NEW v \in Voices,
                        Taken(fm, v), fm.voice[v].key # <<c, n>>
                 PROVE  Taken(fm', v) /\ fm'.voice[v].key = fm.voice[v].key
      BY DEF Spare
    <2> QED BY <1>1, NoteOnSpares
  <1> QED BY <1>1, FmInvStarts, FmInvStays, PTL DEF FmSpec, NoNeedlessSteal
=============================================================================
