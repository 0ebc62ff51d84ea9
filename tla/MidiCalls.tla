----------------------------- MODULE MidiCalls -----------------------------
(***************************************************************************)
(* The MIDI calls of lib32/soundmidi.c over the client, port and           *)
(* subscription tables of the ALSA sequencer and the FM synthesizers       *)
(* behind it (alsa/drivers/opl3/opl3_seq.c).                               *)
(*                                                                         *)
(* A call runs to its end before the next one starts and interrupts do not *)
(* touch these tables, so a call is one step.  It is built from operators  *)
(* on the sequencer's state, one per function of the source.               *)
(***************************************************************************)
EXTENDS Naturals, FiniteSets, FiniteSetsExt

CONSTANTS Cards,     \* card numbers
          Synths,    \* cards with an OPL3
          Mpus,      \* cards with an MPU-401
          MaxUsers,  \* user clients: 128 .. SNDRV_SEQ_MAX_CLIENTS - 1
          Notes
ASSUME MidiCallsAssumption ==
  /\ Cards \subseteq 0 .. 7      \* SNDRV_CARDS
  /\ Synths \subseteq Cards /\ Mpus \subseteq Cards
  /\ MaxUsers \in Nat

(* Client numbers: the synth of a card is its second kernel client. *)
Users == 128 .. 128 + MaxUsers - 1
SynthClient(card) == 64 + 8 * card + 1
SynthClients == {SynthClient(c) : c \in Synths}
Numbers == Users \cup SynthClients

VARIABLES seq,      \* the sequencer and the synths
          handles,  \* open streams
          raw,      \* directions of raw MIDI ports that are open
          halted    \* OSS32_Shutdown has run
vars == <<seq, handles, raw, halted>>

(* Which allocation of a call finds no memory. *)
Failures == {"none", "handle", "client", "port", "export", "import", "patch"}
NoHandle == [type |-> "none"]

Init ==
  /\ seq = [clients |-> SynthClients,      \* clienttab
            ports |-> SynthClients,        \* clients that have their port 0
            export |-> {}, import |-> {},  \* <<sender, receiver>>
            subscribe_count |-> [u \in Users |-> 0],
            use_count |-> [k \in SynthClients |-> 0],
            used |-> [k \in SynthClients |-> 0],
            sent |-> {},                   \* synths the instruments were sent to
            missing |-> FALSE,             \* ... but not all of them
            fInstumentsLoaded |-> FALSE,
            sounding |-> [k \in SynthClients |-> {}],
            flag |-> TRUE,                 \* interrupts are enabled
            ports_lock |-> [c \in Numbers |-> TRUE]]
  /\ handles = {} /\ raw = {} /\ halted = FALSE

(***************************************************************************)
(* lib32/spinlock.c: a lock is a place for the flags it restores.          *)
(***************************************************************************)
Entered(q) == [q EXCEPT !.flag = TRUE]
spin_lock(q, c) == [q EXCEPT !.ports_lock[c] = q.flag, !.flag = FALSE]
spin_unlock(q, c) == [q EXCEPT !.flag = q.ports_lock[c]]

snd_opl3_synth_setup(q, k) == [q EXCEPT !.used[k] = @ + 1, !.sounding[k] = {}]
(***************************************************************************)
(* opl3_seq.c: a synth is set up for its first user and reset after its    *)
(* last.                                                                   *)
(***************************************************************************)
snd_opl3_synth_cleanup(q, k) == [q EXCEPT !.used[k] = @ - 1, !.sounding[k] = {}]

(***************************************************************************)
(* seq_ports.c: counting users; the callbacks are for the first and last.  *)
(***************************************************************************)
snd_seq_port_subscribe(q, u) == [q EXCEPT !.subscribe_count[u] = @ + 1]
snd_seq_port_unsubscribe(q, u) ==
  IF q.subscribe_count[u] > 0 THEN [q EXCEPT !.subscribe_count[u] = @ - 1] ELSE q

Busy(q, k) == q.use_count[k] = 0 /\ q.used[k] > 0

snd_seq_port_use(q, k) ==
  LET r == [q EXCEPT !.use_count[k] = @ + 1]
  IN  IF r.use_count[k] = 1 THEN snd_opl3_synth_setup(r, k) ELSE r

(* Mutant: any user that leaves resets the synth. *)
UnuseAlwaysCleansUp(q, k) ==
  IF q.use_count[k] = 0 THEN q
  ELSE [q EXCEPT !.use_count[k] = @ - 1, !.sounding[k] = {},
                 !.used[k] = IF q.use_count[k] = 1 THEN @ - 1 ELSE @]

snd_seq_port_unuse(q, k) ==
  LET r == [q EXCEPT !.use_count[k] = @ - 1]
  IN  IF q.use_count[k] = 0 THEN q
      ELSE IF r.use_count[k] = 0 THEN snd_opl3_synth_cleanup(r, k) ELSE r

(* Both sides of one connection are removed and told. *)
Disconnect(q, u, k) ==
  snd_seq_port_unuse(snd_seq_port_unsubscribe(
    [q EXCEPT !.export = @ \ {<<u, k>>}, !.import = @ \ {<<u, k>>}], u), k)

(* clear_subscribers of every port of the clients cs that go away: each of   *)
(* their connections is disconnected.  A count that has reached zero stays   *)
(* there, and the last user of a synth that leaves resets it.                *)
clear_subscribers(q, cs) ==
  LET gone == {e \in q.export \cup q.import : {e[1], e[2]} \cap cs # {}}
      From(u) == Cardinality({e \in gone : e[1] = u})
      To(k) == Cardinality({e \in gone : e[2] = k})
      Less(n, m) == IF n > m THEN n - m ELSE 0
      reset == {k \in SynthClients : 0 < q.use_count[k] /\ q.use_count[k] <= To(k)}
  IN  [q EXCEPT
         !.export = @ \ gone, !.import = @ \ gone,
         !.subscribe_count = [u \in Users |-> Less(@[u], From(u))],
         !.use_count = [k \in SynthClients |-> Less(@[k], To(k))],
         !.used = [k \in SynthClients |-> IF k \in reset THEN @[k] - 1 ELSE @[k]],
         !.sounding = [k \in SynthClients |-> IF k \in reset THEN {} ELSE @[k]]]

snd_seq_delete_port(q, cs) == clear_subscribers([q EXCEPT !.ports = @ \ cs], cs)

seq_free_client(q, cs) == [snd_seq_delete_port(q, cs) EXCEPT !.clients = @ \ cs]

(***************************************************************************)
(* seq_clientmgr.c: connecting a user's port to a synth's.                 *)
(***************************************************************************)
Failed(q) == [seq |-> q, ok |-> FALSE]
Done(q) == [seq |-> q, ok |-> TRUE]

(* Mutant: the user count is not taken back when the last step fails. *)
ConnectKeepsUse(q, u, k, failure) ==
  LET r == snd_seq_port_subscribe(q, u)
      s == snd_seq_port_use(r, k)
  IN  IF <<u, k>> \in q.export \cup q.import THEN Failed(q)
      ELSE IF Busy(r, k) THEN Failed(snd_seq_port_unsubscribe(r, u))
      ELSE IF failure \in {"export", "import"}
           THEN Failed(snd_seq_port_unsubscribe(s, u))
           ELSE Done([s EXCEPT !.export = @ \cup {<<u, k>>},
                               !.import = @ \cup {<<u, k>>}])

connect_ports(q, u, k, failure) ==
  LET r == snd_seq_port_subscribe(q, u)
      s == snd_seq_port_use(r, k)
      t == [s EXCEPT !.export = @ \cup {<<u, k>>}]
  IN  IF <<u, k>> \in q.export \cup q.import THEN Failed(q)
      ELSE IF Busy(r, k) THEN Failed(snd_seq_port_unsubscribe(r, u))
      ELSE IF failure = "export"
           THEN Failed(snd_seq_port_unuse(snd_seq_port_unsubscribe(s, u), k))
      ELSE IF failure = "import" THEN Failed(Disconnect(t, u, k))
      ELSE Done([t EXCEPT !.import = @ \cup {<<u, k>>}])

(* The locks are taken sender first, and released sender first as well. *)
snd_seq_ioctl_subscribe_port(q, u, k, failure) ==
  LET r == connect_ports(spin_lock(spin_lock(q, u), k), u, k, failure)
  IN  [r EXCEPT !.seq = spin_unlock(spin_unlock(@, u), k)]

(* A synth that is gone makes it fail before anything is locked. *)
snd_seq_ioctl_unsubscribe_port(q, u, k) ==
  IF k \notin q.clients THEN q
  ELSE LET l == spin_lock(spin_lock(q, u), k)
           r == [l EXCEPT !.export = @ \ {<<u, k>>}, !.import = @ \ {<<u, k>>}]
           s == IF <<u, k>> \in l.export THEN snd_seq_port_unsubscribe(r, u) ELSE r
           t == IF <<u, k>> \in l.import THEN snd_seq_port_unuse(s, k) ELSE s
       IN  spin_unlock(spin_unlock(t, u), k)

(***************************************************************************)
(* soundmidi.c and fminstrload.c.                                          *)
(***************************************************************************)
(* Mutant: the search looks at the clients of the card itself. *)
FindOwn(q, card) == {k \in SynthClients \cap q.clients : k = SynthClient(card)}

(* for (i = 64; i < 64 + ((deviceid + 1) << 3); i++) *)
FindFm(q, card) == {k \in SynthClients \cap q.clients : k < 64 + 8 * (card + 1)}

(* Instruments are sent once, to the synth of the first open.  When the     *)
(* heap has no room for a patch, it and the patches after it are left out,  *)
(* the open succeeds all the same and nobody tries again.                   *)
OSS32_FMMidiLoadInstruments(q, k, failure) ==
  IF q.fInstumentsLoaded THEN q
  ELSE [q EXCEPT !.fInstumentsLoaded = TRUE, !.sent = @ \cup {k},
                 !.missing = (failure = "patch")]

(* The client of an open that fails after it was created stays behind: the *)
(* error paths free the handle and do not release the file.                *)
OpenFm(q, card, failure) ==
  LET free == Users \ q.clients
      u == Min(free)
      opened == [q EXCEPT !.clients = @ \cup {u}]
      k == Min(FindFm(opened, card))
      r == snd_seq_ioctl_subscribe_port([opened EXCEPT !.ports = @ \cup {u}], u, k, failure)
  IN  IF failure \in {"handle", "client"} \/ free = {}
      THEN [seq |-> q, handle |-> NoHandle]
      ELSE IF FindFm(opened, card) = {} \/ failure = "port"
      THEN [seq |-> opened, handle |-> NoHandle]
      ELSE IF ~r.ok
      THEN [seq |-> r.seq, handle |-> NoHandle]
      ELSE [seq |-> OSS32_FMMidiLoadInstruments(r.seq, k, failure),
            handle |-> [type |-> "fm", client |-> u, dest |-> k]]

CloseFm(q, h) ==
  seq_free_client(
    snd_seq_delete_port(
      snd_seq_ioctl_unsubscribe_port(q, h.client, h.dest), {h.client}), {h.client})

MidiOpenFm(card, failure) ==
  LET r == OpenFm(Entered(seq), card, failure)
  IN  /\ ~halted
      /\ seq' = r.seq
      /\ handles' = IF r.handle = NoHandle THEN handles ELSE handles \cup {r.handle}
      /\ UNCHANGED <<raw, halted>>

(* A raw MIDI port that is open in this direction answers -EAGAIN. *)
MidiOpenMpu(card, direction) ==
  /\ ~halted /\ card \in Mpus /\ <<card, direction>> \notin raw
  /\ raw' = raw \cup {<<card, direction>>}
  /\ handles' = handles \cup {[type |-> "mpu", port |-> <<card, direction>>]}
  /\ seq' = Entered(seq)
  /\ UNCHANGED halted

OSS32_MidiClose(h) ==
  /\ handles' = handles \ {h}
  /\ \/ h.type = "fm" /\ seq' = CloseFm(Entered(seq), h) /\ UNCHANGED raw
     \/ h.type = "mpu" /\ raw' = raw \ {h.port} /\ seq' = Entered(seq)
  /\ UNCHANGED halted

(* The event goes straight to the synth, if it is still there.  A note      *)
(* whose instrument the synth does not have is not played.                  *)
OSS32_MidiCommand(h, cmd, note) ==
  LET k == h.dest
      l == spin_lock(Entered(seq), k)
      on == seq.sounding[k]
      Played == CASE cmd = "noteoff" -> {on \ {note}}
                  [] cmd = "noteon" /\ k \notin seq.sent -> {on}
                  [] cmd = "noteon" /\ k \in seq.sent ->
                       {on \cup {note}} \cup (IF seq.missing THEN {on} ELSE {})
  IN  /\ \E played \in Played :
           seq' = IF k \in seq.clients
                  THEN spin_unlock([l EXCEPT !.sounding[k] = played], k)
                  ELSE Entered(seq)
      /\ UNCHANGED <<handles, raw, halted>>

(* OSS32_QueryDevCaps opens and closes every kind of MIDI stream. *)
QueryMidiCaps(card, failure) ==
  LET r == OpenFm(Entered(seq), card, failure)
  IN  /\ ~halted
      /\ seq' = IF r.handle = NoHandle THEN r.seq ELSE CloseFm(r.seq, r.handle)
      /\ UNCHANGED <<handles, raw, halted>>

(* The cards are freed one after the other, their synths with them. *)
OSS32_Shutdown ==
  /\ ~halted /\ halted' = TRUE
  /\ seq' = seq_free_client(Entered(seq), SynthClients)
  /\ UNCHANGED <<handles, raw>>

NoteCommand == \E h \in {g \in handles : g.type = "fm"}, cmd \in {"noteon", "noteoff"},
                  n \in Notes : OSS32_MidiCommand(h, cmd, n)

Next ==
  \/ \E c \in Cards, f \in Failures : MidiOpenFm(c, f) \/ QueryMidiCaps(c, f)
  \/ \E c \in Cards, d \in {"in", "out"} : MidiOpenMpu(c, d)
  \/ \E h \in handles : OSS32_MidiClose(h)
  \/ NoteCommand
  \/ OSS32_Shutdown

Spec == Init /\ [][Next]_vars

(***************************************************************************)
(* Properties.                                                             *)
(***************************************************************************)
UsersOf(k) == {h \in handles : h.type = "fm" /\ h.dest = k}

(* Every variable has its type; a synth has one exclusive user, the port.   *)
TypeOK ==
  /\ seq.clients \subseteq Numbers /\ seq.ports \subseteq Numbers
  /\ seq.export \cup seq.import \subseteq Users \X SynthClients
  /\ seq.subscribe_count \in [Users -> 0 .. 1]
  /\ seq.use_count \in [SynthClients -> 0 .. MaxUsers]
  /\ seq.used \in [SynthClients -> 0 .. 1]
  /\ seq.sent \subseteq SynthClients
  /\ seq.missing \in BOOLEAN /\ seq.fInstumentsLoaded \in BOOLEAN
  /\ seq.sounding \in [SynthClients -> SUBSET Notes]
  /\ seq.flag \in BOOLEAN /\ seq.ports_lock \in [Numbers -> BOOLEAN]
  /\ \A h \in handles : \/ h.type = "fm" /\ h.client \in Users /\ h.dest \in SynthClients
                        \/ h.type = "mpu" /\ h.port \in raw
  /\ raw \subseteq Mpus \X {"in", "out"} /\ halted \in BOOLEAN

(* A synth counts exactly the open FM streams that play on it, and is taken *)
(* exactly while there are some: an open that failed at any step, a probe   *)
(* and a shutdown leave nothing behind that would keep it busy.             *)
SynthHeldByHandles ==
  \A k \in SynthClients \cap seq.clients :
    /\ seq.use_count[k] = Cardinality(UsersOf(k))
    /\ seq.used[k] = IF UsersOf(k) = {} THEN 0 ELSE 1

(* The two sides of every connection know of each other and both exist:     *)
(* clear_subscribers always finds the remote client and port it is going to *)
(* unlock.                                                                  *)
ConnectionsMutual ==
  /\ seq.export = seq.import
  /\ \A e \in seq.export : {e[1], e[2]} \subseteq seq.clients \cap seq.ports

(* A synth that nobody uses is silent: whichever stream closes last, and    *)
(* whatever notes it left on, the synth is reset.                           *)
SilentWhenUnused == \A k \in SynthClients : seq.use_count[k] = 0 => seq.sounding[k] = {}

(* Whatever was opened, closed or failed half way: the synths are held by   *)
(* exactly the open streams, through connections both ends know of, and are *)
(* silent otherwise.                                                        *)
SequencerConsistent ==
  TypeOK /\ SynthHeldByHandles /\ ConnectionsMutual /\ SilentWhenUnused

(* Every open FM stream plays on the synth the instruments were sent to,    *)
(* although they are sent once and to one synth, that of whichever card was *)
(* opened or probed first.  How many of them arrived is another matter, see *)
(* EveryInstrumentThere.                                                    *)
PlaysLoadedSynth ==
  \A h \in handles : h.type = "fm" /\ h.dest \in seq.clients => h.dest \in seq.sent

(* fInstumentsLoaded says what its name says: the instruments are there.    *)
(* It is set before the first patch is sent and stays set when one could    *)
(* not be allocated, so that this does not hold.                            *)
EveryInstrumentThere == seq.fInstumentsLoaded => ~seq.missing

(* Opening, probing or closing one stream never cuts off the notes of       *)
(* another stream on the same synth.                                        *)
OthersUndisturbed ==
  [][\/ NoteCommand \/ OSS32_Shutdown
     \/ \A h \in handles \cap handles' :
          h.type = "fm" => seq.sounding[h.dest] \subseteq seq'.sounding[h.dest]]_vars

(* A call that is done has left interrupts enabled, as it found them: a     *)
(* read lock that is released is as if it had never been taken.             *)
InterruptsRestored == seq.flag
=============================================================================
