------------------------------ MODULE FmVoices ------------------------------
(***************************************************************************)
(* One FM synthesizer: the note and pedal state of its MIDI channels       *)
(* (alsa/core/seq/seq_midi_emul.c), the allocation of its voices           *)
(* (alsa/drivers/opl3/opl3_midi.c) and the two registers of the chip that  *)
(* say what can be heard.                                                  *)
(*                                                                         *)
(* A four-operator instrument plays on a voice and the one three above it; *)
(* the connection register joins the two.  The timer that should end notes *)
(* of fixed length never runs (add_timer of lib32/timer.c is empty).       *)
(***************************************************************************)
EXTENDS Naturals, Integers, FiniteSets, Sequences

CONSTANTS Voices,    \* of the 18 voices of an OPL3, those that are modelled
          Channels, Notes,
          Programs   \* what a program plays: nothing when no instrument is found,
                     \* otherwise a two- or (TRUE) four-operator one and an extra one
ASSUME FmVoicesAssumption ==
  /\ Voices \subseteq 0 .. 17 /\ Notes \subseteq 0 .. 127 /\ Channels \subseteq 0 .. 15
  /\ Programs \subseteq {<<>>, <<FALSE>>, <<TRUE>>, <<FALSE, FALSE>>, <<FALSE, TRUE>>}

(* chan_4op_1 and chan_4op_2: the voices that can be joined. *)
First == {v \in Voices : v < 3 \/ (v > 8 /\ v < 12)}
Second == {v \in Voices : (v > 2 /\ v < 6) \/ (v > 11 /\ v < 15)}
ASSUME PairsAssumption ==
  Second = {v + 3 : v \in First} /\ First # {} /\ Voices \ (First \cup Second) # {}

VARIABLES chan,   \* channel -> its notes and its sustain pedal
          fm,     \* the voices, their clock, and the registers of the chip
          used    \* a client plays on the synth
fmvars == <<chan, fm, used>>

Flags == {"ON", "RELEASED", "SUSTENUTO"}
States == {"OFF", "ON_2OP", "ON_4OP", "NOT_AVAIL"}
On == {"ON_2OP", "ON_4OP"}
NoKey == <<-1, -1>>

Silent == [voice |-> [v \in Voices |-> [state |-> "OFF", time |-> 0, key |-> NoKey]],
           use_time |-> 0,
           keyon |-> {},      \* voices whose key-on bit is set
           connection |-> {}] \* first voices joined to their second

FmInit ==
  /\ chan = [c \in Channels |-> [note |-> [n \in Notes |-> {}], hold |-> FALSE]]
  /\ fm = Silent /\ used = FALSE

(***************************************************************************)
(* opl3_midi.c.                                                            *)
(***************************************************************************)
Taken(f, v) == f.voice[v].state \in On

(* The cost of taking v, 0 for none, or 3 when it is not to be had. *)
Cost(f, v, op4) ==
  IF f.voice[v].state = "NOT_AVAIL" \/ (op4 /\ v \notin First) THEN 3
  ELSE IF op4 THEN (IF Taken(f, v) THEN 1 ELSE 0)
                   + (IF f.voice[v + 3].state = "ON_2OP" THEN 1 ELSE 0)
  ELSE IF Taken(f, v) THEN 2
  ELSE IF v \in First \cup Second THEN 1 ELSE 0

(* Mutant: voices are taken by age alone. *)
OldestVoice(f, op4) ==
  {v \in Voices : Cost(f, v, op4) < 3 /\
     \A w \in Voices : Cost(f, w, op4) < 3 =>
        \/ f.voice[v].time < f.voice[w].time
        \/ f.voice[v].time = f.voice[w].time /\ v <= w}

(* Of the cheapest voices the one used longest ago, of those the lowest. *)
opl3_get_voice(f, op4) ==
  {v \in Voices : Cost(f, v, op4) < 3 /\
     \A w \in Voices : \/ Cost(f, v, op4) < Cost(f, w, op4)
                       \/ Cost(f, v, op4) = Cost(f, w, op4) /\
                            \/ f.voice[v].time < f.voice[w].time
                            \/ f.voice[v].time = f.voice[w].time /\ v <= w}

(* vp->time = opl3->use_time++ *)
Touch(f, v) == [f EXCEPT !.voice[v].time = f.use_time, !.use_time = @ + 1]

(* A second voice is silenced, or not, by the state of the first. *)
KeysAfterKill(f, v, op4) ==
  IF Taken(f, v) THEN f.keyon \ (IF op4 THEN {v, v + 3} ELSE {v}) ELSE f.keyon

(* Mutant: the bound voice of a killed four-operator note stays bound. *)
PlayKeepsBound(f, v, key, op4) ==
  LET g == [Touch(f, v) EXCEPT
              !.voice[v].key = key,
              !.voice[v].state = IF op4 THEN "ON_4OP" ELSE "ON_2OP",
              !.keyon = KeysAfterKill(f, v, op4) \cup {v},
              !.connection = IF op4 THEN @ \cup {v} ELSE @ \ {v}]
  IN  IF op4 THEN [Touch(g, v + 3) EXCEPT !.voice[v + 3].key = key,
                                          !.voice[v + 3].state = "NOT_AVAIL"]
      ELSE g

(* One program of snd_opl3_note_on on the voice v. *)
Play(f, v, key, op4) ==
  LET g == [Touch(f, v) EXCEPT
              !.voice[v].key = key,
              !.voice[v].state = IF op4 THEN "ON_4OP" ELSE "ON_2OP",
              !.keyon = KeysAfterKill(f, v, op4) \cup {v},
              !.connection = IF op4 THEN @ \cup {v} ELSE @ \ {v}]
  IN  IF op4 THEN [Touch(g, v + 3) EXCEPT !.voice[v + 3].key = key,
                                          !.voice[v + 3].state = "NOT_AVAIL"]
      ELSE IF f.voice[v].state = "ON_4OP"
           THEN [Touch(g, v + 3) EXCEPT !.voice[v + 3].state = "OFF"]
           ELSE g

(* A program may name an extra one, played on a voice of its own. *)
PlayNext(f, key, op4) == Play(f, CHOOSE v \in opl3_get_voice(f, op4) : TRUE, key, op4)

snd_opl3_note_on(f, key, program) ==
  LET g == IF program = <<>> THEN f ELSE PlayNext(f, key, program[1])
  IN  IF Len(program) < 2 THEN g ELSE PlayNext(g, key, program[2])

(* Each voice of K is killed, and with a four-operator note the second voice *)
(* is free again; notes in their order, and from the lowest voice on.        *)
snd_opl3_kill_voice(f, K) ==
  LET second  == {v + 3 : v \in {u \in K : f.voice[u].state = "ON_4OP"}}
      killed  == K \cup second
      Turn(w) == IF w \in K THEN 64 * f.voice[w].key[2] + 2 * w
                            ELSE 64 * f.voice[w - 3].key[2] + 2 * (w - 3) + 1
      Time(w) == f.use_time + Cardinality({u \in killed : Turn(u) < Turn(w)})
  IN  [f EXCEPT
         !.voice = [w \in Voices |->
                      IF w \in killed
                      THEN [f.voice[w] EXCEPT !.state = "OFF", !.time = Time(w)]
                      ELSE f.voice[w]],
         !.use_time = @ + Cardinality(killed),
         !.keyon = @ \ K]

TakenBy(f, key) == {v \in Voices : Taken(f, v) /\ f.voice[v].key = key}

(* Mutant: the search ends at the first voice of a note. *)
NoteOffFirstOnly(f, keys) ==
  snd_opl3_kill_voice(f, {v \in Voices : /\ Taken(f, v) /\ f.voice[v].key \in keys
                                         /\ \A w \in TakenBy(f, f.voice[v].key) : v <= w})

(* The notes of keys end, one after the other. *)
snd_opl3_note_off(f, keys) ==
  snd_opl3_kill_voice(f, {v \in Voices : Taken(f, v) /\ f.voice[v].key \in keys})

(* The frequency is written with the key-on bit. *)
snd_opl3_pitch_ctrl(f, c) ==
  LET P == {v \in Voices : Taken(f, v) /\ f.voice[v].key[1] = c}
  IN  [f EXCEPT
         !.voice = [v \in Voices |->
                      IF v \in P
                      THEN [f.voice[v] EXCEPT
                              !.time = f.use_time + Cardinality({u \in P : u < v})]
                      ELSE f.voice[v]],
         !.use_time = @ + Cardinality(P),
         !.keyon = @ \cup P]

(* Ages matter by their order only. *)
Renumbered(f) ==
  LET ages == {f.voice[v].time : v \in Voices} \cup {f.use_time}
      Rank(t) == Cardinality({a \in ages : a < t})
  IN  [f EXCEPT !.use_time = Rank(@),
                !.voice = [v \in Voices |-> [f.voice[v] EXCEPT !.time = Rank(@)]]]

(***************************************************************************)
(* seq_midi_emul.c.  Events reach the synth while a client uses it.        *)
(***************************************************************************)
NoteOn(c, n, program) ==
  LET f == IF "ON" \in chan[c].note[n] THEN snd_opl3_note_off(fm, {<<c, n>>}) ELSE fm
  IN  /\ used
      /\ chan' = [chan EXCEPT ![c].note[n] = {"ON"}]
      /\ fm' = Renumbered(snd_opl3_note_on(f, <<c, n>>, program))
      /\ UNCHANGED used

(* note_off: a pedal keeps the note until it is let go. *)
Kept(c, n) == chan[c].hold \/ "SUSTENUTO" \in chan[c].note[n]

NoteOff(c, n) ==
  /\ used /\ "ON" \in chan[c].note[n]
  /\ IF Kept(c, n)
     THEN chan' = [chan EXCEPT ![c].note[n] = @ \cup {"RELEASED"}] /\ UNCHANGED fm
     ELSE /\ chan' = [chan EXCEPT ![c].note[n] = {}]
          /\ fm' = Renumbered(snd_opl3_note_off(fm, {<<c, n>>}))
  /\ UNCHANGED used

(* The notes ns of a channel end, in their order. *)
EndNotes(c, ns) == Renumbered(snd_opl3_note_off(fm, {<<c, n>> : n \in ns}))

Released(c) == {n \in Notes : "RELEASED" \in chan[c].note[n]}

Sustain(c, on) ==
  /\ used
  /\ IF on
     THEN chan' = [chan EXCEPT ![c].hold = TRUE] /\ UNCHANGED fm
     ELSE /\ chan' = [chan EXCEPT ![c].hold = FALSE,
                        ![c].note = [n \in Notes |-> IF n \in Released(c) THEN {} ELSE @[n]]]
          /\ fm' = EndNotes(c, Released(c))
  /\ UNCHANGED used

SustenutoOn(c) ==
  /\ used
  /\ chan' = [chan EXCEPT ![c].note = [n \in Notes |->
                IF "ON" \in @[n] THEN @[n] \cup {"SUSTENUTO"} ELSE @[n]]]
  /\ UNCHANGED <<fm, used>>

SustenutoOff(c) ==
  LET ended == {n \in Released(c) : "SUSTENUTO" \in chan[c].note[n]}
  IN  /\ used
      /\ chan' = [chan EXCEPT ![c].note = [n \in Notes |->
                    IF n \in ended THEN {} ELSE @[n] \ {"SUSTENUTO"}]]
      /\ fm' = EndNotes(c, ended)
      /\ UNCHANGED used

all_notes_off(c) ==
  LET on == {n \in Notes : chan[c].note[n] = {"ON"}}
  IN  /\ used
      /\ IF chan[c].hold
         THEN /\ chan' = [chan EXCEPT ![c].note = [n \in Notes |->
                            IF n \in on THEN {"ON", "RELEASED"} ELSE @[n]]]
              /\ UNCHANGED fm
         ELSE /\ chan' = [chan EXCEPT ![c].note = [n \in Notes |->
                            IF n \in on THEN {} ELSE @[n]]]
              /\ fm' = EndNotes(c, on)
      /\ UNCHANGED used

(* note_terminate of this driver does nothing. *)
all_sounds_off(c) ==
  /\ used
  /\ chan' = [chan EXCEPT ![c].note = [n \in Notes |-> {}]]
  /\ UNCHANGED <<fm, used>>

snd_midi_reset_controllers(c) ==
  /\ used
  /\ chan' = [chan EXCEPT ![c].hold = FALSE]
  /\ UNCHANGED <<fm, used>>

PitchBend(c) ==
  /\ used
  /\ fm' = Renumbered(snd_opl3_pitch_ctrl(fm, c))
  /\ UNCHANGED <<chan, used>>

(***************************************************************************)
(* opl3_seq.c: the first client comes, the last one goes.  Neither clears  *)
(* the channels.                                                           *)
(***************************************************************************)
snd_opl3_synth_use ==
  /\ ~used /\ used' = TRUE
  /\ fm' = [Silent EXCEPT !.voice = [v \in Voices |->
              [Silent.voice[v] EXCEPT !.key = fm.voice[v].key]]]
  /\ UNCHANGED chan

snd_opl3_synth_unuse ==
  /\ used /\ used' = FALSE
  /\ fm' = [fm EXCEPT !.keyon = {}]
  /\ UNCHANGED chan

FmNext ==
  \/ \E c \in Channels : \/ \E n \in Notes : \/ NoteOff(c, n)
                                             \/ \E p \in Programs : NoteOn(c, n, p)
                         \/ \E on \in BOOLEAN : Sustain(c, on)
                         \/ SustenutoOn(c) \/ SustenutoOff(c)
                         \/ all_notes_off(c) \/ all_sounds_off(c)
                         \/ snd_midi_reset_controllers(c) \/ PitchBend(c)
  \/ snd_opl3_synth_use \/ snd_opl3_synth_unuse

FmSpec == FmInit /\ [][FmNext]_fmvars

(***************************************************************************)
(* Properties.                                                             *)
(***************************************************************************)
(* Every variable has its type. *)
FmTypeOK ==
  /\ chan \in [Channels -> [note : [Notes -> SUBSET Flags], hold : BOOLEAN]]
  /\ \A v \in Voices : /\ fm.voice[v].state \in States
                       /\ fm.voice[v].time \in 0 .. Cardinality(Voices)
                       /\ fm.voice[v].key \in (Channels \X Notes) \cup {NoKey}
  /\ fm.keyon \subseteq Voices /\ fm.connection \subseteq First
  /\ used \in BOOLEAN

(* The second voice of a pair is withheld exactly while the first plays a   *)
(* four-operator note, through every way such a note can end: note off,     *)
(* pedals, being killed by a two-operator note, or by another of its kind.  *)
PairsBound ==
  \A v \in First : fm.voice[v + 3].state = "NOT_AVAIL" <=> fm.voice[v].state = "ON_4OP"

(* There is always a voice to play a note on, so that snd_opl3_note_on,     *)
(* which does not look at the answer, never works on voice -1.              *)
VoiceForEveryNote == \A op4 \in BOOLEAN : opl3_get_voice(fm, op4) # {}

(* A voice that is allocated is keyed in the chip: what is allocated can be *)
(* heard, and a released voice is not waiting with its key still down.      *)
AllocatedIsKeyed ==
  used => \A v \in Voices : /\ Taken(fm, v) => v \in fm.keyon
                            /\ v \notin First \cup Second => (v \in fm.keyon => Taken(fm, v))

(* The voice table: pairs are bound both ways, what is allocated sounds     *)
(* (the converse for voices outside the pairs only, see HeardIsAllocated),  *)
(* and there is always something left to take.                              *)
VoicesConsistent == FmTypeOK /\ PairsBound /\ VoiceForEveryNote /\ AllocatedIsKeyed

(* When a note is ended by note off, by all notes off or by letting go of   *)
(* the pedal that kept it, no voice goes on playing it, neither of its      *)
(* program nor of the extra one.  All sounds off is left out: it forgets    *)
(* the notes and their voices play on (SoundsOffSilent, which fails).       *)
NoteEndsSilent ==
  [][\/ \E c \in Channels : all_sounds_off(c)
     \/ \A c \in Channels, n \in Notes :
          chan[c].note[n] # {} /\ chan'[c].note[n] = {} => TakenBy(fm', <<c, n>>) = {}]_fmvars

(* "all sound off" (seq_midi_emul.c): no voice of the channel plays on.     *)
SoundsOffSilent ==
  [][\A c \in Channels : all_sounds_off(c) =>
       \A n \in Notes : TakenBy(fm', <<c, n>>) = {}]_fmvars

(* A note is cut off by another one only when it has to be: not while a     *)
(* voice (for four operators, a pair) that plays nothing could be had.      *)
NoNeedlessSteal ==
  [][\A c \in Channels, n \in Notes, op4 \in BOOLEAN :
       /\ NoteOn(c, n, <<op4>>)
       /\ \E v \in Voices : IF op4 THEN v \in First /\ ~Taken(fm, v) /\ ~Taken(fm, v + 3)
                            ELSE fm.voice[v].state = "OFF"
       => \A v \in Voices : Taken(fm, v) /\ fm.voice[v].key # <<c, n>> =>
                             Taken(fm', v) /\ fm'.voice[v].key = fm.voice[v].key]_fmvars

(* The voices that can be heard, that is keyed and not the second of a      *)
(* joined pair, are those that play a note: killing a voice silences it.    *)
Heard == {v \in fm.keyon : v \in Second => v - 3 \notin fm.connection}
HeardIsAllocated == \A v \in Heard : fm.voice[v].state # "OFF"
=============================================================================
