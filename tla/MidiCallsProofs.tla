-------------------------- MODULE MidiCallsProofs --------------------------
(***************************************************************************)
(* For any cards, synthesizers and number of clients, whatever call runs   *)
(* out of memory: the tables of the sequencer agree with the open streams, *)
(* streams play where instruments were sent, and no call disturbs the      *)
(* notes of another stream.                                                *)
(***************************************************************************)
EXTENDS MidiCalls, FiniteSetTheorems, WellFoundedInduction, TLAPS

(***************************************************************************)
(* The state of the sequencer as a record, and what makes it consistent.   *)
(***************************************************************************)
Sequencer ==
  [clients           : SUBSET Numbers,
   ports             : SUBSET Numbers,
   export            : SUBSET (Users \X SynthClients),
   import            : SUBSET (Users \X SynthClients),
   subscribe_count   : [Users -> Nat],
   use_count         : [SynthClients -> Nat],
   used              : [SynthClients -> Int],
   sent              : SUBSET SynthClients,
   missing           : BOOLEAN,
   fInstumentsLoaded : BOOLEAN,
   sounding          : [SynthClients -> SUBSET Notes],
   flag              : BOOLEAN,
   ports_lock        : [Numbers -> BOOLEAN]]

Callers(q, k) == {u \in Users : <<u, k>> \in q.export}

(* The two sides of the connections agree, a user has at most one, and the  *)
(* counts are those of the connections.                                     *)
Counted(q) ==
  /\ q \in Sequencer
  /\ q.import = q.export
  /\ \A u \in Users, k, l \in SynthClients :
       <<u, k>> \in q.export /\ <<u, l>> \in q.export => k = l
  /\ \A u \in Users :
       q.subscribe_count[u] =
         IF \E k \in SynthClients : <<u, k>> \in q.export THEN 1 ELSE 0
  /\ \A k \in SynthClients :
       /\ q.use_count[k] = Cardinality(Callers(q, k))
       /\ q.used[k] = IF Callers(q, k) = {} THEN 0 ELSE 1
       /\ Callers(q, k) = {} => q.sounding[k] = {}

(* Both ends of a connection exist. *)
Attached(q) ==
  \A u \in Users, k \in SynthClients :
    <<u, k>> \in q.export => {u, k} \subseteq q.clients \cap q.ports

Good(q) == Counted(q) /\ Attached(q)

(* What connecting does not touch, and what no lock touches. *)
SameRest(q, r) ==
  /\ r.clients = q.clients /\ r.ports = q.ports
  /\ r.sent = q.sent /\ r.fInstumentsLoaded = q.fInstumentsLoaded

SameTables(q, r) ==
  /\ SameRest(q, r)
  /\ r.export = q.export /\ r.import = q.import
  /\ r.subscribe_count = q.subscribe_count
  /\ r.use_count = q.use_count /\ r.used = q.used
  /\ r.sounding = q.sounding

(* A nonempty set of numbers has a least element, and Min is it. *)
LEMMA MinMeaning ==
  ASSUME NEW S \in SUBSET Nat, S # {}
  PROVE  Min(S) \in S /\ \A x \in S : Min(S) <= x
  <1>1. \E x \in S : \A y \in S : ~(<<y, x>> \in OpToRel(<, Nat))
    BY NatLessThanWellFounded, WFMin
  <1>2. PICK x \in S : \A y \in S : ~(<<y, x>> \in OpToRel(<, Nat))
    BY <1>1
  <1>3. \A y \in S : ~(y < x)
    BY <1>2 DEF OpToRel
  <1>4. \A y \in S : x <= y
    BY <1>3
  <1> QED BY <1>4 DEF Min

(* The callers of a synth are at most MaxUsers. *)
LEMMA CallersFinite ==
  ASSUME NEW q, NEW k
  PROVE  /\ IsFiniteSet(Callers(q, k))
         /\ Cardinality(Callers(q, k)) \in 0 .. MaxUsers
         /\ Cardinality(Callers(q, k)) = 0 <=> Callers(q, k) = {}
  <1>1. IsFiniteSet(Users) /\ Cardinality(Users) = MaxUsers
    BY MidiCallsAssumption, FS_Interval DEF Users
  <1>2. Callers(q, k) \in SUBSET Users
    BY DEF Callers
  <1>3. /\ IsFiniteSet(Callers(q, k))
        /\ Cardinality(Callers(q, k)) <= MaxUsers
        /\ Cardinality(Callers(q, k)) \in Nat
    BY <1>1, <1>2, FS_Subset, FS_CardinalityType
  <1> QED BY <1>3, FS_EmptySet, MidiCallsAssumption

(* The client numbers of synths are numbers, and those of no user. *)
LEMMA ClientNumbers ==
  /\ Users \subseteq Nat /\ SynthClients \subseteq Nat
  /\ Users \subseteq Numbers /\ SynthClients \subseteq Numbers
  /\ Users \cap SynthClients = {}
  BY MidiCallsAssumption DEF Users, SynthClients, SynthClient, Numbers

(* Taking and giving back a lock moves flags only. *)
LEMMA LocksKeep ==
  ASSUME NEW q \in Sequencer, NEW c \in Numbers
  PROVE  /\ Entered(q) \in Sequencer /\ SameTables(q, Entered(q))
         /\ spin_lock(q, c) \in Sequencer /\ SameTables(q, spin_lock(q, c))
         /\ spin_unlock(q, c) \in Sequencer /\ SameTables(q, spin_unlock(q, c))
  BY DEF Entered, spin_lock, spin_unlock, SameTables, Sequencer, SameRest

(* Counted is about the connections and their counts, *)
LEMMA SameCounted ==
  ASSUME NEW q, NEW r \in Sequencer, Counted(q),
         r.export = q.export, r.import = q.import,
         r.subscribe_count = q.subscribe_count,
         r.use_count = q.use_count, r.used = q.used, r.sounding = q.sounding
  PROVE  Counted(r)
  <1>1. \A k \in SynthClients : Callers(r, k) = Callers(q, k)
    BY DEF Callers
  <1> QED BY <1>1 DEF Counted

(* and Good about these tables. *)
LEMMA SameGood ==
  ASSUME NEW q, NEW r \in Sequencer, Good(q), SameTables(q, r)
  PROVE  Good(r)
  BY DEF Good, Counted, Attached, SameTables, SameRest, Callers

(* What setting up and resetting a synth write. *)
SynthReset(q, k, x) == [q EXCEPT !.used[k] = x, !.sounding[k] = {}]

(* They touch nothing else. *)
LEMMA SynthEffect ==
  ASSUME NEW q \in Sequencer, NEW k \in SynthClients, NEW x \in Int
  PROVE  LET r == SynthReset(q, k, x)
         IN  /\ r \in Sequencer
             /\ SameRest(q, r)
             /\ r.export = q.export /\ r.import = q.import
             /\ r.subscribe_count = q.subscribe_count
             /\ r.use_count = q.use_count
             /\ r.used = [q.used EXCEPT ![k] = x]
             /\ r.sounding = [q.sounding EXCEPT ![k] = {}]
  <1> DEFINE a == [q.used EXCEPT ![k] = x]
             b == [q.sounding EXCEPT ![k] = {}]
             s == [q EXCEPT !.used = a, !.sounding = b]
  <1>1. a \in [SynthClients -> Int] /\ b \in [SynthClients -> SUBSET Notes]
    BY DEF Sequencer
  <1>2. SynthReset(q, k, x) = s
    BY DEF Sequencer, SynthReset
  <1> HIDE DEF a, b
  <1>3. /\ s \in Sequencer
        /\ SameRest(q, s)
        /\ s.export = q.export /\ s.import = q.import
        /\ s.subscribe_count = q.subscribe_count
        /\ s.use_count = q.use_count /\ s.used = a /\ s.sounding = b
    BY <1>1 DEF Sequencer, SameRest
  <1> HIDE DEF s
  <1> QED BY <1>2, <1>3 DEF a, b

(* r is q with one user of k more, a silent synth set up for the first. *)
InUse(q, r, k) ==
  /\ r \in Sequencer
  /\ SameRest(q, r)
  /\ r.export = q.export /\ r.import = q.import
  /\ r.subscribe_count = q.subscribe_count
  /\ r.use_count = [q.use_count EXCEPT ![k] = @ + 1]
  /\ r.used = [q.used EXCEPT ![k] = 1]
  /\ r.sounding = q.sounding

(* The first user sets the synth up; for the others it is counted only.  In  *)
(* a consistent table the first finds it silent already.                     *)
LEMMA UseEffect ==
  ASSUME NEW q \in Sequencer, NEW k \in SynthClients,
         q.use_count[k] = 0 => q.used[k] = 0 /\ q.sounding[k] = {},
         q.use_count[k] > 0 => q.used[k] = 1
  PROVE  InUse(q, snd_seq_port_use(q, k), k)
  <1> USE DEF InUse
  <1> DEFINE s == [q EXCEPT !.use_count[k] = @ + 1]
             t == [s EXCEPT !.used[k] = @ + 1, !.sounding[k] = {}]
  <1>1. /\ s \in Sequencer /\ s.use_count = [q.use_count EXCEPT ![k] = @ + 1]
        /\ SameRest(q, s)
        /\ s.export = q.export /\ s.import = q.import
        /\ s.subscribe_count = q.subscribe_count
        /\ s.used = q.used /\ s.sounding = q.sounding
    BY DEF Sequencer, SameRest
  <1>2. s.use_count[k] = q.use_count[k] + 1 /\ q.use_count[k] \in Nat
    BY <1>1 DEF Sequencer
  <1>3. snd_seq_port_use(q, k) = IF s.use_count[k] = 1 THEN t ELSE s
    BY DEF snd_seq_port_use, snd_opl3_synth_setup
  <1> HIDE DEF s
  <1>4. CASE q.use_count[k] = 0
    <2>1. snd_seq_port_use(q, k) = t
      BY <1>2, <1>3, <1>4
    <2>2. PICK x \in Int : x = s.used[k] + 1
      BY <1>1 DEF Sequencer
    <2>3. x = 1
      BY <1>1, <1>4, <2>2
    <2>4. t = SynthReset(s, k, x)
      BY <2>2 DEF SynthReset
    <2> HIDE DEF t
    <2>5. /\ t \in Sequencer /\ t.use_count = s.use_count
          /\ SameRest(s, t)
          /\ t.export = s.export /\ t.import = s.import
          /\ t.subscribe_count = s.subscribe_count
          /\ t.used = [s.used EXCEPT ![k] = x]
          /\ t.sounding = [s.sounding EXCEPT ![k] = {}]
      BY <1>1, <2>4, SynthEffect
    <2>6. [q.sounding EXCEPT ![k] = {}] = q.sounding
      BY <1>4 DEF Sequencer
    <2> QED BY <1>1, <2>1, <2>3, <2>5, <2>6 DEF SameRest
  <1>5. CASE q.use_count[k] > 0
    <2>1. snd_seq_port_use(q, k) = s
      BY <1>2, <1>3, <1>5
    <2>2. [q.used EXCEPT ![k] = 1] = q.used
      BY <1>5 DEF Sequencer
    <2> QED BY <1>1, <2>1, <2>2
  <1> QED BY <1>2, <1>4, <1>5

(* r is q with one user of k less, the synth reset after the last. *)
OutOfUse(q, r, k) ==
  /\ r \in Sequencer
  /\ SameRest(q, r)
  /\ r.export = q.export /\ r.import = q.import
  /\ r.subscribe_count = q.subscribe_count
  /\ r.use_count = [q.use_count EXCEPT ![k] = @ - 1]
  /\ r.used = [q.used EXCEPT ![k] = IF q.use_count[k] = 1 THEN 0
                                                          ELSE 1]
  /\ r.sounding = [q.sounding EXCEPT ![k] =
                     IF q.use_count[k] = 1 THEN {} ELSE @]

(* The last user that leaves resets the synth. *)
LEMMA UnuseEffect ==
  ASSUME NEW q \in Sequencer, NEW k \in SynthClients,
         q.use_count[k] > 0, q.used[k] = 1
  PROVE  OutOfUse(q, snd_seq_port_unuse(q, k), k)
  <1> USE DEF OutOfUse
  <1> DEFINE s == [q EXCEPT !.use_count[k] = @ - 1]
             t == [s EXCEPT !.used[k] = @ - 1, !.sounding[k] = {}]
  <1>1. /\ s \in Sequencer /\ s.use_count = [q.use_count EXCEPT ![k] = @ - 1]
        /\ SameRest(q, s)
        /\ s.export = q.export /\ s.import = q.import
        /\ s.subscribe_count = q.subscribe_count
        /\ s.used = q.used /\ s.sounding = q.sounding
    BY DEF Sequencer, SameRest
  <1>2. s.use_count[k] = q.use_count[k] - 1 /\ q.use_count[k] \in Nat
    BY <1>1 DEF Sequencer
  <1>3. snd_seq_port_unuse(q, k) = IF s.use_count[k] = 0 THEN t ELSE s
    BY <1>2 DEF snd_seq_port_unuse, snd_opl3_synth_cleanup
  <1> HIDE DEF s
  <1>4. CASE q.use_count[k] = 1
    <2>1. snd_seq_port_unuse(q, k) = t
      BY <1>2, <1>3, <1>4
    <2>2. PICK x \in Int : x = s.used[k] - 1
      BY <1>1 DEF Sequencer
    <2>3. x = 0
      BY <1>1, <1>4, <2>2
    <2>4. t = SynthReset(s, k, x)
      BY <2>2 DEF SynthReset
    <2> HIDE DEF t
    <2>5. /\ t \in Sequencer /\ t.use_count = s.use_count
          /\ SameRest(s, t)
          /\ t.export = s.export /\ t.import = s.import
          /\ t.subscribe_count = s.subscribe_count
          /\ t.used = [s.used EXCEPT ![k] = x]
          /\ t.sounding = [s.sounding EXCEPT ![k] = {}]
      BY <1>1, <2>4, SynthEffect
    <2> QED BY <1>1, <1>4, <2>1, <2>3, <2>5 DEF SameRest
  <1>5. CASE q.use_count[k] # 1
    <2>1. snd_seq_port_unuse(q, k) = s
      BY <1>2, <1>3, <1>5
    <2>2. [q.used EXCEPT ![k] = 1] = q.used
      BY DEF Sequencer
    <2>3. [q.sounding EXCEPT ![k] = @] = q.sounding
      BY DEF Sequencer
    <2> QED BY <1>1, <1>5, <2>1, <2>2, <2>3
  <1> QED BY <1>4, <1>5

(* r is q with one subscription of u more, or none. *)
Subscribed(q, r, u) ==
  /\ r \in Sequencer
  /\ SameRest(q, r)
  /\ r.export = q.export /\ r.import = q.import
  /\ r.subscribe_count = [q.subscribe_count EXCEPT ![u] = @ + 1]
  /\ r.use_count = q.use_count /\ r.used = q.used
  /\ r.sounding = q.sounding

(* Counting a subscriber, and taking the count back. *)
LEMMA SubscribeEffect ==
  ASSUME NEW q \in Sequencer, NEW u \in Users
  PROVE  Subscribed(q, snd_seq_port_subscribe(q, u), u)
  BY DEF Sequencer, snd_seq_port_subscribe, SameRest, Subscribed

Unsubscribed(q, r, u) ==
  /\ r \in Sequencer
  /\ SameRest(q, r)
  /\ r.export = q.export /\ r.import = q.import
  /\ r.subscribe_count = [q.subscribe_count EXCEPT ![u] = 0]
  /\ r.use_count = q.use_count /\ r.used = q.used
  /\ r.sounding = q.sounding

(* The count of a subscriber is taken back once. *)
LEMMA UnsubscribeEffect ==
  ASSUME NEW q \in Sequencer, NEW u \in Users, q.subscribe_count[u] = 1
  PROVE  Unsubscribed(q, snd_seq_port_unsubscribe(q, u), u)
  <1> USE DEF Unsubscribed
  <1> DEFINE s == [q EXCEPT !.subscribe_count[u] = @ - 1]
  <1>1. snd_seq_port_unsubscribe(q, u) = s
    BY DEF snd_seq_port_unsubscribe
  <1>2. /\ s \in Sequencer
        /\ SameRest(q, s)
        /\ s.export = q.export /\ s.import = q.import
        /\ s.subscribe_count = [q.subscribe_count EXCEPT ![u] = @ - 1]
        /\ s.use_count = q.use_count /\ s.used = q.used
        /\ s.sounding = q.sounding
    BY DEF Sequencer, SameRest
  <1>3. [q.subscribe_count EXCEPT ![u] = @ - 1] =
        [q.subscribe_count EXCEPT ![u] = 0]
    BY DEF Sequencer
  <1> HIDE DEF s
  <1> QED BY <1>1, <1>2, <1>3

(***************************************************************************)
(* Adding and removing a connection.                                       *)
(***************************************************************************)
(* The tables with one connection more, of a user that had none. *)
LEMMA AddedEdge ==
  ASSUME NEW q, NEW r \in Sequencer, NEW u \in Users, NEW k \in SynthClients,
         Good(q), SameRest(q, r),
         u \in q.clients \cap q.ports, k \in q.clients \cap q.ports,
         \A l \in SynthClients : <<u, l>> \notin q.export,
         r.export = q.export \cup {<<u, k>>}, r.import = r.export,
         r.subscribe_count = [q.subscribe_count EXCEPT ![u] = @ + 1],
         r.use_count = [q.use_count EXCEPT ![k] = @ + 1],
         r.used = [q.used EXCEPT ![k] = 1],
         r.sounding = q.sounding
  PROVE  Good(r)
  <1> USE DEF Good
  <1>0. q \in Sequencer
    BY DEF Counted
  <1>1. \A v \in Users, l \in SynthClients :
          <<v, l>> \in r.export <=> <<v, l>> \in q.export \/ (v = u /\ l = k)
    OBVIOUS
  <1>2. Attached(r)
    BY <1>1 DEF Attached, SameRest
  <1>3. \A v \in Users, l, m \in SynthClients :
          <<v, l>> \in r.export /\ <<v, m>> \in r.export => l = m
    BY <1>1 DEF Counted
  <1>4. ASSUME NEW v \in Users
        PROVE  r.subscribe_count[v] =
                 IF \E l \in SynthClients : <<v, l>> \in r.export THEN 1 ELSE 0
    <2>1. q.subscribe_count[v] =
            IF \E l \in SynthClients : <<v, l>> \in q.export THEN 1 ELSE 0
      BY DEF Counted
    <2>2. q.subscribe_count \in [Users -> Nat]
      BY <1>0 DEF Sequencer
    <2>3. CASE v = u
      <3>1. q.subscribe_count[u] = 0
        BY <2>1, <2>3
      <3>2. r.subscribe_count[u] = q.subscribe_count[u] + 1
        BY <2>2
      <3> QED BY <1>1, <2>3, <3>1, <3>2
    <2>4. CASE v # u
      <3>1. r.subscribe_count[v] = q.subscribe_count[v]
        BY <2>2, <2>4
      <3> QED BY <1>1, <2>1, <2>4, <3>1
    <2> QED BY <2>3, <2>4
  <1>5. ASSUME NEW l \in SynthClients
        PROVE  /\ r.use_count[l] = Cardinality(Callers(r, l))
               /\ r.used[l] = IF Callers(r, l) = {} THEN 0 ELSE 1
               /\ Callers(r, l) = {} => r.sounding[l] = {}
    <2>1. /\ q.use_count[l] = Cardinality(Callers(q, l))
          /\ q.used[l] = IF Callers(q, l) = {} THEN 0 ELSE 1
          /\ Callers(q, l) = {} => q.sounding[l] = {}
      BY DEF Counted
    <2>2. CASE l # k
      <3>1. Callers(r, l) = Callers(q, l)
        BY <1>1, <2>2 DEF Callers
      <3>2. r.use_count[l] = q.use_count[l] /\ r.used[l] = q.used[l]
        BY <1>0, <2>2 DEF Sequencer
      <3> QED BY <2>1, <3>1, <3>2
    <2>3. CASE l = k
      <3>1. Callers(r, k) = Callers(q, k) \cup {u} /\ u \notin Callers(q, k)
        BY <1>1 DEF Callers
      <3>2. Cardinality(Callers(r, k)) = Cardinality(Callers(q, k)) + 1
        BY <3>1, CallersFinite, FS_AddElement
      <3>3. r.use_count[k] = q.use_count[k] + 1 /\ r.used[k] = 1
        BY <1>0 DEF Sequencer
      <3>4. Callers(r, k) # {}
        BY <3>1
      <3> QED BY <2>1, <2>3, <3>2, <3>3, <3>4
    <2> QED BY <2>2, <2>3
  <1> QED BY <1>2, <1>3, <1>4, <1>5 DEF Counted

(* The tables with one connection less. *)
LEMMA RemovedEdge ==
  ASSUME NEW q, NEW r \in Sequencer, NEW u \in Users, NEW k \in SynthClients,
         Good(q), SameRest(q, r), <<u, k>> \in q.export,
         r.export = q.export \ {<<u, k>>}, r.import = r.export,
         r.subscribe_count = [q.subscribe_count EXCEPT ![u] = 0],
         r.use_count = [q.use_count EXCEPT ![k] = @ - 1],
         r.used = [q.used EXCEPT ![k] = IF q.use_count[k] = 1 THEN 0 ELSE 1],
         r.sounding = [q.sounding EXCEPT ![k] =
                         IF q.use_count[k] = 1 THEN {} ELSE @]
  PROVE  Good(r)
  <1> USE DEF Good
  <1>0. q \in Sequencer
    BY DEF Counted
  <1>1. \A v \in Users, l \in SynthClients :
          <<v, l>> \in r.export <=> <<v, l>> \in q.export /\ ~(v = u /\ l = k)
    OBVIOUS
  <1>2. Attached(r)
    BY <1>1 DEF Attached, SameRest
  <1>3. \A v \in Users, l, m \in SynthClients :
          <<v, l>> \in r.export /\ <<v, m>> \in r.export => l = m
    BY <1>1 DEF Counted
  <1>4. ASSUME NEW v \in Users
        PROVE  r.subscribe_count[v] =
                 IF \E l \in SynthClients : <<v, l>> \in r.export THEN 1 ELSE 0
    <2>1. q.subscribe_count[v] =
            IF \E l \in SynthClients : <<v, l>> \in q.export THEN 1 ELSE 0
      BY DEF Counted
    <2>2. r.subscribe_count[v] = IF v = u THEN 0 ELSE q.subscribe_count[v]
      BY <1>0 DEF Sequencer
    <2>3. CASE v = u
      <3>1. \A l \in SynthClients : <<u, l>> \notin r.export
        BY <1>1 DEF Counted
      <3> QED BY <2>2, <2>3, <3>1
    <2>4. CASE v # u
      BY <1>1, <2>1, <2>2, <2>4
    <2> QED BY <2>3, <2>4
  <1>5. ASSUME NEW l \in SynthClients
        PROVE  /\ r.use_count[l] = Cardinality(Callers(r, l))
               /\ r.used[l] = IF Callers(r, l) = {} THEN 0 ELSE 1
               /\ Callers(r, l) = {} => r.sounding[l] = {}
    <2>1. /\ q.use_count[l] = Cardinality(Callers(q, l))
          /\ q.used[l] = IF Callers(q, l) = {} THEN 0 ELSE 1
          /\ Callers(q, l) = {} => q.sounding[l] = {}
      BY DEF Counted
    <2>2. CASE l # k
      <3>1. Callers(r, l) = Callers(q, l)
        BY <1>1, <2>2 DEF Callers
      <3>2. /\ r.use_count[l] = q.use_count[l] /\ r.used[l] = q.used[l]
            /\ r.sounding[l] = q.sounding[l]
        BY <1>0, <2>2 DEF Sequencer
      <3> QED BY <2>1, <3>1, <3>2
    <2>3. CASE l = k
      <3>1. Callers(r, k) = Callers(q, k) \ {u} /\ u \in Callers(q, k)
        BY <1>1 DEF Callers
      <3>2. Cardinality(Callers(r, k)) = Cardinality(Callers(q, k)) - 1
        BY <3>1, CallersFinite, FS_RemoveElement
      <3>3. /\ r.use_count[k] = q.use_count[k] - 1
            /\ r.used[k] = IF q.use_count[k] = 1 THEN 0 ELSE 1
            /\ q.use_count[k] = 1 => r.sounding[k] = {}
        BY <1>0 DEF Sequencer
      <3>4. Cardinality(Callers(r, k)) = 0 <=> Callers(r, k) = {}
        BY CallersFinite
      <3>5. q.use_count[k] \in Nat
        BY <1>0 DEF Sequencer
      <3>6. q.use_count[k] = 1 <=> Callers(r, k) = {}
        BY <2>1, <2>3, <3>2, <3>4, <3>5
      <3> QED BY <2>1, <2>3, <3>2, <3>3, <3>6
    <2> QED BY <2>2, <2>3
  <1> QED BY <1>2, <1>3, <1>4, <1>5 DEF Counted

(***************************************************************************)
(* Connecting.  A user that is not connected yet finds the synth free to   *)
(* use, and when there is no memory for one of the two entries everything  *)
(* is taken back.                                                          *)
(***************************************************************************)
(* What the counts say of a synth, *)
LEMMA UseOf ==
  ASSUME NEW q, NEW k \in SynthClients, Good(q)
  PROVE  /\ q \in Sequencer /\ q.use_count[k] \in Nat
         /\ q.use_count[k] = 0 => q.used[k] = 0 /\ q.sounding[k] = {}
         /\ q.use_count[k] > 0 => q.used[k] = 1
         /\ \A u \in Users : <<u, k>> \in q.export => q.use_count[k] > 0
  <1>1. /\ q.use_count[k] = Cardinality(Callers(q, k))
        /\ q.used[k] = IF Callers(q, k) = {} THEN 0 ELSE 1
        /\ Callers(q, k) = {} => q.sounding[k] = {}
    BY DEF Good, Counted
  <1>2. /\ Cardinality(Callers(q, k)) \in Nat
        /\ Cardinality(Callers(q, k)) = 0 <=> Callers(q, k) = {}
    BY CallersFinite, MidiCallsAssumption
  <1>3. \A u \in Users : <<u, k>> \in q.export => Callers(q, k) # {}
    BY DEF Callers
  <1>4. q \in Sequencer
    BY DEF Good, Counted
  <1>5. /\ q.use_count[k] \in Nat
        /\ q.use_count[k] = 0 <=> Callers(q, k) = {}
    BY <1>1, <1>2
  <1>6. Callers(q, k) # {} => q.use_count[k] > 0
    BY <1>5
  <1> QED BY <1>1, <1>3, <1>4, <1>5, <1>6

(* and of a user. *)
LEMMA SubscriptionsOf ==
  ASSUME NEW q, NEW u \in Users, Good(q)
  PROVE  /\ \A k \in SynthClients :
              <<u, k>> \in q.export => q.subscribe_count[u] = 1
         /\ (\A l \in SynthClients : <<u, l>> \notin q.export) =>
              q.subscribe_count[u] = 0
  <1>1. q.subscribe_count[u] =
          IF \E l \in SynthClients : <<u, l>> \in q.export THEN 1 ELSE 0
    BY DEF Good, Counted
  <1> QED BY <1>1

(* What was told to both sides of a connection is taken back. *)
LEMMA TakenBack ==
  ASSUME NEW q, NEW s \in Sequencer, NEW u \in Users, NEW k \in SynthClients,
         Good(q), \A l \in SynthClients : <<u, l>> \notin q.export,
         SameRest(q, s), s.export = q.export, s.import = q.import,
         s.subscribe_count = [q.subscribe_count EXCEPT ![u] = @ + 1],
         s.use_count = [q.use_count EXCEPT ![k] = @ + 1],
         s.used = [q.used EXCEPT ![k] = 1],
         s.sounding = q.sounding
  PROVE  LET r == snd_seq_port_unuse(snd_seq_port_unsubscribe(s, u), k)
         IN  r \in Sequencer /\ SameTables(q, r)
  <1>1. PICK t : t = snd_seq_port_unsubscribe(s, u)
    OBVIOUS
  <1>2. PICK r : r = snd_seq_port_unuse(t, k)
    OBVIOUS
  <1>3. /\ q \in Sequencer /\ q.use_count[k] \in Nat /\ q.subscribe_count[u] = 0
        /\ q.use_count[k] = 0 => q.used[k] = 0 /\ q.sounding[k] = {}
        /\ q.use_count[k] > 0 => q.used[k] = 1
    BY UseOf, SubscriptionsOf
  <1>4. /\ q.subscribe_count \in [Users -> Nat] /\ q.use_count \in [SynthClients -> Nat]
        /\ q.used \in [SynthClients -> Int]
        /\ q.sounding \in [SynthClients -> SUBSET Notes]
    BY <1>3 DEF Sequencer
  <1>5. s.subscribe_count[u] = 1
    BY <1>3, <1>4
  <1>61. Unsubscribed(s, t, u)
    BY <1>1, <1>5, UnsubscribeEffect
  <1>6. /\ t \in Sequencer /\ SameRest(s, t)
        /\ t.export = s.export /\ t.import = s.import
        /\ t.subscribe_count = [s.subscribe_count EXCEPT ![u] = 0]
        /\ t.use_count = s.use_count /\ t.used = s.used
        /\ t.sounding = s.sounding
    BY <1>61 DEF Unsubscribed
  <1>7. t.use_count[k] = q.use_count[k] + 1 /\ t.used[k] = 1
    BY <1>4, <1>6
  <1>8. t.use_count[k] > 0
    BY <1>3, <1>7
  <1>91. OutOfUse(t, r, k)
    BY <1>2, <1>6, <1>7, <1>8, UnuseEffect
  <1>9. /\ r \in Sequencer /\ SameRest(t, r)
        /\ r.export = t.export /\ r.import = t.import
        /\ r.subscribe_count = t.subscribe_count
        /\ r.use_count = [t.use_count EXCEPT ![k] = @ - 1]
        /\ r.used = [t.used EXCEPT ![k] = IF t.use_count[k] = 1 THEN 0 ELSE 1]
        /\ r.sounding = [t.sounding EXCEPT ![k] =
                           IF t.use_count[k] = 1 THEN {} ELSE @]
    BY <1>91 DEF OutOfUse
  <1>10. r.subscribe_count = q.subscribe_count
    BY <1>3, <1>4, <1>6, <1>9
  <1>11. r.use_count = q.use_count
    <2>1. r.use_count \in [SynthClients -> Nat]
      BY <1>9 DEF Sequencer
    <2>2. r.use_count[k] = q.use_count[k]
      BY <1>3, <1>4, <1>6, <1>7, <1>9
    <2>3. \A l \in SynthClients : l # k => r.use_count[l] = q.use_count[l]
      BY <1>4, <1>6, <1>9
    <2> QED BY <1>4, <2>1, <2>2, <2>3
  <1>12. t.use_count[k] = 1 <=> q.use_count[k] = 0
    BY <1>3, <1>7
  <1>13. r.used = q.used
    <2>1. r.used \in [SynthClients -> Int]
      BY <1>9 DEF Sequencer
    <2>2. r.used[k] = IF q.use_count[k] = 0 THEN 0 ELSE 1
      BY <1>4, <1>6, <1>9, <1>12
    <2>3. r.used[k] = q.used[k]
      BY <1>3, <2>2
    <2>4. \A l \in SynthClients : l # k => r.used[l] = q.used[l]
      BY <1>4, <1>6, <1>9
    <2> QED BY <1>4, <2>1, <2>3, <2>4
  <1>14. r.sounding = q.sounding
    <2>1. r.sounding \in [SynthClients -> SUBSET Notes]
      BY <1>9 DEF Sequencer
    <2>2. r.sounding[k] = q.sounding[k]
      BY <1>3, <1>4, <1>6, <1>9, <1>12
    <2>3. \A l \in SynthClients : l # k => r.sounding[l] = q.sounding[l]
      BY <1>4, <1>6, <1>9
    <2> QED BY <1>4, <2>1, <2>2, <2>3
  <1>15. SameTables(q, r)
    BY <1>6, <1>9, <1>10, <1>11, <1>13, <1>14 DEF SameTables, SameRest
  <1> QED BY <1>1, <1>2, <1>9, <1>15

(* r is q with the connection <<u, k>>. *)
Connected(q, r, u, k) ==
  /\ Good(r) /\ SameRest(q, r)
  /\ r.export = q.export \cup {<<u, k>>}
  /\ r.sounding = q.sounding

(* Connecting a user that is not connected: it fails only when there is no  *)
(* memory, and has then changed nothing.                                    *)
LEMMA ConnectEffect ==
  ASSUME NEW q, NEW u \in Users, NEW k \in SynthClients, NEW failure,
         Good(q),
         u \in q.clients \cap q.ports, k \in q.clients \cap q.ports,
         \A l \in SynthClients : <<u, l>> \notin q.export
  PROVE  /\ failure \in {"export", "import"} =>
              \E s \in Sequencer : /\ connect_ports(q, u, k, failure) = Failed(s)
                                   /\ SameTables(q, s)
         /\ failure \notin {"export", "import"} =>
              \E s : /\ connect_ports(q, u, k, failure) = Done(s)
                     /\ Connected(q, s, u, k)
  <1>1. /\ q \in Sequencer /\ q.use_count[k] \in Nat
        /\ q.use_count[k] = 0 => q.used[k] = 0 /\ q.sounding[k] = {}
        /\ q.use_count[k] > 0 => q.used[k] = 1
    BY UseOf
  <1>2. q.import = q.export /\ q.export \in SUBSET (Users \X SynthClients)
    BY <1>1 DEF Good, Counted, Sequencer
  <1>3. PICK r : r = snd_seq_port_subscribe(q, u)
    OBVIOUS
  <1>4. PICK s : s = snd_seq_port_use(r, k)
    OBVIOUS
  <1>5. PICK t : t = [s EXCEPT !.export = @ \cup {<<u, k>>}]
    OBVIOUS
  <1>6. PICK d : d = [t EXCEPT !.export = @ \ {<<u, k>>},
                               !.import = @ \ {<<u, k>>}]
    OBVIOUS
  <1>7. PICK e : e = [t EXCEPT !.import = @ \cup {<<u, k>>}]
    OBVIOUS
  <1>8. Subscribed(q, r, u)
    BY <1>1, <1>3, SubscribeEffect
  <1>9. /\ r \in Sequencer /\ r.use_count = q.use_count /\ r.used = q.used
        /\ r.sounding = q.sounding
    BY <1>8 DEF Subscribed
  <1>10. InUse(r, s, k)
    BY <1>1, <1>4, <1>9, UseEffect
  <1>11. ~Busy(r, k)
    BY <1>1, <1>9 DEF Busy
  <1>12. connect_ports(q, u, k, failure) =
           IF failure = "export"
           THEN Failed(snd_seq_port_unuse(snd_seq_port_unsubscribe(s, u), k))
           ELSE IF failure = "import" THEN Failed(Disconnect(t, u, k))
           ELSE Done(e)
    BY <1>2, <1>3, <1>4, <1>5, <1>7, <1>11 DEF connect_ports
  <1>13. /\ s \in Sequencer /\ SameRest(q, s)
         /\ s.export = q.export /\ s.import = q.import
         /\ s.subscribe_count = [q.subscribe_count EXCEPT ![u] = @ + 1]
         /\ s.use_count = [q.use_count EXCEPT ![k] = @ + 1]
         /\ s.used = [q.used EXCEPT ![k] = 1]
         /\ s.sounding = q.sounding
    BY <1>8, <1>10 DEF Subscribed, InUse, SameRest
  <1>14. /\ t \in Sequencer /\ SameRest(s, t)
         /\ t.export = s.export \cup {<<u, k>>} /\ t.import = s.import
         /\ t.subscribe_count = s.subscribe_count
         /\ t.use_count = s.use_count /\ t.used = s.used
         /\ t.sounding = s.sounding
    BY <1>5, <1>13 DEF Sequencer, SameRest
  <1>15. CASE failure = "export"
    <2>1. PICK f : f = snd_seq_port_unuse(snd_seq_port_unsubscribe(s, u), k)
      OBVIOUS
    <2>2. f \in Sequencer /\ SameTables(q, f)
      BY <1>13, <2>1, TakenBack
    <2>3. connect_ports(q, u, k, failure) = Failed(f)
      BY <1>12, <1>15, <2>1
    <2> QED BY <1>15, <2>2, <2>3
  <1>16. CASE failure = "import"
    <2>1. PICK f : f = snd_seq_port_unuse(snd_seq_port_unsubscribe(d, u), k)
      OBVIOUS
    <2>2. /\ d \in Sequencer /\ SameRest(t, d)
          /\ d.export = t.export \ {<<u, k>>} /\ d.import = t.import \ {<<u, k>>}
          /\ d.subscribe_count = t.subscribe_count
          /\ d.use_count = t.use_count /\ d.used = t.used
          /\ d.sounding = t.sounding
      BY <1>6, <1>14 DEF Sequencer, SameRest
    <2>3. d.export = q.export /\ d.import = q.import
      BY <1>2, <1>13, <1>14, <2>2
    <2>4. SameRest(q, d)
      BY <1>13, <1>14, <2>2 DEF SameRest
    <2>5. f \in Sequencer /\ SameTables(q, f)
      BY <1>13, <1>14, <2>1, <2>2, <2>3, <2>4, TakenBack
    <2>6. connect_ports(q, u, k, failure) = Failed(f)
      BY <1>6, <1>12, <1>16, <2>1 DEF Disconnect
    <2> QED BY <1>16, <2>5, <2>6
  <1>17. CASE failure \notin {"export", "import"}
    <2>1. connect_ports(q, u, k, failure) = Done(e)
      BY <1>12, <1>17
    <2>2. /\ e \in Sequencer /\ SameRest(t, e)
          /\ e.export = t.export /\ e.import = t.import \cup {<<u, k>>}
          /\ e.subscribe_count = t.subscribe_count
          /\ e.use_count = t.use_count /\ e.used = t.used
          /\ e.sounding = t.sounding
      BY <1>7, <1>14 DEF Sequencer, SameRest
    <2>3. SameRest(q, e)
      BY <1>13, <1>14, <2>2 DEF SameRest
    <2>4. e.export = q.export \cup {<<u, k>>} /\ e.import = e.export
      BY <1>2, <1>13, <1>14, <2>2
    <2>5. /\ e.subscribe_count = [q.subscribe_count EXCEPT ![u] = @ + 1]
          /\ e.use_count = [q.use_count EXCEPT ![k] = @ + 1]
          /\ e.used = [q.used EXCEPT ![k] = 1]
          /\ e.sounding = q.sounding
      BY <1>13, <1>14, <2>2
    <2>6. e \in Sequencer
      BY <2>2
    <2>7. Good(e)
      BY <2>3, <2>4, <2>5, <2>6, AddedEdge
    <2>8. Connected(q, e, u, k)
      BY <2>3, <2>4, <2>5, <2>7 DEF Connected
    <2> QED BY <1>17, <2>1, <2>8
  <1> QED BY <1>15, <1>16, <1>17

(* The same under the two locks. *)
LEMMA SubscribePortEffect ==
  ASSUME NEW q, NEW u \in Users, NEW k \in SynthClients, NEW failure,
         Good(q),
         u \in q.clients \cap q.ports, k \in q.clients \cap q.ports,
         \A l \in SynthClients : <<u, l>> \notin q.export
  PROVE  LET r == snd_seq_ioctl_subscribe_port(q, u, k, failure)
         IN  IF failure \in {"export", "import"}
             THEN r.ok = FALSE /\ r.seq \in Sequencer /\ SameTables(q, r.seq)
             ELSE r.ok = TRUE /\ Connected(q, r.seq, u, k)
  <1>1. PICK l : l = spin_lock(spin_lock(q, u), k)
    OBVIOUS
  <1>2. q \in Sequencer /\ u \in Numbers /\ k \in Numbers
    BY ClientNumbers DEF Good, Counted
  <1>3. l \in Sequencer /\ SameTables(q, l)
    <2>1. PICK m : m = spin_lock(q, u)
      OBVIOUS
    <2>2. m \in Sequencer /\ SameTables(q, m)
      BY <1>2, <2>1, LocksKeep
    <2>3. l \in Sequencer /\ SameTables(m, l)
      BY <1>1, <1>2, <2>1, <2>2, LocksKeep
    <2> QED BY <2>2, <2>3 DEF SameTables, SameRest
  <1>4. Good(l)
    BY <1>3, SameGood
  <1>5. /\ u \in l.clients \cap l.ports /\ k \in l.clients \cap l.ports
        /\ \A m \in SynthClients : <<u, m>> \notin l.export
    BY <1>3 DEF SameTables, SameRest
  <1>6. ASSUME NEW s \in Sequencer
        PROVE  LET v == spin_unlock(spin_unlock(s, u), k)
               IN  v \in Sequencer /\ SameTables(s, v)
    <2>1. PICK m : m = spin_unlock(s, u)
      OBVIOUS
    <2>2. m \in Sequencer /\ SameTables(s, m)
      BY <1>2, <2>1, LocksKeep
    <2>3. PICK v : v = spin_unlock(m, k)
      OBVIOUS
    <2>4. v \in Sequencer /\ SameTables(m, v)
      BY <1>2, <2>2, <2>3, LocksKeep
    <2>5. SameTables(s, v)
      BY <2>2, <2>4 DEF SameTables, SameRest
    <2> QED BY <2>1, <2>3, <2>4, <2>5
  <1>7. CASE failure \in {"export", "import"}
    <2>1. PICK s \in Sequencer : /\ connect_ports(l, u, k, failure) = Failed(s)
                                 /\ SameTables(l, s)
      BY <1>4, <1>5, <1>7, ConnectEffect
    <2>2. PICK v : v = spin_unlock(spin_unlock(s, u), k)
      OBVIOUS
    <2>3. v \in Sequencer /\ SameTables(s, v)
      BY <1>6, <2>2
    <2>4. /\ snd_seq_ioctl_subscribe_port(q, u, k, failure).seq = v
          /\ snd_seq_ioctl_subscribe_port(q, u, k, failure).ok = FALSE
      <3>1. PICK r : r = connect_ports(l, u, k, failure)
        OBVIOUS
      <3>2. r = [seq |-> s, ok |-> FALSE]
        BY <2>1, <3>1 DEF Failed
      <3>3. r.seq = s
        BY <3>2
      <3>4. snd_seq_ioctl_subscribe_port(q, u, k, failure) =
              [r EXCEPT !.seq = spin_unlock(spin_unlock(r.seq, u), k)]
        BY <1>1, <3>1 DEF snd_seq_ioctl_subscribe_port
      <3>5. [r EXCEPT !.seq = v].seq = v /\ [r EXCEPT !.seq = v].ok = FALSE
        BY <3>2
      <3> QED BY <2>2, <3>3, <3>4, <3>5
    <2>5. SameTables(q, v)
      BY <1>3, <2>1, <2>3 DEF SameTables, SameRest
    <2> QED BY <1>7, <2>3, <2>4, <2>5
  <1>8. CASE failure \notin {"export", "import"}
    <2>1. PICK s : /\ connect_ports(l, u, k, failure) = Done(s)
                   /\ Connected(l, s, u, k)
      BY <1>4, <1>5, <1>8, ConnectEffect
    <2>2. PICK v : v = spin_unlock(spin_unlock(s, u), k)
      OBVIOUS
    <2>3. s \in Sequencer
      BY <2>1 DEF Connected, Good, Counted
    <2>4. v \in Sequencer /\ SameTables(s, v)
      BY <1>6, <2>2, <2>3
    <2>5. /\ snd_seq_ioctl_subscribe_port(q, u, k, failure).seq = v
          /\ snd_seq_ioctl_subscribe_port(q, u, k, failure).ok = TRUE
      <3>1. PICK r : r = connect_ports(l, u, k, failure)
        OBVIOUS
      <3>2. r = [seq |-> s, ok |-> TRUE]
        BY <2>1, <3>1 DEF Done
      <3>3. r.seq = s
        BY <3>2
      <3>4. snd_seq_ioctl_subscribe_port(q, u, k, failure) =
              [r EXCEPT !.seq = spin_unlock(spin_unlock(r.seq, u), k)]
        BY <1>1, <3>1 DEF snd_seq_ioctl_subscribe_port
      <3>5. [r EXCEPT !.seq = v].seq = v /\ [r EXCEPT !.seq = v].ok = TRUE
        BY <3>2
      <3> QED BY <2>2, <3>3, <3>4, <3>5
    <2>6. Good(v)
      BY <2>1, <2>4, SameGood DEF Connected
    <2>7. Connected(q, v, u, k)
      BY <1>3, <2>1, <2>4, <2>6 DEF Connected, SameTables, SameRest
    <2> QED BY <1>8, <2>5, <2>7
  <1> QED BY <1>7, <1>8

(* r is q without the connection <<u, k>>; the last user resets the synth. *)
Disconnected(q, r, u, k) ==
  /\ Good(r) /\ SameRest(q, r)
  /\ r.export = q.export \ {<<u, k>>}
  /\ r.sounding = [q.sounding EXCEPT ![k] =
                     IF q.use_count[k] = 1 THEN {} ELSE @]

(* Disconnecting a user that is connected. *)
LEMMA UnsubscribePortEffect ==
  ASSUME NEW q, NEW u \in Users, NEW k \in SynthClients,
         Good(q), k \in q.clients, <<u, k>> \in q.export
  PROVE  Disconnected(q, snd_seq_ioctl_unsubscribe_port(q, u, k), u, k)
  <1>1. /\ q \in Sequencer /\ q.use_count[k] > 0 /\ q.used[k] = 1
        /\ q.subscribe_count[u] = 1
    BY UseOf, SubscriptionsOf
  <1>2. q.import = q.export /\ u \in Numbers /\ k \in Numbers
    BY ClientNumbers DEF Good, Counted
  <1>3. PICK l : l = spin_lock(spin_lock(q, u), k)
    OBVIOUS
  <1>4. l \in Sequencer /\ SameTables(q, l)
    <2>1. PICK m : m = spin_lock(q, u)
      OBVIOUS
    <2>2. m \in Sequencer /\ SameTables(q, m)
      BY <1>1, <1>2, <2>1, LocksKeep
    <2>3. l \in Sequencer /\ SameTables(m, l)
      BY <1>2, <1>3, <2>1, <2>2, LocksKeep
    <2> QED BY <2>2, <2>3 DEF SameTables, SameRest
  <1>5. PICK r : r = [l EXCEPT !.export = @ \ {<<u, k>>},
                               !.import = @ \ {<<u, k>>}]
    OBVIOUS
  <1>6. /\ r \in Sequencer /\ SameRest(l, r)
        /\ r.export = l.export \ {<<u, k>>} /\ r.import = l.import \ {<<u, k>>}
        /\ r.subscribe_count = l.subscribe_count
        /\ r.use_count = l.use_count /\ r.used = l.used
        /\ r.sounding = l.sounding
    BY <1>4, <1>5 DEF Sequencer, SameRest
  <1>7. /\ SameRest(q, r)
        /\ r.export = q.export \ {<<u, k>>} /\ r.import = r.export
        /\ r.subscribe_count = q.subscribe_count
        /\ r.use_count = q.use_count /\ r.used = q.used
        /\ r.sounding = q.sounding
    BY <1>2, <1>4, <1>6 DEF SameTables, SameRest
  <1>8. PICK s : s = snd_seq_port_unsubscribe(r, u)
    OBVIOUS
  <1>9. Unsubscribed(r, s, u)
    BY <1>1, <1>6, <1>7, <1>8, UnsubscribeEffect
  <1>10. PICK t : t = snd_seq_port_unuse(s, k)
    OBVIOUS
  <1>11. s \in Sequencer /\ s.use_count[k] > 0 /\ s.used[k] = 1
    BY <1>1, <1>7, <1>9 DEF Unsubscribed
  <1>12. OutOfUse(s, t, k)
    BY <1>10, <1>11, UnuseEffect
  <1>13. /\ t \in Sequencer /\ SameRest(q, t)
         /\ t.export = q.export \ {<<u, k>>} /\ t.import = t.export
         /\ t.subscribe_count = [q.subscribe_count EXCEPT ![u] = 0]
         /\ t.use_count = [q.use_count EXCEPT ![k] = @ - 1]
         /\ t.used = [q.used EXCEPT ![k] = IF q.use_count[k] = 1 THEN 0 ELSE 1]
         /\ t.sounding = [q.sounding EXCEPT ![k] =
                            IF q.use_count[k] = 1 THEN {} ELSE @]
    BY <1>7, <1>9, <1>12 DEF Unsubscribed, OutOfUse, SameRest
  <1>14. Good(t)
    BY <1>13, RemovedEdge
  <1>15. PICK m : m = spin_unlock(t, u)
    OBVIOUS
  <1>16. m \in Sequencer /\ SameTables(t, m)
    BY <1>2, <1>13, <1>15, LocksKeep
  <1>17. PICK v : v = spin_unlock(m, k)
    OBVIOUS
  <1>18. v \in Sequencer /\ SameTables(m, v)
    BY <1>2, <1>16, <1>17, LocksKeep
  <1>19. SameTables(t, v)
    BY <1>16, <1>18 DEF SameTables, SameRest
  <1>20. Good(v)
    BY <1>14, <1>18, <1>19, SameGood
  <1>21. Disconnected(q, v, u, k)
    BY <1>13, <1>19, <1>20 DEF Disconnected, SameTables, SameRest
  <1>22. <<u, k>> \in l.export /\ <<u, k>> \in l.import
    BY <1>2, <1>4 DEF SameTables
  <1>23. snd_seq_ioctl_unsubscribe_port(q, u, k) = v
    BY <1>3, <1>5, <1>8, <1>10, <1>15, <1>17, <1>22
       DEF snd_seq_ioctl_unsubscribe_port
  <1> QED BY <1>21, <1>23

(***************************************************************************)
(* A client that goes away.                                                *)
(***************************************************************************)
(* Six tables written at once. *)
Written(q, x, y, sc, uc, us, so) ==
  [q EXCEPT !.export = x, !.import = y, !.subscribe_count = sc,
            !.use_count = uc, !.used = us, !.sounding = so]

(* Nothing else is. *)
LEMMA WrittenEffect ==
  ASSUME NEW q \in Sequencer, NEW x \in SUBSET (Users \X SynthClients),
         NEW y \in SUBSET (Users \X SynthClients),
         NEW sc \in [Users -> Nat], NEW uc \in [SynthClients -> Nat],
         NEW us \in [SynthClients -> Int],
         NEW so \in [SynthClients -> SUBSET Notes]
  PROVE  LET r == Written(q, x, y, sc, uc, us, so)
         IN  /\ r \in Sequencer /\ SameRest(q, r)
             /\ r.export = x /\ r.import = y
             /\ r.subscribe_count = sc /\ r.use_count = uc
             /\ r.used = us /\ r.sounding = so
  BY DEF Sequencer, Written, SameRest

(* The connections of the clients cs, those of them that a user or a synth  *)
(* has, and what is left of a count.                                        *)
Gone(q, cs) == {e \in q.export \cup q.import : {e[1], e[2]} \cap cs # {}}
From(q, cs, u) == {e \in Gone(q, cs) : e[1] = u}
To(q, cs, k) == {e \in Gone(q, cs) : e[2] = k}
Less(n, m) == IF n > m THEN n - m ELSE 0
Reset(q, cs, k) ==
  0 < q.use_count[k] /\ q.use_count[k] <= Cardinality(To(q, cs, k))

(* r is q without the connections of the clients cs. *)
Cleared(q, r, cs) ==
  /\ r \in Sequencer /\ SameRest(q, r)
  /\ r.export = q.export \ Gone(q, cs) /\ r.import = q.import \ Gone(q, cs)
  /\ \A u \in Users : r.subscribe_count[u] =
       Less(q.subscribe_count[u], Cardinality(From(q, cs, u)))
  /\ \A k \in SynthClients :
       /\ r.use_count[k] = Less(q.use_count[k], Cardinality(To(q, cs, k)))
       /\ r.used[k] = IF Reset(q, cs, k) THEN q.used[k] - 1 ELSE q.used[k]
       /\ r.sounding[k] = IF Reset(q, cs, k) THEN {} ELSE q.sounding[k]

(* There are finitely many connections. *)
LEMMA GoneFinite ==
  ASSUME NEW q \in Sequencer, NEW cs
  PROVE  /\ \A u : /\ IsFiniteSet(From(q, cs, u))
                   /\ Cardinality(From(q, cs, u)) \in Nat
         /\ \A k : /\ IsFiniteSet(To(q, cs, k))
                   /\ Cardinality(To(q, cs, k)) \in Nat
  <1>1. IsFiniteSet(Users)
    BY MidiCallsAssumption, FS_Interval DEF Users
  <1>2. IsFiniteSet(SynthClients)
    <2>1. PICK a \in Int, b \in Int : a = 64 /\ b = 128
      OBVIOUS
    <2>2. IsFiniteSet(a .. b)
      BY FS_Interval
    <2>3. SynthClients \subseteq a .. b
      BY <2>1, MidiCallsAssumption DEF SynthClients, SynthClient
    <2> QED BY <2>2, <2>3, FS_Subset
  <1>3. IsFiniteSet(Users \X SynthClients)
    BY <1>1, <1>2, FS_Product
  <1>4. ASSUME NEW S, S \subseteq Users \X SynthClients
        PROVE  IsFiniteSet(S) /\ Cardinality(S) \in Nat
    BY <1>3, <1>4, FS_Subset, FS_CardinalityType
  <1>5. Gone(q, cs) \subseteq Users \X SynthClients
    BY DEF Gone, Sequencer
  <1>6. /\ \A u : From(q, cs, u) \subseteq Users \X SynthClients
        /\ \A k : To(q, cs, k) \subseteq Users \X SynthClients
    BY <1>5 DEF From, To
  <1> QED BY <1>4, <1>6

(* What clear_subscribers does. *)
LEMMA ClearEffect ==
  ASSUME NEW q \in Sequencer, NEW cs
  PROVE  Cleared(q, clear_subscribers(q, cs), cs)
  <1> DEFINE x == q.export \ Gone(q, cs)
             y == q.import \ Gone(q, cs)
             sc == [u \in Users |-> Less(q.subscribe_count[u],
                                         Cardinality(From(q, cs, u)))]
             uc == [k \in SynthClients |-> Less(q.use_count[k],
                                                Cardinality(To(q, cs, k)))]
             us == [k \in SynthClients |-> IF Reset(q, cs, k) THEN q.used[k] - 1
                                                              ELSE q.used[k]]
             so == [k \in SynthClients |-> IF Reset(q, cs, k) THEN {}
                                                              ELSE q.sounding[k]]
  <1>1. \A n, m \in Nat : Less(n, m) \in Nat
    BY DEF Less
  <1>2. /\ q.subscribe_count \in [Users -> Nat] /\ q.use_count \in [SynthClients -> Nat]
        /\ q.used \in [SynthClients -> Int]
        /\ q.sounding \in [SynthClients -> SUBSET Notes]
        /\ q.export \in SUBSET (Users \X SynthClients)
        /\ q.import \in SUBSET (Users \X SynthClients)
    BY DEF Sequencer
  <1>3. sc \in [Users -> Nat] /\ uc \in [SynthClients -> Nat]
    BY <1>1, <1>2, GoneFinite
  <1>4. us \in [SynthClients -> Int] /\ so \in [SynthClients -> SUBSET Notes]
    BY <1>2
  <1>5. x \in SUBSET (Users \X SynthClients) /\ y \in SUBSET (Users \X SynthClients)
    BY <1>2
  <1>6. clear_subscribers(q, cs) = Written(q, x, y, sc, uc, us, so)
    BY DEF clear_subscribers, Written, Gone, From, To, Less, Reset
  <1>7. PICK r : r = Written(q, x, y, sc, uc, us, so)
    OBVIOUS
  <1>8. /\ r \in Sequencer /\ SameRest(q, r)
        /\ r.export = x /\ r.import = y
        /\ r.subscribe_count = sc /\ r.use_count = uc
        /\ r.used = us /\ r.sounding = so
    <2> HIDE DEF x, y, sc, uc, us, so
    <2> QED BY <1>3, <1>4, <1>5, <1>7, WrittenEffect
  <1>9. Cleared(q, r, cs)
    BY <1>8 DEF Cleared
  <1> QED BY <1>6, <1>7, <1>9

(* r is q without the clients cs or their ports. *)
Without(q, r, cs) ==
  /\ Good(r)
  /\ r.clients \in {q.clients, q.clients \ cs} /\ r.ports = q.ports \ cs
  /\ r.export = q.export /\ r.sounding = q.sounding
  /\ r.sent = q.sent /\ r.fInstumentsLoaded = q.fInstumentsLoaded

(* Without connections there is nothing to clear. *)
LEMMA ClearNothing ==
  ASSUME NEW q \in Sequencer, NEW cs, Gone(q, cs) = {}
  PROVE  /\ clear_subscribers(q, cs) \in Sequencer
         /\ SameTables(q, clear_subscribers(q, cs))
  <1>1. PICK r : r = clear_subscribers(q, cs)
    OBVIOUS
  <1>2. Cleared(q, r, cs)
    BY <1>1, ClearEffect
  <1>3. /\ \A u : Cardinality(From(q, cs, u)) = 0
        /\ \A k : Cardinality(To(q, cs, k)) = 0
    BY FS_EmptySet DEF From, To
  <1>4. \A n \in Nat : Less(n, 0) = n
    BY DEF Less
  <1>5. /\ q.subscribe_count \in [Users -> Nat] /\ q.use_count \in [SynthClients -> Nat]
        /\ q.used \in [SynthClients -> Int]
        /\ q.sounding \in [SynthClients -> SUBSET Notes]
    BY DEF Sequencer
  <1>6. r \in Sequencer
    BY <1>2 DEF Cleared
  <1>7. /\ r.subscribe_count \in [Users -> Nat] /\ r.use_count \in [SynthClients -> Nat]
        /\ r.used \in [SynthClients -> Int]
        /\ r.sounding \in [SynthClients -> SUBSET Notes]
    BY <1>6 DEF Sequencer
  <1>8. \A k \in SynthClients : ~Reset(q, cs, k)
    BY <1>3, <1>5 DEF Reset
  <1>9. \A u \in Users : r.subscribe_count[u] = q.subscribe_count[u]
    BY <1>2, <1>3, <1>4, <1>5 DEF Cleared
  <1>10. \A k \in SynthClients : r.use_count[k] = q.use_count[k]
    BY <1>2, <1>3, <1>4, <1>5 DEF Cleared
  <1>11. \A k \in SynthClients : r.used[k] = q.used[k] /\ r.sounding[k] = q.sounding[k]
    BY <1>2, <1>8 DEF Cleared
  <1>12. /\ r.subscribe_count = q.subscribe_count /\ r.use_count = q.use_count
         /\ r.used = q.used /\ r.sounding = q.sounding
    BY <1>5, <1>7, <1>9, <1>10, <1>11
  <1>13. SameRest(q, r) /\ r.export = q.export /\ r.import = q.import
    BY <1>2 DEF Cleared
  <1> QED BY <1>1, <1>6, <1>12, <1>13 DEF SameTables

(* Deleting the port, and freeing the client, of a user without connections. *)
LEMMA DeletePortEffect ==
  ASSUME NEW q, NEW u \in Users, Good(q),
         \A k \in SynthClients : <<u, k>> \notin q.export
  PROVE  LET r == snd_seq_delete_port(q, {u})
         IN  Without(q, r, {u}) /\ r.clients = q.clients
  <1>1. q \in Sequencer /\ q.import = q.export
    BY DEF Good, Counted
  <1>2. PICK p : p = [q EXCEPT !.ports = @ \ {u}]
    OBVIOUS
  <1>3. /\ p \in Sequencer /\ p.clients = q.clients /\ p.ports = q.ports \ {u}
        /\ p.sent = q.sent /\ p.fInstumentsLoaded = q.fInstumentsLoaded
        /\ p.export = q.export /\ p.import = q.import
        /\ p.subscribe_count = q.subscribe_count
        /\ p.use_count = q.use_count /\ p.used = q.used
        /\ p.sounding = q.sounding
    BY <1>1, <1>2 DEF Sequencer
  <1>4. PICK r : r = clear_subscribers(p, {u})
    OBVIOUS
  <1>5. Gone(p, {u}) = {}
    <2>1. SUFFICES ASSUME NEW e \in q.export, e[1] = u \/ e[2] = u
                   PROVE  FALSE
      BY <1>1, <1>3 DEF Gone
    <2>2. e \in Users \X SynthClients
      BY <1>1 DEF Sequencer
    <2>3. e = <<e[1], e[2]>> /\ e[1] \in Users /\ e[2] \in SynthClients
      BY <2>2
    <2>4. e[2] # u
      BY <2>3, ClientNumbers
    <2> QED BY <2>1, <2>3, <2>4
  <1>6. r \in Sequencer /\ SameTables(p, r)
    BY <1>3, <1>4, <1>5, ClearNothing
  <1>7. /\ r.clients = q.clients /\ r.ports = q.ports \ {u}
        /\ r.sent = q.sent /\ r.fInstumentsLoaded = q.fInstumentsLoaded
        /\ r.export = q.export /\ r.import = q.import
        /\ r.subscribe_count = q.subscribe_count
        /\ r.use_count = q.use_count /\ r.used = q.used
        /\ r.sounding = q.sounding
    BY <1>3, <1>6 DEF SameTables, SameRest
  <1>8. Counted(r)
    BY <1>6, <1>7, SameCounted DEF Good
  <1>9. Attached(r)
    <2>1. SUFFICES ASSUME NEW v \in Users, NEW k \in SynthClients,
                          <<v, k>> \in q.export
                   PROVE  {v, k} \subseteq r.clients \cap r.ports
      BY <1>7 DEF Attached
    <2>2. v \in q.clients /\ k \in q.clients /\ v \in q.ports /\ k \in q.ports
      BY <2>1 DEF Good, Attached
    <2>3. v # u
      BY <2>1
    <2>4. k # u
      BY ClientNumbers
    <2> QED BY <1>7, <2>2, <2>3, <2>4
  <1>10. snd_seq_delete_port(q, {u}) = r
    BY <1>2, <1>4 DEF snd_seq_delete_port
  <1> QED BY <1>7, <1>8, <1>9, <1>10 DEF Without, Good

(* The client goes with its port. *)
LEMMA FreeClientEffect ==
  ASSUME NEW q, NEW u \in Users, Good(q),
         \A k \in SynthClients : <<u, k>> \notin q.export
  PROVE  LET r == seq_free_client(q, {u})
         IN  Without(q, r, {u}) /\ r.clients = q.clients \ {u}
  <1>1. PICK p : p = snd_seq_delete_port(q, {u})
    OBVIOUS
  <1>2. Without(q, p, {u}) /\ p.clients = q.clients
    BY <1>1, DeletePortEffect
  <1>3. Good(p) /\ p \in Sequencer
    BY <1>2 DEF Without, Good, Counted
  <1>4. PICK r : r = [p EXCEPT !.clients = @ \ {u}]
    OBVIOUS
  <1>5. /\ r \in Sequencer /\ r.clients = p.clients \ {u} /\ r.ports = p.ports
        /\ r.sent = p.sent /\ r.fInstumentsLoaded = p.fInstumentsLoaded
        /\ r.export = p.export /\ r.import = p.import
        /\ r.subscribe_count = p.subscribe_count
        /\ r.use_count = p.use_count /\ r.used = p.used
        /\ r.sounding = p.sounding
    BY <1>3, <1>4 DEF Sequencer
  <1>6. Counted(r)
    BY <1>3, <1>5, SameCounted DEF Good
  <1>7. Attached(r)
    <2>1. SUFFICES ASSUME NEW v \in Users, NEW k \in SynthClients,
                          <<v, k>> \in p.export
                   PROVE  {v, k} \subseteq r.clients \cap r.ports
      BY <1>5 DEF Attached
    <2>2. v \in p.clients /\ k \in p.clients /\ v \in p.ports /\ k \in p.ports
      BY <1>3, <2>1 DEF Good, Attached
    <2>3. v # u
      BY <1>2, <2>1 DEF Without
    <2>4. k # u
      BY ClientNumbers
    <2> QED BY <1>5, <2>2, <2>3, <2>4
  <1>8. seq_free_client(q, {u}) = r
    BY <1>1, <1>4 DEF seq_free_client
  <1> QED BY <1>2, <1>5, <1>6, <1>7, <1>8 DEF Without, Good

(***************************************************************************)
(* Closing a stream, and freeing the synths.                               *)
(***************************************************************************)
(* A stream whose synth is there. *)
LEMMA CloseEffect ==
  ASSUME NEW q, NEW u \in Users, NEW k \in SynthClients, NEW h,
         h.client = u, h.dest = k,
         Good(q), k \in q.clients, <<u, k>> \in q.export
  PROVE  LET r == CloseFm(q, h)
         IN  /\ Good(r)
             /\ r.clients = q.clients \ {u} /\ r.ports = q.ports \ {u}
             /\ r.export = q.export \ {<<u, k>>}
             /\ r.sent = q.sent
             /\ r.fInstumentsLoaded = q.fInstumentsLoaded
             /\ r.sounding = [q.sounding EXCEPT ![k] =
                                IF q.use_count[k] = 1 THEN {} ELSE @]
  <1>1. PICK a : a = snd_seq_ioctl_unsubscribe_port(q, u, k)
    OBVIOUS
  <1>2. Disconnected(q, a, u, k)
    BY <1>1, UnsubscribePortEffect
  <1>3. \A l \in SynthClients : <<u, l>> \notin a.export
    BY <1>2 DEF Disconnected, Good, Counted
  <1>4. Good(a)
    BY <1>2 DEF Disconnected
  <1>5. PICK b : b = snd_seq_delete_port(a, {u})
    OBVIOUS
  <1>6. Without(a, b, {u}) /\ b.clients = a.clients
    BY <1>3, <1>4, <1>5, DeletePortEffect
  <1>7. Good(b) /\ \A l \in SynthClients : <<u, l>> \notin b.export
    BY <1>3, <1>6 DEF Without
  <1>8. PICK c : c = seq_free_client(b, {u})
    OBVIOUS
  <1>9. Without(b, c, {u}) /\ c.clients = b.clients \ {u}
    BY <1>7, <1>8, FreeClientEffect
  <1>10. CloseFm(q, h) = c
    BY <1>1, <1>5, <1>8 DEF CloseFm
  <1>11. /\ c.ports = (q.ports \ {u}) \ {u} /\ c.clients = q.clients \ {u}
         /\ c.export = q.export \ {<<u, k>>} /\ c.sent = q.sent
         /\ c.fInstumentsLoaded = q.fInstumentsLoaded /\ Good(c)
         /\ c.sounding = [q.sounding EXCEPT ![k] =
                            IF q.use_count[k] = 1 THEN {} ELSE @]
    BY <1>2, <1>6, <1>9 DEF Without, Disconnected, SameRest
  <1>12. (q.ports \ {u}) \ {u} = q.ports \ {u}
    OBVIOUS
  <1> QED BY <1>10, <1>11, <1>12

(* A stream whose synth is gone. *)
LEMMA CloseWithoutSynth ==
  ASSUME NEW q, NEW u \in Users, NEW k \in SynthClients, NEW h,
         h.client = u, h.dest = k,
         Good(q), k \notin q.clients, q.export = {}
  PROVE  LET r == CloseFm(q, h)
         IN  /\ Good(r)
             /\ r.clients = q.clients \ {u}
             /\ r.export = {} /\ r.sent = q.sent
             /\ r.fInstumentsLoaded = q.fInstumentsLoaded
             /\ r.sounding = q.sounding
  <1>1. snd_seq_ioctl_unsubscribe_port(q, u, k) = q
    BY DEF snd_seq_ioctl_unsubscribe_port
  <1>2. PICK b : b = snd_seq_delete_port(q, {u})
    OBVIOUS
  <1>3. Without(q, b, {u}) /\ b.clients = q.clients
    BY <1>2, DeletePortEffect
  <1>4. Good(b) /\ b.export = {}
    BY <1>3 DEF Without
  <1>5. PICK c : c = seq_free_client(b, {u})
    OBVIOUS
  <1>6. Without(b, c, {u}) /\ c.clients = b.clients \ {u}
    BY <1>4, <1>5, FreeClientEffect
  <1>7. CloseFm(q, h) = c
    BY <1>1, <1>2, <1>5 DEF CloseFm
  <1> QED BY <1>3, <1>4, <1>6, <1>7 DEF Without

(* Every connection goes with the synths, and every count is zero. *)
LEMMA FreeSynths ==
  ASSUME NEW q, Good(q)
  PROVE  LET r == seq_free_client(q, SynthClients)
         IN  /\ Good(r) /\ r.export = {}
             /\ r.clients = q.clients \ SynthClients
             /\ r.sent = q.sent
             /\ r.fInstumentsLoaded = q.fInstumentsLoaded
  <1>1. q \in Sequencer /\ q.import = q.export
    BY DEF Good, Counted
  <1>2. PICK p : p = [q EXCEPT !.ports = @ \ SynthClients]
    OBVIOUS
  <1>3. /\ p \in Sequencer /\ p.clients = q.clients
        /\ p.sent = q.sent /\ p.fInstumentsLoaded = q.fInstumentsLoaded
        /\ p.export = q.export /\ p.import = q.import
        /\ p.subscribe_count = q.subscribe_count
        /\ p.use_count = q.use_count /\ p.used = q.used
        /\ p.sounding = q.sounding
    BY <1>1, <1>2 DEF Sequencer
  <1>4. Counted(p)
    BY <1>3, SameCounted DEF Good
  <1>5. PICK c : c = clear_subscribers(p, SynthClients)
    OBVIOUS
  <1>6. Cleared(p, c, SynthClients)
    BY <1>3, <1>5, ClearEffect
  <1>7. c \in Sequencer
    BY <1>6 DEF Cleared
  <1>8. Gone(p, SynthClients) = p.export
    <2>1. \A e \in p.export : e[2] \in SynthClients
      BY <1>3 DEF Sequencer
    <2> QED BY <1>1, <1>3, <2>1 DEF Gone
  <1>9. c.export = {} /\ c.import = {}
    BY <1>1, <1>3, <1>6, <1>8 DEF Cleared
  <1>10. ASSUME NEW u \in Users
         PROVE  c.subscribe_count[u] = 0
    <2>1. PICK n \in Nat : n = Cardinality(From(p, SynthClients, u))
      BY <1>3, GoneFinite
    <2>2. c.subscribe_count[u] = Less(p.subscribe_count[u], n)
      BY <1>6, <2>1 DEF Cleared
    <2>3. CASE \E k \in SynthClients : <<u, k>> \in p.export
      <3>1. p.subscribe_count[u] = 1
        BY <1>4, <2>3 DEF Counted
      <3>2. From(p, SynthClients, u) # {}
        BY <1>8, <2>3 DEF From
      <3>3. n # 0
        BY <1>3, <2>1, <3>2, GoneFinite, FS_EmptySet
      <3> QED BY <2>2, <3>1, <3>3 DEF Less
    <2>4. CASE ~\E k \in SynthClients : <<u, k>> \in p.export
      <3>1. p.subscribe_count[u] = 0
        BY <1>4, <2>4 DEF Counted
      <3> QED BY <2>2, <3>1 DEF Less
    <2> QED BY <2>3, <2>4
  <1>11. ASSUME NEW k \in SynthClients
         PROVE  /\ c.use_count[k] = 0 /\ c.used[k] = 0 /\ c.sounding[k] = {}
    <2>1. To(p, SynthClients, k) = {<<u, k>> : u \in Callers(p, k)}
      <3>1. \A e \in p.export : /\ e[1] \in Users
                                /\ e = <<e[1], e[2]>>
        BY <1>3 DEF Sequencer
      <3> QED BY <1>8, <3>1 DEF To, Callers
    <2>2. Cardinality(To(p, SynthClients, k)) = Cardinality(Callers(p, k))
      <3> DEFINE f == [u \in Callers(p, k) |-> <<u, k>>]
      <3>1. f \in Bijection(Callers(p, k), To(p, SynthClients, k))
        BY <2>1 DEF Bijection, Injection, Surjection, IsInjective
      <3> QED BY <3>1, CallersFinite, FS_Bijection DEF ExistsBijection
    <2>3. PICK n \in Nat : n = Cardinality(Callers(p, k))
      BY CallersFinite, MidiCallsAssumption
    <2>4. /\ p.use_count[k] = n
          /\ p.used[k] = IF n = 0 THEN 0 ELSE 1
          /\ n = 0 => p.sounding[k] = {}
      BY <1>4, <2>3, CallersFinite DEF Counted
    <2>5. Reset(p, SynthClients, k) <=> n # 0
      BY <2>2, <2>3, <2>4 DEF Reset
    <2>6. Less(p.use_count[k], n) = 0
      BY <2>4 DEF Less
    <2>7. /\ c.use_count[k] = 0
          /\ c.used[k] = IF n # 0 THEN p.used[k] - 1 ELSE p.used[k]
          /\ c.sounding[k] = IF n # 0 THEN {} ELSE p.sounding[k]
      BY <1>6, <2>2, <2>3, <2>5, <2>6 DEF Cleared
    <2> QED BY <2>4, <2>7
  <1>12. PICK r : r = [c EXCEPT !.clients = @ \ SynthClients]
    OBVIOUS
  <1>13. /\ r \in Sequencer /\ r.clients = c.clients \ SynthClients
         /\ r.sent = c.sent /\ r.fInstumentsLoaded = c.fInstumentsLoaded
         /\ r.export = {} /\ r.import = {}
         /\ r.subscribe_count = c.subscribe_count
         /\ r.use_count = c.use_count /\ r.used = c.used
         /\ r.sounding = c.sounding
    BY <1>7, <1>9, <1>12 DEF Sequencer
  <1>14. \A k \in SynthClients : Callers(r, k) = {}
    BY <1>13 DEF Callers
  <1>15. Good(r)
    BY <1>10, <1>11, <1>13, <1>14, FS_EmptySet DEF Good, Counted, Attached
  <1>16. seq_free_client(q, SynthClients) = r
    BY <1>2, <1>5, <1>12 DEF seq_free_client, snd_seq_delete_port
  <1>17. /\ c.clients = q.clients /\ c.sent = q.sent
         /\ c.fInstumentsLoaded = q.fInstumentsLoaded
    BY <1>3, <1>6 DEF Cleared, SameRest
  <1> QED BY <1>13, <1>15, <1>16, <1>17

(***************************************************************************)
(* Opening a stream.                                                       *)
(***************************************************************************)
FmHandle(u, k) == [type |-> "fm", client |-> u, dest |-> k]

(* r is q after an open that failed: a client may have stayed behind. *)
Unopened(q, r) ==
  /\ Good(r) /\ q.clients \subseteq r.clients /\ q.ports \subseteq r.ports
  /\ r.export = q.export /\ r.sounding = q.sounding
  /\ r.sent = q.sent /\ r.fInstumentsLoaded = q.fInstumentsLoaded

(* r is q after an open that connected the new client u to the synth k. *)
Opened(q, r, u, k) ==
  /\ Good(r) /\ r.clients = q.clients \cup {u} /\ r.ports = q.ports \cup {u}
  /\ r.export = q.export \cup {<<u, k>>} /\ r.sounding = q.sounding
  /\ r.fInstumentsLoaded
  /\ r.sent = IF q.fInstumentsLoaded THEN q.sent ELSE q.sent \cup {k}

(* More clients and ports do no harm. *)
LEMMA MoreClients ==
  ASSUME NEW q, NEW r \in Sequencer, Good(q),
         q.clients \subseteq r.clients, q.ports \subseteq r.ports,
         r.export = q.export, r.import = q.import,
         r.subscribe_count = q.subscribe_count,
         r.use_count = q.use_count, r.used = q.used, r.sounding = q.sounding
  PROVE  Good(r)
  <1>1. Counted(r)
    BY SameCounted DEF Good
  <1>2. Attached(r)
    BY DEF Good, Attached
  <1> QED BY <1>1, <1>2 DEF Good

(* Whatever card asked: the search starts at the first synth of all. *)
LEMMA FirstSynth ==
  ASSUME NEW q, NEW card \in Cards, SynthClients \subseteq q.clients,
         FindFm(q, card) # {}
  PROVE  /\ Min(FindFm(q, card)) \in SynthClients
         /\ Min(FindFm(q, card)) = Min(SynthClients)
  <1>1. PICK F : F = FindFm(q, card)
    OBVIOUS
  <1>2. PICK b \in Int : b = 64 + 8 * (card + 1)
    BY MidiCallsAssumption
  <1>3. F = {k \in SynthClients : k < b}
    BY <1>1, <1>2 DEF FindFm
  <1>4. SynthClients \in SUBSET Nat /\ F \in SUBSET Nat /\ F # {} /\ SynthClients # {}
    BY <1>1, <1>3, ClientNumbers
  <1>5. PICK k : k = Min(F)
    OBVIOUS
  <1>6. PICK m : m = Min(SynthClients)
    OBVIOUS
  <1>7. k \in F /\ \A x \in F : k <= x
    BY <1>4, <1>5, MinMeaning
  <1>8. m \in SynthClients /\ \A x \in SynthClients : m <= x
    BY <1>4, <1>6, MinMeaning
  <1>9. k \in SynthClients /\ k \in Nat /\ m \in Nat /\ k < b
    BY <1>3, <1>4, <1>7, <1>8
  <1>10. m <= k
    BY <1>8, <1>9
  <1>11. m \in F
    BY <1>2, <1>3, <1>8, <1>9, <1>10
  <1>12. k = m
    BY <1>7, <1>9, <1>10, <1>11
  <1> QED BY <1>1, <1>5, <1>6, <1>9, <1>12

(* Sending the instruments, all of them or not, changes their entries only. *)
LEMMA LoadEffect ==
  ASSUME NEW q \in Sequencer, NEW k \in SynthClients, NEW failure
  PROVE  LET r == OSS32_FMMidiLoadInstruments(q, k, failure)
         IN  /\ r \in Sequencer /\ r.fInstumentsLoaded
             /\ r.sent = IF q.fInstumentsLoaded THEN q.sent
                                                  ELSE q.sent \cup {k}
             /\ r.clients = q.clients /\ r.ports = q.ports
             /\ r.export = q.export /\ r.import = q.import
             /\ r.subscribe_count = q.subscribe_count
             /\ r.use_count = q.use_count /\ r.used = q.used
             /\ r.sounding = q.sounding
  <1>1. CASE q.fInstumentsLoaded
    BY <1>1 DEF OSS32_FMMidiLoadInstruments
  <1>2. CASE ~q.fInstumentsLoaded
    <2> DEFINE b == failure = "patch"
    <2>0. b \in BOOLEAN
      BY Zenon
    <2> HIDE DEF b
    <2>1. PICK r : r = [q EXCEPT !.fInstumentsLoaded = TRUE, !.sent = @ \cup {k},
                                 !.missing = b]
      OBVIOUS
    <2>2. /\ r \in Sequencer /\ r.fInstumentsLoaded
          /\ r.sent = q.sent \cup {k}
          /\ r.clients = q.clients /\ r.ports = q.ports
          /\ r.export = q.export /\ r.import = q.import
          /\ r.subscribe_count = q.subscribe_count
          /\ r.use_count = q.use_count /\ r.used = q.used
          /\ r.sounding = q.sounding
      BY <2>0, <2>1 DEF Sequencer
    <2>3. OSS32_FMMidiLoadInstruments(q, k, failure) = r
      BY <1>2, <2>1 DEF OSS32_FMMidiLoadInstruments, b
    <2> QED BY <1>2, <2>2, <2>3
  <1> QED BY <1>1, <1>2

(* An open either fails and changes no table but those of clients and       *)
(* ports, or connects a new client to the first synth of all.               *)
LEMMA OpenEffect ==
  ASSUME NEW q, NEW card \in Cards, NEW failure, Good(q),
         SynthClients \subseteq q.clients, SynthClients \subseteq q.ports
  PROVE  LET r == OpenFm(q, card, failure)
         IN  \/ r.handle = NoHandle /\ Unopened(q, r.seq)
             \/ \E u \in Users \ q.clients, k \in SynthClients :
                  /\ r.handle = FmHandle(u, k) /\ k = Min(SynthClients)
                  /\ Opened(q, r.seq, u, k)
  <1>1. q \in Sequencer
    BY DEF Good, Counted
  <1>2. PICK free : free = Users \ q.clients
    OBVIOUS
  <1>3. PICK u : u = Min(free)
    OBVIOUS
  <1>4. PICK o : o = [q EXCEPT !.clients = @ \cup {u}]
    OBVIOUS
  <1>5. PICK k : k = Min(FindFm(o, card))
    OBVIOUS
  <1>6. PICK p : p = [o EXCEPT !.ports = @ \cup {u}]
    OBVIOUS
  <1>7. PICK s : s = snd_seq_ioctl_subscribe_port(p, u, k, failure)
    OBVIOUS
  <1>8. OpenFm(q, card, failure) =
          IF failure \in {"handle", "client"} \/ free = {}
          THEN [seq |-> q, handle |-> NoHandle]
          ELSE IF FindFm(o, card) = {} \/ failure = "port"
          THEN [seq |-> o, handle |-> NoHandle]
          ELSE IF ~s.ok
          THEN [seq |-> s.seq, handle |-> NoHandle]
          ELSE [seq |-> OSS32_FMMidiLoadInstruments(s.seq, k, failure),
                handle |-> FmHandle(u, k)]
    BY <1>2, <1>3, <1>4, <1>5, <1>6, <1>7 DEF OpenFm, FmHandle
  <1>9. CASE failure \in {"handle", "client"} \/ free = {}
    <2>1. OpenFm(q, card, failure) = [seq |-> q, handle |-> NoHandle]
      BY <1>8, <1>9
    <2>2. Unopened(q, q)
      BY DEF Unopened
    <2> QED BY <2>1, <2>2
  <1>10. CASE ~(failure \in {"handle", "client"} \/ free = {})
    <2>1. u \in Users /\ u \notin q.clients
      <3>1. free \in SUBSET Nat /\ free # {}
        BY <1>2, <1>10, ClientNumbers
      <3> QED BY <1>2, <1>3, <3>1, MinMeaning
    <2>2. u \in Numbers
      BY <2>1, ClientNumbers
    <2>3. /\ o \in Sequencer /\ o.clients = q.clients \cup {u} /\ o.ports = q.ports
          /\ o.sent = q.sent /\ o.fInstumentsLoaded = q.fInstumentsLoaded
          /\ o.export = q.export /\ o.import = q.import
          /\ o.subscribe_count = q.subscribe_count
          /\ o.use_count = q.use_count /\ o.used = q.used
          /\ o.sounding = q.sounding
      BY <1>1, <1>4, <2>2 DEF Sequencer
    <2>4. Good(o)
      BY <2>3, MoreClients
    <2>5. CASE FindFm(o, card) = {} \/ failure = "port"
      <3>1. OpenFm(q, card, failure) = [seq |-> o, handle |-> NoHandle]
        BY <1>8, <1>10, <2>5
      <3>2. Unopened(q, o)
        BY <2>3, <2>4 DEF Unopened
      <3> QED BY <3>1, <3>2
    <2>6. CASE ~(FindFm(o, card) = {} \/ failure = "port")
      <3>1. k \in SynthClients /\ k = Min(SynthClients)
        <4>1. SynthClients \subseteq o.clients
          BY <2>3
        <4> QED BY <1>5, <2>6, <4>1, FirstSynth
      <3>2. /\ p \in Sequencer /\ p.clients = o.clients /\ p.ports = o.ports \cup {u}
            /\ p.sent = o.sent /\ p.fInstumentsLoaded = o.fInstumentsLoaded
            /\ p.export = o.export /\ p.import = o.import
            /\ p.subscribe_count = o.subscribe_count
            /\ p.use_count = o.use_count /\ p.used = o.used
            /\ p.sounding = o.sounding
        BY <1>6, <2>2, <2>3 DEF Sequencer
      <3>3. Good(p)
        BY <2>4, <3>2, MoreClients
      <3>4. u \in p.clients \cap p.ports /\ k \in p.clients \cap p.ports
        BY <2>3, <3>1, <3>2
      <3>5. \A l \in SynthClients : <<u, l>> \notin p.export
        BY <2>1, <2>3, <3>2 DEF Good, Attached
      <3>6. CASE failure \in {"export", "import"}
        <4>1. s.ok = FALSE /\ s.seq \in Sequencer /\ SameTables(p, s.seq)
          BY <1>7, <2>1, <3>1, <3>3, <3>4, <3>5, <3>6, SubscribePortEffect
        <4>2. OpenFm(q, card, failure) = [seq |-> s.seq, handle |-> NoHandle]
          BY <1>8, <1>10, <2>6, <4>1
        <4>3. Good(s.seq)
          BY <3>3, <4>1, SameGood
        <4>4. Unopened(q, s.seq)
          BY <2>3, <3>2, <4>1, <4>3 DEF Unopened, SameTables, SameRest
        <4> QED BY <4>2, <4>4
      <3>7. CASE failure \notin {"export", "import"}
        <4>1. s.ok = TRUE /\ Connected(p, s.seq, u, k)
          BY <1>7, <2>1, <3>1, <3>3, <3>4, <3>5, <3>7, SubscribePortEffect
        <4>2. PICK t : t = s.seq
          OBVIOUS
        <4>3. PICK r : r = OSS32_FMMidiLoadInstruments(t, k, failure)
          OBVIOUS
        <4>4. OpenFm(q, card, failure) = [seq |-> r, handle |-> FmHandle(u, k)]
          BY <1>8, <1>10, <2>6, <4>1, <4>2, <4>3
        <4>5. Good(t) /\ t \in Sequencer
          BY <4>1, <4>2 DEF Connected, Good, Counted
        <4>6. /\ r \in Sequencer /\ r.fInstumentsLoaded
              /\ r.sent = IF t.fInstumentsLoaded THEN t.sent
                                                   ELSE t.sent \cup {k}
              /\ r.clients = t.clients /\ r.ports = t.ports
              /\ r.export = t.export /\ r.import = t.import
              /\ r.subscribe_count = t.subscribe_count
              /\ r.use_count = t.use_count /\ r.used = t.used
              /\ r.sounding = t.sounding
          BY <3>1, <4>3, <4>5, LoadEffect
        <4>7. Good(r)
          BY <4>5, <4>6, MoreClients
        <4>8. Opened(q, r, u, k)
          BY <2>3, <3>2, <4>1, <4>2, <4>6, <4>7 DEF Opened, Connected, SameRest
        <4> QED BY <2>1, <3>1, <4>4, <4>8
      <3> QED BY <3>6, <3>7
    <2> QED BY <2>5, <2>6
  <1> QED BY <1>9, <1>10

(***************************************************************************)
(* The open streams.  An FM stream stands for a connection as long as the  *)
(* synths are there, every one of them plays on the first synth, and that  *)
(* one is where the instruments were sent.                                 *)
(***************************************************************************)
MpuHandle(p) == [type |-> "mpu", port |-> p]
Directions == {"in", "out"}

StreamOK(q, u, k, hl) ==
  /\ u \in q.clients /\ (~hl => <<u, k>> \in q.export)
  /\ k = Min(SynthClients) /\ q.fInstumentsLoaded

Held(q, hs, hl) ==
  /\ Good(q)
  /\ \A h \in hs : \/ \E u \in Users, k \in SynthClients : h = FmHandle(u, k)
                   \/ \E p \in Mpus \X Directions : h = MpuHandle(p)
  /\ \A u \in Users, k \in SynthClients :
       /\ FmHandle(u, k) \in hs => StreamOK(q, u, k, hl)
       /\ <<u, k>> \in q.export => FmHandle(u, k) \in hs
  /\ q.fInstumentsLoaded => Min(SynthClients) \in q.sent
  /\ ~hl => SynthClients \subseteq q.clients /\ SynthClients \subseteq q.ports
  /\ hl => SynthClients \cap q.clients = {} /\ q.export = {}

(* The inductive invariant. *)
MInv ==
  /\ Held(seq, handles, halted)
  /\ \A p \in Mpus \X Directions : MpuHandle(p) \in handles => p \in raw
  /\ raw \subseteq Mpus \X Directions /\ halted \in BOOLEAN

(* What a handle says of itself. *)
LEMMA HandleFields ==
  /\ \A u, k : /\ FmHandle(u, k).type = "fm" /\ FmHandle(u, k).client = u
               /\ FmHandle(u, k).dest = k /\ FmHandle(u, k) # NoHandle
  /\ \A p : MpuHandle(p).type = "mpu" /\ MpuHandle(p).port = p
  /\ \A u, k, p : FmHandle(u, k) # MpuHandle(p)
  <1>1. \A u, k : /\ FmHandle(u, k).type = "fm" /\ FmHandle(u, k).client = u
                  /\ FmHandle(u, k).dest = k
    BY DEF FmHandle
  <1>2. \A p : MpuHandle(p).type = "mpu" /\ MpuHandle(p).port = p
    BY DEF MpuHandle
  <1>3. NoHandle.type = "none"
    BY DEF NoHandle
  <1>4. "fm" # "none" /\ "fm" # "mpu"
    OBVIOUS
  <1> QED BY <1>1, <1>2, <1>3, <1>4

(* Of two streams on a synth none is the last. *)
LEMMA TwoCallers ==
  ASSUME NEW q, Good(q), NEW k \in SynthClients,
         NEW u \in Users, NEW v \in Users, u # v,
         <<u, k>> \in q.export, <<v, k>> \in q.export
  PROVE  q.use_count[k] # 1
  <1>1. u \in Callers(q, k) /\ v \in Callers(q, k)
    BY DEF Callers
  <1>2. Cardinality(Callers(q, k)) # 1
    BY <1>1, CallersFinite, FS_Singleton
  <1> QED BY <1>2 DEF Good, Counted

(* Entering the driver. *)
LEMMA EnteredKeeps ==
  ASSUME NEW q, NEW hs, NEW hl, Held(q, hs, hl)
  PROVE  /\ Held(Entered(q), hs, hl) /\ SameTables(q, Entered(q))
         /\ Entered(q) \in Sequencer
  <1>1. PICK r : r = Entered(q)
    OBVIOUS
  <1>2. Good(q) /\ q \in Sequencer
    BY DEF Held, Good, Counted
  <1>3. r \in Sequencer /\ SameTables(q, r)
    BY <1>1, <1>2 DEF Entered, SameTables, SameRest, Sequencer
  <1>4. Good(r)
    BY <1>2, <1>3, SameGood
  <1>5. /\ r.clients = q.clients /\ r.ports = q.ports /\ r.export = q.export
        /\ r.sent = q.sent /\ r.fInstumentsLoaded = q.fInstumentsLoaded
    BY <1>3 DEF SameTables, SameRest
  <1>6. Held(r, hs, hl)
    BY <1>4, <1>5 DEF Held, StreamOK
  <1> QED BY <1>1, <1>3, <1>6

(* The outcome o of an open: nothing, or a new stream. *)
OpenOutcome(q, hs, o) ==
  /\ o.seq.sounding = q.sounding
  /\ \/ o.handle = NoHandle /\ Held(o.seq, hs, FALSE)
     \/ \E u \in Users, k \in SynthClients :
          /\ o.handle = FmHandle(u, k) /\ o.handle \notin hs
          /\ Held(o.seq, hs \cup {o.handle}, FALSE)

(* Opening. *)
LEMMA OpenKeeps ==
  ASSUME NEW q, NEW hs, NEW card \in Cards, NEW failure, Held(q, hs, FALSE)
  PROVE  OpenOutcome(q, hs, OpenFm(q, card, failure))
  <1>1. /\ Good(q)
        /\ SynthClients \subseteq q.clients /\ SynthClients \subseteq q.ports
    BY DEF Held
  <1>2. PICK o : o = OpenFm(q, card, failure)
    OBVIOUS
  <1>3. PICK r : r = o.seq
    OBVIOUS
  <1>4. \/ o.handle = NoHandle /\ Unopened(q, r)
        \/ \E u \in Users \ q.clients, k \in SynthClients :
             /\ o.handle = FmHandle(u, k) /\ k = Min(SynthClients)
             /\ Opened(q, r, u, k)
    BY <1>1, <1>2, <1>3, OpenEffect
  <1>5. CASE o.handle = NoHandle /\ Unopened(q, r)
    <2>1. /\ Good(r) /\ r.export = q.export /\ r.sounding = q.sounding
          /\ r.sent = q.sent /\ r.fInstumentsLoaded = q.fInstumentsLoaded
          /\ q.clients \subseteq r.clients /\ q.ports \subseteq r.ports
      BY <1>5 DEF Unopened
    <2>2. Held(r, hs, FALSE)
      BY <2>1 DEF Held, StreamOK
    <2> QED BY <1>2, <1>3, <1>5, <2>1, <2>2 DEF OpenOutcome
  <1>6. ASSUME NEW u \in Users \ q.clients, NEW k \in SynthClients,
               o.handle = FmHandle(u, k), k = Min(SynthClients),
               Opened(q, r, u, k)
        PROVE  /\ r.sounding = q.sounding /\ FmHandle(u, k) \notin hs
               /\ Held(r, hs \cup {FmHandle(u, k)}, FALSE)
    <2>1. /\ Good(r) /\ r.export = q.export \cup {<<u, k>>}
          /\ r.sounding = q.sounding /\ r.fInstumentsLoaded
          /\ r.sent = IF q.fInstumentsLoaded THEN q.sent ELSE q.sent \cup {k}
          /\ r.clients = q.clients \cup {u} /\ r.ports = q.ports \cup {u}
      BY <1>6 DEF Opened
    <2>2. FmHandle(u, k) \notin hs
      BY DEF Held, StreamOK
    <2>3. ASSUME NEW v \in Users, NEW l \in SynthClients
          PROVE  /\ FmHandle(v, l) \in hs \cup {FmHandle(u, k)} =>
                      StreamOK(r, v, l, FALSE)
                 /\ <<v, l>> \in r.export =>
                      FmHandle(v, l) \in hs \cup {FmHandle(u, k)}
      <3>1. CASE v = u /\ l = k
        BY <1>6, <2>1, <3>1 DEF StreamOK
      <3>2. CASE ~(v = u /\ l = k)
        <4>1. FmHandle(v, l) # FmHandle(u, k)
          BY <3>2, HandleFields
        <4>2. <<v, l>> # <<u, k>>
          BY <3>2
        <4>3. FmHandle(v, l) \in hs => StreamOK(q, v, l, FALSE)
          BY DEF Held
        <4>4. <<v, l>> \in q.export => FmHandle(v, l) \in hs
          BY DEF Held
        <4> QED BY <2>1, <4>1, <4>2, <4>3, <4>4 DEF StreamOK
      <3> QED BY <3>1, <3>2
    <2>4. \A h \in hs \cup {FmHandle(u, k)} :
            \/ \E v \in Users, l \in SynthClients : h = FmHandle(v, l)
            \/ \E p \in Mpus \X Directions : h = MpuHandle(p)
      BY DEF Held
    <2>5. Min(SynthClients) \in r.sent
      BY <1>6, <2>1 DEF Held
    <2>6. SynthClients \subseteq r.clients /\ SynthClients \subseteq r.ports
      BY <1>1, <2>1
    <2> QED BY <2>1, <2>2, <2>3, <2>4, <2>5, <2>6 DEF Held
  <1> QED BY <1>2, <1>3, <1>4, <1>5, <1>6 DEF OpenOutcome

(* The outcome r of a close that leaves the streams hs, and their notes. *)
CloseOutcome(q, hs, hl, r) ==
  /\ Held(r, hs, hl)
  /\ \A v \in Users, l \in SynthClients :
       FmHandle(v, l) \in hs => r.sounding[l] = q.sounding[l]

(* Closing. *)
LEMMA CloseKeeps ==
  ASSUME NEW q, NEW hs, NEW hl, Held(q, hs, hl), hl \in BOOLEAN,
         NEW u \in Users, NEW k \in SynthClients, FmHandle(u, k) \in hs
  PROVE  CloseOutcome(q, hs \ {FmHandle(u, k)}, hl, CloseFm(q, FmHandle(u, k)))
  <1>1. Good(q) /\ StreamOK(q, u, k, hl) /\ q \in Sequencer
    BY DEF Held, Good, Counted
  <1>2. PICK h : h = FmHandle(u, k)
    OBVIOUS
  <1>3. h.client = u /\ h.dest = k
    BY <1>2, HandleFields
  <1>4. PICK r : r = CloseFm(q, h)
    OBVIOUS
  <1>5. \A v \in Users, l \in SynthClients :
          FmHandle(v, l) \in hs \ {h} => v # u /\ StreamOK(q, v, l, hl)
    <2>1. SUFFICES ASSUME NEW v \in Users, NEW l \in SynthClients,
                          FmHandle(v, l) \in hs, FmHandle(v, l) # h
                   PROVE  v # u /\ StreamOK(q, v, l, hl)
      OBVIOUS
    <2>2. StreamOK(q, v, l, hl)
      BY <2>1 DEF Held
    <2>3. l = k
      BY <1>1, <2>2 DEF StreamOK
    <2> QED BY <1>2, <2>1, <2>2, <2>3
  <1>6. \A g \in hs \ {h} : \/ \E v \in Users, l \in SynthClients : g = FmHandle(v, l)
                            \/ \E p \in Mpus \X Directions : g = MpuHandle(p)
    BY DEF Held
  <1>7. CASE ~hl
    <2>1. k \in q.clients /\ <<u, k>> \in q.export
      BY <1>1, <1>7 DEF Held, StreamOK
    <2>2. /\ Good(r)
          /\ r.clients = q.clients \ {u} /\ r.ports = q.ports \ {u}
          /\ r.export = q.export \ {<<u, k>>} /\ r.sent = q.sent
          /\ r.fInstumentsLoaded = q.fInstumentsLoaded
          /\ r.sounding = [q.sounding EXCEPT ![k] =
                             IF q.use_count[k] = 1 THEN {} ELSE @]
      BY <1>1, <1>3, <1>4, <2>1, CloseEffect
    <2>3. ASSUME NEW v \in Users, NEW l \in SynthClients
          PROVE  /\ FmHandle(v, l) \in hs \ {h} => StreamOK(r, v, l, hl)
                 /\ <<v, l>> \in r.export => FmHandle(v, l) \in hs \ {h}
      <3>1. FmHandle(v, l) \in hs \ {h} => StreamOK(r, v, l, hl)
        <4>1. SUFFICES ASSUME FmHandle(v, l) \in hs \ {h}
                       PROVE  StreamOK(r, v, l, hl)
          OBVIOUS
        <4>2. v # u /\ StreamOK(q, v, l, hl)
          BY <1>5, <4>1
        <4>3. <<v, l>> # <<u, k>>
          BY <4>2
        <4> QED BY <2>2, <4>2, <4>3 DEF StreamOK
      <3>2. <<v, l>> \in r.export => FmHandle(v, l) \in hs \ {h}
        <4>1. SUFFICES ASSUME <<v, l>> \in q.export, <<v, l>> # <<u, k>>
                       PROVE  FmHandle(v, l) \in hs \ {h}
          BY <2>2
        <4>2. FmHandle(v, l) \in hs
          BY <4>1 DEF Held
        <4>3. v # u \/ l # k
          BY <4>1
        <4>4. FmHandle(v, l) # FmHandle(u, k)
          BY <4>3, HandleFields
        <4> QED BY <1>2, <4>2, <4>4
      <3> QED BY <3>1, <3>2
    <2>4. SynthClients \subseteq r.clients /\ SynthClients \subseteq r.ports
      <3>1. SynthClients \subseteq q.clients /\ SynthClients \subseteq q.ports
        BY <1>7 DEF Held
      <3> QED BY <2>2, <3>1, ClientNumbers
    <2>5. r.fInstumentsLoaded => Min(SynthClients) \in r.sent
      BY <2>2 DEF Held
    <2>6. Held(r, hs \ {h}, hl)
      BY <1>6, <1>7, <2>2, <2>3, <2>4, <2>5 DEF Held
    <2>7. ASSUME NEW v \in Users, NEW l \in SynthClients,
                 FmHandle(v, l) \in hs \ {h}
          PROVE  r.sounding[l] = q.sounding[l]
      <3>1. v # u /\ StreamOK(q, v, l, hl)
        BY <1>5, <2>7
      <3>2. l = k /\ <<v, k>> \in q.export
        BY <1>1, <1>7, <3>1 DEF StreamOK
      <3>3. q.use_count[k] # 1
        BY <1>1, <2>1, <3>1, <3>2, TwoCallers
      <3>4. q.sounding \in [SynthClients -> SUBSET Notes]
        BY <1>1 DEF Sequencer
      <3> QED BY <2>2, <3>2, <3>3, <3>4
    <2> QED BY <1>2, <1>4, <2>6, <2>7 DEF CloseOutcome
  <1>8. CASE hl
    <2>1. k \notin q.clients /\ q.export = {}
      BY <1>8 DEF Held
    <2>2. /\ Good(r) /\ r.clients = q.clients \ {u}
          /\ r.export = {} /\ r.sent = q.sent
          /\ r.fInstumentsLoaded = q.fInstumentsLoaded
          /\ r.sounding = q.sounding
      BY <1>1, <1>3, <1>4, <2>1, CloseWithoutSynth
    <2>3. \A v \in Users, l \in SynthClients :
            FmHandle(v, l) \in hs \ {h} => StreamOK(r, v, l, hl)
      BY <1>5, <1>8, <2>2 DEF StreamOK
    <2>4. SynthClients \cap r.clients = {}
      BY <1>8, <2>2 DEF Held
    <2>5. r.fInstumentsLoaded => Min(SynthClients) \in r.sent
      BY <2>2 DEF Held
    <2>6. Held(r, hs \ {h}, hl)
      BY <1>6, <1>8, <2>2, <2>3, <2>4, <2>5 DEF Held
    <2> QED BY <1>2, <1>4, <2>2, <2>6 DEF CloseOutcome
  <1> QED BY <1>7, <1>8

(* Playing or stopping a note. *)
LEMMA NoteKeeps ==
  ASSUME NEW q, NEW hs, NEW hl, Held(q, hs, hl), hl \in BOOLEAN,
         NEW u \in Users, NEW k \in SynthClients, FmHandle(u, k) \in hs,
         k \in q.clients, NEW S \in SUBSET Notes
  PROVE  Held(spin_unlock([spin_lock(q, k) EXCEPT !.sounding[k] = S], k), hs, hl)
  <1>1. Good(q) /\ q \in Sequencer /\ k \in Numbers
    BY ClientNumbers DEF Held, Good, Counted
  <1>2. ~hl
    BY DEF Held
  <1>3. <<u, k>> \in q.export
    BY <1>2 DEF Held, StreamOK
  <1>4. PICK l : l = spin_lock(q, k)
    OBVIOUS
  <1>5. l \in Sequencer /\ SameTables(q, l)
    BY <1>1, <1>4, LocksKeep
  <1>6. PICK m : m = [l EXCEPT !.sounding[k] = S]
    OBVIOUS
  <1>7. /\ m \in Sequencer /\ SameRest(l, m)
        /\ m.export = l.export /\ m.import = l.import
        /\ m.subscribe_count = l.subscribe_count
        /\ m.use_count = l.use_count /\ m.used = l.used
        /\ m.sounding = [l.sounding EXCEPT ![k] = S]
    <2> DEFINE so == [l.sounding EXCEPT ![k] = S]
    <2>1. so \in [SynthClients -> SUBSET Notes]
      BY <1>5 DEF Sequencer
    <2>2. m = [l EXCEPT !.sounding = so]
      BY <1>6
    <2> HIDE DEF so
    <2>3. /\ m \in Sequencer /\ SameRest(l, m)
          /\ m.export = l.export /\ m.import = l.import
          /\ m.subscribe_count = l.subscribe_count
          /\ m.use_count = l.use_count /\ m.used = l.used
          /\ m.sounding = so
      BY <1>5, <2>1, <2>2 DEF Sequencer, SameRest
    <2> QED BY <2>3 DEF so
  <1>8. PICK r : r = spin_unlock(m, k)
    OBVIOUS
  <1>9. r \in Sequencer /\ SameTables(m, r)
    BY <1>1, <1>7, <1>8, LocksKeep
  <1>10. /\ r.clients = q.clients /\ r.ports = q.ports
         /\ r.sent = q.sent /\ r.fInstumentsLoaded = q.fInstumentsLoaded
         /\ r.export = q.export /\ r.import = q.import
         /\ r.subscribe_count = q.subscribe_count
         /\ r.use_count = q.use_count /\ r.used = q.used
         /\ r.sounding = [q.sounding EXCEPT ![k] = S]
    BY <1>5, <1>7, <1>9 DEF SameTables, SameRest
  <1>11. \A j \in SynthClients : Callers(r, j) = Callers(q, j)
    BY <1>10 DEF Callers
  <1>12. \A j \in SynthClients : Callers(r, j) = {} => r.sounding[j] = {}
    <2>1. Callers(r, k) # {}
      BY <1>3, <1>11 DEF Callers
    <2>2. \A j \in SynthClients : j # k => r.sounding[j] = q.sounding[j]
      BY <1>1, <1>10 DEF Sequencer
    <2> QED BY <1>1, <1>11, <2>1, <2>2 DEF Good, Counted
  <1>13. Counted(r)
    BY <1>1, <1>9, <1>10, <1>11, <1>12 DEF Good, Counted
  <1>14. Good(r)
    BY <1>1, <1>10, <1>13 DEF Good, Attached
  <1>15. Held(r, hs, hl)
    BY <1>10, <1>14 DEF Held, StreamOK
  <1> QED BY <1>4, <1>6, <1>8, <1>15

(* The synths go. *)
LEMMA ShutdownKeeps ==
  ASSUME NEW q, NEW hs, Held(q, hs, FALSE)
  PROVE  Held(seq_free_client(q, SynthClients), hs, TRUE)
  <1>1. Good(q)
    BY DEF Held
  <1>2. PICK r : r = seq_free_client(q, SynthClients)
    OBVIOUS
  <1>3. /\ Good(r) /\ r.export = {} /\ r.clients = q.clients \ SynthClients
        /\ r.sent = q.sent /\ r.fInstumentsLoaded = q.fInstumentsLoaded
    BY <1>1, <1>2, FreeSynths
  <1>4. \A u \in Users, k \in SynthClients :
          FmHandle(u, k) \in hs => StreamOK(r, u, k, TRUE)
    BY <1>3, ClientNumbers DEF Held, StreamOK
  <1>5. Held(r, hs, TRUE)
    BY <1>3, <1>4 DEF Held
  <1> QED BY <1>2, <1>5

(***************************************************************************)
(* Every call keeps the invariant, and the notes of the streams it is not  *)
(* about.                                                                  *)
(***************************************************************************)
Kept ==
  \A h \in handles \cap handles' :
    h.type = "fm" => seq.sounding[h.dest] \subseteq seq'.sounding[h.dest]

(* It holds at the start. *)
LEMMA InitHolds == Init => MInv
  <1>1. SUFFICES ASSUME Init PROVE MInv
    OBVIOUS
  <1>2. PICK q : q = seq
    OBVIOUS
  <1>3. q = [clients |-> SynthClients, ports |-> SynthClients,
             export |-> {}, import |-> {},
             subscribe_count |-> [u \in Users |-> 0],
             use_count |-> [k \in SynthClients |-> 0],
             used |-> [k \in SynthClients |-> 0],
             sent |-> {}, missing |-> FALSE, fInstumentsLoaded |-> FALSE,
             sounding |-> [k \in SynthClients |-> {}],
             flag |-> TRUE, ports_lock |-> [c \in Numbers |-> TRUE]]
    BY <1>1, <1>2 DEF Init
  <1>4. /\ [u \in Users |-> 0] \in [Users -> Nat]
        /\ [k \in SynthClients |-> 0] \in [SynthClients -> Nat]
        /\ [k \in SynthClients |-> 0] \in [SynthClients -> Int]
        /\ [k \in SynthClients |-> {}] \in [SynthClients -> SUBSET Notes]
        /\ [c \in Numbers |-> TRUE] \in [Numbers -> BOOLEAN]
    OBVIOUS
  <1>5. q \in Sequencer
    BY <1>3, <1>4, ClientNumbers DEF Sequencer
  <1>6. /\ q.clients = SynthClients /\ q.ports = SynthClients
        /\ q.export = {} /\ q.import = {} /\ q.fInstumentsLoaded = FALSE
        /\ \A u \in Users : q.subscribe_count[u] = 0
        /\ \A k \in SynthClients :
             q.use_count[k] = 0 /\ q.used[k] = 0 /\ q.sounding[k] = {}
    BY <1>3
  <1>7. \A k \in SynthClients : Callers(q, k) = {}
    BY <1>6 DEF Callers
  <1>8. Good(q)
    BY <1>5, <1>6, <1>7, FS_EmptySet DEF Good, Counted, Attached
  <1>9. Held(q, {}, FALSE)
    BY <1>6, <1>8 DEF Held
  <1> QED BY <1>1, <1>2, <1>9 DEF Init, MInv

(* Opening and probing FM streams. *)
LEMMA OpenFmStep ==
  ASSUME MInv, NEW c \in Cards, NEW f, MidiOpenFm(c, f)
  PROVE  MInv' /\ Kept
  <1>1. PICK q, hs : q = Entered(seq) /\ hs = handles
    OBVIOUS
  <1>2. Held(q, hs, FALSE) /\ q.sounding = seq.sounding
    <2>1. PICK s : s = seq
      OBVIOUS
    <2>2. Held(s, hs, FALSE)
      BY <1>1, <2>1 DEF MInv, MidiOpenFm
    <2>3. Held(Entered(s), hs, FALSE) /\ SameTables(s, Entered(s))
      BY <2>2, EnteredKeeps
    <2> QED BY <1>1, <2>1, <2>3 DEF SameTables
  <1>3. PICK o : o = OpenFm(q, c, f)
    OBVIOUS
  <1>4. OpenOutcome(q, hs, o)
    BY <1>2, <1>3, OpenKeeps
  <1>5. /\ seq' = o.seq /\ raw' = raw /\ halted' = halted /\ halted = FALSE
        /\ handles' = IF o.handle = NoHandle THEN hs ELSE hs \cup {o.handle}
    BY <1>1, <1>3 DEF MidiOpenFm, MInv
  <1>6. Kept
    BY <1>2, <1>4, <1>5 DEF Kept, OpenOutcome
  <1>7. CASE o.handle = NoHandle /\ Held(o.seq, hs, FALSE)
    BY <1>1, <1>5, <1>6, <1>7 DEF MInv
  <1>8. ASSUME NEW u \in Users, NEW k \in SynthClients,
               o.handle = FmHandle(u, k),
               Held(o.seq, hs \cup {o.handle}, FALSE)
        PROVE  MInv'
    <2>1. handles' = hs \cup {o.handle}
      BY <1>5, <1>8, HandleFields
    <2>2. \A p \in Mpus \X Directions : MpuHandle(p) \in handles' => p \in raw'
      BY <1>1, <1>5, <1>8, <2>1, HandleFields DEF MInv
    <2> QED BY <1>5, <1>8, <2>1, <2>2 DEF MInv
  <1> QED BY <1>4, <1>6, <1>7, <1>8 DEF OpenOutcome

(* A probe closes what it opened. *)
LEMMA QueryStep ==
  ASSUME MInv, NEW c \in Cards, NEW f, QueryMidiCaps(c, f)
  PROVE  MInv' /\ Kept
  <1>1. PICK q, hs : q = Entered(seq) /\ hs = handles
    OBVIOUS
  <1>2. Held(q, hs, FALSE) /\ q.sounding = seq.sounding
    <2>1. PICK s : s = seq
      OBVIOUS
    <2>2. Held(s, hs, FALSE)
      BY <1>1, <2>1 DEF MInv, QueryMidiCaps
    <2>3. Held(Entered(s), hs, FALSE) /\ SameTables(s, Entered(s))
      BY <2>2, EnteredKeeps
    <2> QED BY <1>1, <2>1, <2>3 DEF SameTables
  <1>3. PICK o : o = OpenFm(q, c, f)
    OBVIOUS
  <1>4. OpenOutcome(q, hs, o)
    BY <1>2, <1>3, OpenKeeps
  <1>5. /\ seq' = IF o.handle = NoHandle THEN o.seq ELSE CloseFm(o.seq, o.handle)
        /\ raw' = raw /\ halted' = halted /\ halted = FALSE /\ handles' = hs
    BY <1>1, <1>3 DEF QueryMidiCaps, MInv
  <1>6. CASE o.handle = NoHandle /\ Held(o.seq, hs, FALSE)
    BY <1>1, <1>2, <1>4, <1>5, <1>6 DEF MInv, Kept, OpenOutcome
  <1>7. ASSUME NEW u \in Users, NEW k \in SynthClients,
               o.handle = FmHandle(u, k), o.handle \notin hs,
               Held(o.seq, hs \cup {o.handle}, FALSE)
        PROVE  MInv' /\ Kept
    <2>1. PICK p, gs, b : /\ p = o.seq /\ gs = hs \cup {o.handle}
                          /\ b = FALSE /\ b \in BOOLEAN
      OBVIOUS
    <2>2. Held(p, gs, b) /\ FmHandle(u, k) \in gs
      BY <1>7, <2>1
    <2>3. PICK r : r = CloseFm(p, FmHandle(u, k))
      OBVIOUS
    <2>4. CloseOutcome(p, gs \ {FmHandle(u, k)}, b, r)
      BY <2>1, <2>2, <2>3, CloseKeeps
    <2>5. gs \ {FmHandle(u, k)} = hs
      BY <1>7, <2>1
    <2>6. seq' = r
      BY <1>5, <1>7, <2>1, <2>3, HandleFields
    <2>7. MInv'
      BY <1>1, <1>5, <2>1, <2>4, <2>5, <2>6 DEF MInv, CloseOutcome
    <2>8. Kept
      <3>1. SUFFICES ASSUME NEW h \in hs, h.type = "fm"
                     PROVE  seq.sounding[h.dest] \subseteq r.sounding[h.dest]
        BY <1>1, <2>6 DEF Kept
      <3>2. PICK v \in Users, l \in SynthClients : h = FmHandle(v, l)
        BY <1>2, <3>1, HandleFields DEF Held
      <3>3. h.dest = l
        BY <3>2, HandleFields
      <3>4. r.sounding[l] = p.sounding[l]
        BY <2>4, <2>5, <3>2 DEF CloseOutcome
      <3> QED BY <1>2, <1>4, <2>1, <3>3, <3>4 DEF OpenOutcome
    <2> QED BY <2>7, <2>8
  <1> QED BY <1>4, <1>6, <1>7 DEF OpenOutcome

(* A port of an MPU-401 is opened once in each direction. *)
LEMMA OpenMpuStep ==
  ASSUME MInv, NEW c \in Cards, NEW d \in Directions, MidiOpenMpu(c, d)
  PROVE  MInv' /\ Kept
  <1>1. PICK s, hs, hl, p : s = seq /\ hs = handles /\ hl = halted /\ p = <<c, d>>
    OBVIOUS
  <1>2. PICK q : q = Entered(s)
    OBVIOUS
  <1>3. Held(q, hs, hl) /\ q.sounding = s.sounding
    <2>1. Held(s, hs, hl)
      BY <1>1 DEF MInv
    <2> QED BY <1>2, <2>1, EnteredKeeps DEF SameTables
  <1>4. /\ seq' = q /\ handles' = hs \cup {MpuHandle(p)} /\ halted' = hl
        /\ raw' = raw \cup {p} /\ p \in Mpus \X Directions
    BY <1>1, <1>2 DEF MidiOpenMpu, MpuHandle, Directions
  <1>5. Held(q, hs \cup {MpuHandle(p)}, hl)
    <2>1. \A h \in hs \cup {MpuHandle(p)} :
            \/ \E u \in Users, k \in SynthClients : h = FmHandle(u, k)
            \/ \E x \in Mpus \X Directions : h = MpuHandle(x)
      BY <1>3, <1>4 DEF Held
    <2>2. \A u \in Users, k \in SynthClients :
            FmHandle(u, k) \in hs \cup {MpuHandle(p)} => FmHandle(u, k) \in hs
      BY HandleFields
    <2> QED BY <1>3, <2>1, <2>2 DEF Held
  <1>6. \A x \in Mpus \X Directions : MpuHandle(x) \in handles' => x \in raw'
    <2>1. SUFFICES ASSUME NEW x \in Mpus \X Directions,
                          MpuHandle(x) \in hs \cup {MpuHandle(p)}
                   PROVE  x \in raw \cup {p}
      BY <1>4
    <2>2. CASE MpuHandle(x) \in hs
      BY <1>1, <2>2 DEF MInv
    <2>3. CASE MpuHandle(x) = MpuHandle(p)
      BY <2>3, HandleFields
    <2> QED BY <2>1, <2>2, <2>3
  <1>7. MInv'
    BY <1>1, <1>4, <1>5, <1>6 DEF MInv
  <1>8. Kept
    BY <1>1, <1>3, <1>4 DEF Kept
  <1> QED BY <1>7, <1>8

(* Closing a stream of either kind. *)
LEMMA CloseStep ==
  ASSUME MInv, NEW h \in handles, OSS32_MidiClose(h)
  PROVE  MInv' /\ Kept
  <1>1. PICK s, hs, hl : s = seq /\ hs = handles /\ hl = halted /\ hl \in BOOLEAN
    BY DEF MInv
  <1>2. PICK q : q = Entered(s)
    OBVIOUS
  <1>3. Held(q, hs, hl) /\ q.sounding = s.sounding
    <2>1. Held(s, hs, hl)
      BY <1>1 DEF MInv
    <2> QED BY <1>2, <2>1, EnteredKeeps DEF SameTables
  <1>4. handles' = hs \ {h} /\ halted' = hl
    BY <1>1 DEF OSS32_MidiClose
  <1>5. ASSUME NEW u \in Users, NEW k \in SynthClients, h = FmHandle(u, k)
        PROVE  MInv' /\ Kept
    <2>1. PICK r : r = CloseFm(q, FmHandle(u, k))
      OBVIOUS
    <2>2. FmHandle(u, k) \in hs
      BY <1>1, <1>5
    <2>3. CloseOutcome(q, hs \ {FmHandle(u, k)}, hl, r)
      BY <1>1, <1>3, <2>1, <2>2, CloseKeeps
    <2>4. seq' = r /\ raw' = raw
      BY <1>1, <1>2, <1>5, <2>1, HandleFields DEF OSS32_MidiClose
    <2>5. MInv'
      BY <1>1, <1>4, <1>5, <2>3, <2>4 DEF MInv, CloseOutcome
    <2>6. Kept
      <3>1. SUFFICES ASSUME NEW g \in hs, g # h, g.type = "fm"
                     PROVE  s.sounding[g.dest] \subseteq r.sounding[g.dest]
        BY <1>1, <1>4, <2>4 DEF Kept
      <3>2. PICK v \in Users, l \in SynthClients : g = FmHandle(v, l)
        BY <1>3, <3>1, HandleFields DEF Held
      <3>3. g.dest = l
        BY <3>2, HandleFields
      <3>4. r.sounding[l] = q.sounding[l]
        BY <1>5, <2>3, <3>1, <3>2 DEF CloseOutcome
      <3> QED BY <1>3, <3>3, <3>4
    <2> QED BY <2>5, <2>6
  <1>6. ASSUME NEW p \in Mpus \X Directions, h = MpuHandle(p)
        PROVE  MInv' /\ Kept
    <2>1. seq' = q /\ raw' = raw \ {p}
      BY <1>1, <1>2, <1>6, HandleFields DEF OSS32_MidiClose
    <2>2. Held(q, hs \ {h}, hl)
      <3>1. \A u \in Users, k \in SynthClients :
              FmHandle(u, k) \in hs \ {h} <=> FmHandle(u, k) \in hs
        BY <1>6, HandleFields
      <3> QED BY <1>3, <3>1 DEF Held
    <2>3. \A x \in Mpus \X Directions : MpuHandle(x) \in handles' => x \in raw'
      BY <1>1, <1>4, <1>6, <2>1 DEF MInv
    <2>4. MInv'
      BY <1>1, <1>4, <2>1, <2>2, <2>3 DEF MInv
    <2>5. Kept
      BY <1>1, <1>3, <2>1 DEF Kept
    <2> QED BY <2>4, <2>5
  <1>7. \/ \E u \in Users, k \in SynthClients : h = FmHandle(u, k)
        \/ \E p \in Mpus \X Directions : h = MpuHandle(p)
    BY <1>1, <1>3 DEF Held
  <1> QED BY <1>5, <1>6, <1>7

(* A note on, or a note off. *)
LEMMA NoteStep ==
  ASSUME MInv, NoteCommand
  PROVE  MInv'
  <1>1. PICK s, hs, hl : s = seq /\ hs = handles /\ hl = halted /\ hl \in BOOLEAN
    BY DEF MInv
  <1>2. PICK q : q = Entered(s)
    OBVIOUS
  <1>3. Held(q, hs, hl) /\ SameTables(s, q) /\ q \in Sequencer
    <2>1. Held(s, hs, hl)
      BY <1>1 DEF MInv
    <2> QED BY <1>2, <2>1, EnteredKeeps
  <1>4. PICK h \in handles, cmd \in {"noteon", "noteoff"}, n \in Notes :
          h.type = "fm" /\ OSS32_MidiCommand(h, cmd, n)
    BY DEF NoteCommand
  <1>5. PICK u \in Users, k \in SynthClients : h = FmHandle(u, k)
    BY <1>1, <1>3, <1>4, HandleFields DEF Held
  <1>6. h.dest = k
    BY <1>5, HandleFields
  <1>7. handles' = hs /\ raw' = raw /\ halted' = hl
    BY <1>1, <1>4 DEF OSS32_MidiCommand
  <1>8. CASE k \notin seq.clients
    <2>1. seq' = q
      BY <1>1, <1>2, <1>4, <1>6, <1>8 DEF OSS32_MidiCommand
    <2> QED BY <1>1, <1>3, <1>7, <2>1 DEF MInv
  <1>9. CASE k \in seq.clients
    <2>1. k \in q.clients /\ s.sounding = q.sounding
      BY <1>1, <1>3, <1>9 DEF SameTables, SameRest
    <2>2. PICK S :
            /\ S \in {s.sounding[k] \cup {n}, s.sounding[k], s.sounding[k] \ {n}}
            /\ seq' = spin_unlock([spin_lock(q, k) EXCEPT !.sounding[k] = S], k)
      BY <1>1, <1>2, <1>4, <1>6, <1>9 DEF OSS32_MidiCommand
    <2>3. S \in SUBSET Notes
      BY <1>3, <2>1, <2>2 DEF Sequencer
    <2>4. PICK r : r = spin_unlock([spin_lock(q, k) EXCEPT !.sounding[k] = S], k)
      OBVIOUS
    <2>5. FmHandle(u, k) \in hs
      BY <1>1, <1>4, <1>5
    <2>6. Held(r, hs, hl)
      BY <1>1, <1>3, <2>1, <2>3, <2>4, <2>5, NoteKeeps
    <2>7. seq' = r
      BY <2>2, <2>4
    <2> QED BY <1>1, <1>7, <2>6, <2>7 DEF MInv
  <1> QED BY <1>8, <1>9

(* The shutdown. *)
LEMMA ShutdownStep ==
  ASSUME MInv, OSS32_Shutdown
  PROVE  MInv'
  <1>1. PICK s, hs : s = seq /\ hs = handles
    OBVIOUS
  <1>2. Held(s, hs, FALSE)
    BY <1>1 DEF MInv, OSS32_Shutdown
  <1>3. PICK q : q = Entered(s)
    OBVIOUS
  <1>4. Held(q, hs, FALSE)
    BY <1>2, <1>3, EnteredKeeps
  <1>5. PICK r : r = seq_free_client(q, SynthClients)
    OBVIOUS
  <1>6. Held(r, hs, TRUE)
    BY <1>4, <1>5, ShutdownKeeps
  <1>7. /\ seq' = r /\ handles' = hs /\ raw' = raw /\ halted' = TRUE
    BY <1>1, <1>3, <1>5 DEF OSS32_Shutdown
  <1> QED BY <1>1, <1>6, <1>7 DEF MInv

(* Every step keeps the invariant. *)
LEMMA StepHolds == MInv /\ [Next]_vars => MInv'
  <1>1. SUFFICES ASSUME MInv, [Next]_vars PROVE MInv'
    OBVIOUS
  <1>2. ASSUME NEW c \in Cards, NEW f \in Failures, MidiOpenFm(c, f)
        PROVE  MInv'
    BY <1>1, <1>2, OpenFmStep
  <1>3. ASSUME NEW c \in Cards, NEW f \in Failures, QueryMidiCaps(c, f)
        PROVE  MInv'
    BY <1>1, <1>3, QueryStep
  <1>4. ASSUME NEW c \in Cards, NEW d \in Directions, MidiOpenMpu(c, d)
        PROVE  MInv'
    BY <1>1, <1>4, OpenMpuStep
  <1>5. ASSUME NEW h \in handles, OSS32_MidiClose(h)
        PROVE  MInv'
    BY <1>1, <1>5, CloseStep
  <1>6. CASE NoteCommand
    BY <1>1, <1>6, NoteStep
  <1>7. CASE OSS32_Shutdown
    BY <1>1, <1>7, ShutdownStep
  <1>8. CASE UNCHANGED vars
    BY <1>1, <1>8 DEF vars, MInv
  <1> QED BY <1>1, <1>2, <1>3, <1>4, <1>5, <1>6, <1>7, <1>8 DEF Next, Directions

(* The tables agree with the open streams in every state of every behaviour *)
(* of the MIDI calls.                                                       *)
THEOREM MidiInvariance == Spec => []MInv
  BY InitHolds, StepHolds, PTL DEF Spec

(* The handles that play on a synth are as many as its callers. *)
LEMMA UsersAreCallers ==
  ASSUME MInv, NEW k \in SynthClients, k \in seq.clients
  PROVE  /\ Cardinality(UsersOf(k)) = Cardinality(Callers(seq, k))
         /\ UsersOf(k) = {} <=> Callers(seq, k) = {}
  <1>1. PICK s, hs, hl : s = seq /\ hs = handles /\ hl = halted /\ hl \in BOOLEAN
    BY DEF MInv
  <1>2. Held(s, hs, hl)
    BY <1>1 DEF MInv
  <1>3. ~hl
    BY <1>1, <1>2 DEF Held
  <1>4. PICK A, B : A = Callers(s, k) /\ B = UsersOf(k)
    OBVIOUS
  <1>5. \A h \in B : \E u \in A : h = FmHandle(u, k)
    <2>1. SUFFICES ASSUME NEW h \in hs, h.type = "fm", h.dest = k
                   PROVE  \E u \in A : h = FmHandle(u, k)
      BY <1>1, <1>4 DEF UsersOf
    <2>2. PICK u \in Users, l \in SynthClients : h = FmHandle(u, l)
      BY <1>2, <2>1, HandleFields DEF Held
    <2>3. l = k
      BY <2>1, <2>2, HandleFields
    <2>4. <<u, k>> \in s.export
      BY <1>2, <1>3, <2>1, <2>2, <2>3 DEF Held, StreamOK
    <2> QED BY <1>4, <2>2, <2>3, <2>4 DEF Callers
  <1>6. \A u \in A : FmHandle(u, k) \in B
    BY <1>1, <1>2, <1>4, HandleFields DEF Held, Callers, UsersOf
  <1>7. ExistsBijection(A, B)
    <2> DEFINE f == [u \in A |-> FmHandle(u, k)]
    <2>1. \A u, v \in A : FmHandle(u, k) = FmHandle(v, k) => u = v
      BY HandleFields
    <2>2. f \in Bijection(A, B)
      BY <1>5, <1>6, <2>1 DEF Bijection, Injection, Surjection, IsInjective
    <2> QED BY <2>2 DEF ExistsBijection
  <1>8. IsFiniteSet(A)
    BY <1>4, CallersFinite
  <1>9. Cardinality(A) = Cardinality(B)
    BY <1>7, <1>8, FS_Bijection
  <1>10. A = {} <=> B = {}
    BY <1>5, <1>6
  <1> QED BY <1>1, <1>4, <1>9, <1>10

(* Whatever was opened, probed, closed, or failed half way for want of      *)
(* memory: each synth counts exactly the streams that play on it and is     *)
(* taken exactly while there are some, both sides of every connection know  *)
(* of each other and exist, and a synth nobody uses is silent.              *)
THEOREM SynthsHeldByStreams == Spec => []SequencerConsistent
  <1>1. MInv => SequencerConsistent
    <2>1. SUFFICES ASSUME MInv PROVE SequencerConsistent
      OBVIOUS
    <2>2. PICK s, hs, hl : s = seq /\ hs = handles /\ hl = halted /\ hl \in BOOLEAN
      BY <2>1 DEF MInv
    <2>3. Held(s, hs, hl) /\ Good(s) /\ s \in Sequencer
      BY <2>1, <2>2 DEF MInv, Held, Good, Counted
    <2>4. ASSUME NEW k \in SynthClients
          PROVE  /\ s.use_count[k] = Cardinality(Callers(s, k))
                 /\ s.used[k] = IF Callers(s, k) = {} THEN 0 ELSE 1
                 /\ Callers(s, k) = {} => s.sounding[k] = {}
                 /\ s.use_count[k] \in 0 .. MaxUsers
                 /\ s.use_count[k] = 0 <=> Callers(s, k) = {}
      BY <2>3, CallersFinite DEF Good, Counted
    <2>5. TypeOK
      <3>1. s.subscribe_count \in [Users -> 0 .. 1]
        <4>1. s.subscribe_count \in [Users -> Nat]
          BY <2>3 DEF Sequencer
        <4>2. \A u \in Users : s.subscribe_count[u] \in 0 .. 1
          BY <2>3 DEF Good, Counted
        <4> QED BY <4>1, <4>2
      <3>2. s.use_count \in [SynthClients -> 0 .. MaxUsers]
        <4>1. s.use_count \in [SynthClients -> Nat]
          BY <2>3 DEF Sequencer
        <4> QED BY <2>4, <4>1
      <3>3. s.used \in [SynthClients -> 0 .. 1]
        <4>1. s.used \in [SynthClients -> Int]
          BY <2>3 DEF Sequencer
        <4>2. \A k \in SynthClients : s.used[k] \in 0 .. 1
          BY <2>4
        <4> QED BY <4>1, <4>2
      <3>4. /\ s.clients \subseteq Numbers /\ s.ports \subseteq Numbers
            /\ s.export \cup s.import \subseteq Users \X SynthClients
            /\ s.sent \subseteq SynthClients /\ s.fInstumentsLoaded \in BOOLEAN
            /\ s.missing \in BOOLEAN
            /\ s.sounding \in [SynthClients -> SUBSET Notes]
            /\ s.flag \in BOOLEAN /\ s.ports_lock \in [Numbers -> BOOLEAN]
        BY <2>3 DEF Sequencer
      <3>5. ASSUME NEW h \in hs
            PROVE  \/ h.type = "fm" /\ h.client \in Users /\ h.dest \in SynthClients
                   \/ h.type = "mpu" /\ h.port \in raw
        <4>1. CASE \E u \in Users, k \in SynthClients : h = FmHandle(u, k)
          BY <4>1, HandleFields
        <4>2. CASE \E p \in Mpus \X Directions : h = MpuHandle(p)
          BY <2>1, <2>2, <4>2, HandleFields DEF MInv
        <4> QED BY <2>3, <4>1, <4>2 DEF Held
      <3>6. raw \subseteq Mpus \X {"in", "out"} /\ halted \in BOOLEAN
        BY <2>1 DEF MInv, Directions
      <3> QED BY <2>2, <3>1, <3>2, <3>3, <3>4, <3>5, <3>6 DEF TypeOK
    <2>6. SynthHeldByHandles
      <3>1. SUFFICES ASSUME NEW k \in SynthClients, k \in seq.clients
                     PROVE  /\ seq.use_count[k] = Cardinality(UsersOf(k))
                            /\ seq.used[k] = IF UsersOf(k) = {} THEN 0 ELSE 1
        BY DEF SynthHeldByHandles
      <3>2. /\ Cardinality(UsersOf(k)) = Cardinality(Callers(seq, k))
            /\ UsersOf(k) = {} <=> Callers(seq, k) = {}
        BY <2>1, <3>1, UsersAreCallers
      <3> QED BY <2>2, <2>4, <3>2
    <2>7. ConnectionsMutual
      <3>1. s.export = s.import
        BY <2>3 DEF Good, Counted
      <3>2. ASSUME NEW e \in s.export
            PROVE  {e[1], e[2]} \subseteq s.clients \cap s.ports
        <4>1. e \in Users \X SynthClients
          BY <2>3 DEF Sequencer
        <4>2. e = <<e[1], e[2]>> /\ e[1] \in Users /\ e[2] \in SynthClients
          BY <4>1
        <4> QED BY <2>3, <4>2 DEF Good, Attached
      <3> QED BY <2>2, <3>1, <3>2 DEF ConnectionsMutual
    <2>8. SilentWhenUnused
      BY <2>2, <2>4 DEF SilentWhenUnused
    <2> QED BY <2>5, <2>6, <2>7, <2>8 DEF SequencerConsistent
  <1> QED BY <1>1, MidiInvariance, PTL

(* Instruments are sent once, to one synth, and every FM stream that is     *)
(* opened then or later plays on that synth, whatever card it asked for and *)
(* whichever open failed before.  The synth has as many of them as the heap *)
(* had room for.                                                            *)
THEOREM StreamsPlayLoadedSynth == Spec => []PlaysLoadedSynth
  <1>1. MInv => PlaysLoadedSynth
    <2>1. SUFFICES ASSUME MInv, NEW h \in handles, h.type = "fm"
                   PROVE  h.dest \in seq.sent
      BY DEF PlaysLoadedSynth
    <2>2. PICK u \in Users, k \in SynthClients : h = FmHandle(u, k)
      BY <2>1, HandleFields DEF MInv, Held
    <2>3. k = Min(SynthClients) /\ Min(SynthClients) \in seq.sent
      BY <2>1, <2>2 DEF MInv, Held, StreamOK
    <2> QED BY <2>2, <2>3, HandleFields
  <1> QED BY <1>1, MidiInvariance, PTL

(* An open, a probe or a close, successful or not, keeps every note of the  *)
(* other streams on the same synth.                                         *)
THEOREM NotesOfOthersAreKept == Spec => OthersUndisturbed
  <1> DEFINE Step == \/ NoteCommand \/ OSS32_Shutdown
                     \/ \A h \in handles \cap handles' :
                          h.type = "fm" =>
                            seq.sounding[h.dest] \subseteq seq'.sounding[h.dest]
  <1>1. MInv /\ [Next]_vars => [Step]_vars
    <2>1. SUFFICES ASSUME MInv, Next PROVE Step
      OBVIOUS
    <2>2. Kept => Step
      BY DEF Kept
    <2> HIDE DEF Step
    <2>3. ASSUME NEW c \in Cards, NEW f \in Failures, MidiOpenFm(c, f)
          PROVE  Step
      BY <2>1, <2>2, <2>3, OpenFmStep
    <2>4. ASSUME NEW c \in Cards, NEW f \in Failures, QueryMidiCaps(c, f)
          PROVE  Step
      BY <2>1, <2>2, <2>4, QueryStep
    <2>5. ASSUME NEW c \in Cards, NEW d \in Directions, MidiOpenMpu(c, d)
          PROVE  Step
      BY <2>1, <2>2, <2>5, OpenMpuStep
    <2>6. ASSUME NEW h \in handles, OSS32_MidiClose(h)
          PROVE  Step
      BY <2>1, <2>2, <2>6, CloseStep
    <2>7. CASE NoteCommand \/ OSS32_Shutdown
      BY <2>7 DEF Step
    <2> QED BY <2>1, <2>3, <2>4, <2>5, <2>6, <2>7 DEF Next, Directions
  <1> QED BY <1>1, MidiInvariance, PTL DEF Spec, OthersUndisturbed
====
