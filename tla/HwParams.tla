------------------------------ MODULE HwParams ------------------------------
(***************************************************************************)
(* OSS32_WaveSetHwParams: how the sizes of the ring buffer are negotiated. *)
(* The call asks ALSA what the card allows for the sample format           *)
(* (HW_REFINE), fits the wanted period into the answer, makes the number   *)
(* of periods even and installs the result (HW_PARAMS), once more with     *)
(* another period if ALSA takes exception to the first.                    *)
(*                                                                         *)
(* ALSA keeps an interval for each of six sizes and narrows them with      *)
(* rules that tie them together until none of them changes anything. An    *)
(* action of this module is one rule. The masks (access, format) and the   *)
(* rate are independent of the sizes: a card may turn them down at once.   *)
(***************************************************************************)
EXTENDS Integers, Sequences, FiniteSetsExt

CONSTANTS
  UINT_MAX,       \* the largest unsigned int
  LONG_MAX,       \* the largest long, for the boundary of the pointers
  Cards,          \* what cards allow, see CardType
  Requests        \* [frame : bytes of a frame, bytes : wanted period in bytes]

(* The limits of snd_pcm_hardware_t, the preallocated buffer, and what the  *)
(* open functions of the drivers add: a bound on the buffer size in frames, *)
(* a list of period sizes ({} for none), a whole number of periods.  Lists  *)
(* and steps of the period in bytes and a fixed buffer (rme96.c 1301-1302,  *)
(* korg1212.c 1240-1241, gus_pcm.c 737) are left out: OSS32_Initialize      *)
(* starts none of these drivers.  So is emu10k1's least buffer of 256 bytes *)
(* (emupcm.c 932): the call asks for as many periods as the buffer holds.   *)
CardType ==
  [period_bytes_min : Nat, period_bytes_max : Nat, periods_min : Nat,
   periods_max : Nat, buffer_bytes_max : Nat, dma_max : Nat,
   buffer_size_max : Nat, period_sizes : SUBSET Nat, whole : BOOLEAN]

(* Sizes are unsigned ints, of which the cards are nowhere near the limits: *)
(* the largest buffer in alsa/ has 1 MB, the most periods are 1024.         *)
ASSUME HwParamsAssumption ==
  /\ UINT_MAX \in Nat /\ LONG_MAX \in Nat
  /\ Cards \subseteq CardType
  /\ \A c \in Cards :
       /\ c.period_bytes_min \in 1 .. UINT_MAX /\ c.periods_min \in 1 .. UINT_MAX
       /\ c.period_bytes_max < UINT_MAX /\ c.buffer_bytes_max < UINT_MAX
       /\ c.period_bytes_max * c.periods_max <= UINT_MAX
       /\ 3 * c.buffer_bytes_max <= LONG_MAX /\ c.period_sizes \subseteq 0 .. UINT_MAX
  /\ Requests \subseteq [frame : Nat \ {0}, bytes : Nat]
  /\ \A r \in Requests : 8 * r.frame < UINT_MAX
  /\ 2 ^ 0 = 1 /\ 2 ^ 1 = 2 /\ \A e \in 0 .. 30 : 2 ^ e \in Nat

VARIABLES
  card, req,      \* the card and the call's argument
  pc,             \* "refine", "params", "sw" or "done"
  params,         \* the interval of each size
  stamps,         \* rules that a change of their arguments has made due
  k,              \* the rule that ran last
  size,           \* periodsize, periodbytes and nrperiods of the call
  fTryAgain,
  runtime,        \* what HW_PARAMS installed, or NoRuntime
  ret             \* "none", "success", "invalid", "refused"
vars == <<card, req, pc, params, stamps, k, size, fTryAgain, runtime, ret>>

(***************************************************************************)
(* Arithmetic on unsigned ints that saturates.                             *)
(***************************************************************************)
mul(a, b) == IF a * b > UINT_MAX THEN UINT_MAX ELSE a * b

(* a * b / c rounded down, and whether there is a remainder. *)
muldiv32(a, b, c) ==
  IF c = 0 \/ (a * b) \div c >= UINT_MAX
  THEN [q |-> UINT_MAX, r |-> FALSE]
  ELSE [q |-> (a * b) \div c, r |-> (a * b) % c # 0]

(***************************************************************************)
(* Intervals.                                                              *)
(***************************************************************************)
Interval(lo, hi, whole) ==
  [min |-> lo, openmin |-> FALSE, max |-> hi, openmax |-> FALSE,
   integer |-> whole, empty |-> FALSE]
snd_interval_any == Interval(0, UINT_MAX, FALSE)

snd_interval_checkempty(i) ==
  i.min > i.max \/ (i.min = i.max /\ (i.openmin \/ i.openmax))

(* i cut to v, and whether that changed i. An interval that has become      *)
(* empty keeps the bounds that crossed.                                     *)
Cut(i, v) ==
  LET lo == i.min < v.min \/ (i.min = v.min /\ ~i.openmin /\ v.openmin)
      hi == i.max > v.max \/ (i.max = v.max /\ ~i.openmax /\ v.openmax)
  IN  [i |-> [i EXCEPT !.min = IF lo THEN v.min ELSE @,
                       !.openmin = IF lo THEN v.openmin ELSE @,
                       !.max = IF hi THEN v.max ELSE @,
                       !.openmax = IF hi THEN v.openmax ELSE @,
                       !.integer = @ \/ v.integer],
       changed |-> lo \/ hi \/ (v.integer /\ ~i.integer)]

(* Bounds that whole numbers cannot take are moved to ones they can. *)
Whole(i) ==
  IF i.integer
  THEN [i EXCEPT !.min = IF i.openmin THEN @ + 1 ELSE @, !.openmin = FALSE,
                 !.max = IF i.openmax THEN @ - 1 ELSE @, !.openmax = FALSE]
  ELSE [i EXCEPT !.integer = i.min = i.max /\ ~i.openmin /\ ~i.openmax]

Emptied(i) == [i EXCEPT !.empty = snd_interval_checkempty(i)]

(* Mutant: a change is reported when there was none. *)
RefineReportsAlways(i, v) ==
  [i |-> Emptied(Whole(Cut(i, v).i)), changed |-> TRUE]

snd_interval_refine(i, v) ==
  LET c == Cut(i, v)
  IN  [i |-> Emptied(Whole(c.i)), changed |-> c.changed]

snd_interval_mul(a, b) ==
  [min |-> mul(a.min, b.min), openmin |-> a.openmin \/ b.openmin,
   max |-> mul(a.max, b.max), openmax |-> a.openmax \/ b.openmax,
   integer |-> a.integer /\ b.integer, empty |-> FALSE]

(* Mutant: an upper bound is rounded down. *)
AboveDown(d, open) == [max |-> d.q, openmax |-> d.r \/ open]

(* An upper bound that is not reached exactly is rounded up and open. *)
Above(d, open) ==
  [max |-> IF d.r THEN d.q + 1 ELSE d.q, openmax |-> d.r \/ open]

snd_interval_muldivk(a, b, n) ==
  LET lo == muldiv32(a.min, b.min, n)
      hi == Above(muldiv32(a.max, b.max, n), a.openmax \/ b.openmax)
  IN  [min |-> lo.q, openmin |-> lo.r \/ a.openmin \/ b.openmin,
       max |-> hi.max, openmax |-> hi.openmax,
       integer |-> FALSE, empty |-> FALSE]

snd_interval_mulkdiv(a, n, b) ==
  LET lo == muldiv32(a.min, n, b.max)
      hi == IF b.min > 0
            THEN Above(muldiv32(a.max, n, b.min), a.openmax \/ b.openmin)
            ELSE [max |-> UINT_MAX, openmax |-> FALSE]
  IN  [min |-> lo.q, openmin |-> lo.r \/ a.openmin \/ b.openmax,
       max |-> hi.max, openmax |-> hi.openmax,
       integer |-> FALSE, empty |-> FALSE]

snd_interval_div(a, b) == snd_interval_mulkdiv(a, 1, b)

(* The bounds move inwards to members of the list. *)
snd_interval_list(i, list) ==
  LET ups   == {x \in list : x > i.min \/ (x = i.min /\ ~i.openmin)}
      downs == {x \in list : x < i.max \/ (x = i.max /\ ~i.openmax)}
      up    == Min(ups)
      down  == Max(downs)
      low   == [i EXCEPT !.min = up, !.openmin = FALSE]
  IN  IF ups = {} THEN [i |-> [i EXCEPT !.empty = TRUE], changed |-> TRUE]
      ELSE IF downs = {} THEN [i |-> [low EXCEPT !.empty = TRUE], changed |-> TRUE]
      ELSE [i |-> Emptied([low EXCEPT !.max = down, !.openmax = FALSE]),
            changed |-> up # i.min \/ down # i.max \/ i.openmin \/ i.openmax]

(***************************************************************************)
(* The rules in the order of their numbers: first the constraints of the   *)
(* card, which depend on nothing, then the equations between the sizes,    *)
(* the rule the card's open function added and the bound on the buffer.    *)
(***************************************************************************)
Sizes == {"FRAME_BITS", "PERIOD_SIZE", "PERIOD_BYTES", "PERIODS", "BUFFER_SIZE",
          "BUFFER_BYTES"}

Rule(v, f, a, b) == [var |-> v, f |-> f, a |-> a, b |-> b]
Limit(v) == Rule(v, "constraint", "", "")
Rules ==
  <<Limit("FRAME_BITS"), Limit("PERIOD_SIZE"), Limit("PERIOD_BYTES"),
    Limit("PERIODS"), Limit("BUFFER_SIZE"), Limit("BUFFER_BYTES"),
    Rule("FRAME_BITS", "mulkdiv", "PERIOD_BYTES", "PERIOD_SIZE"),
    Rule("FRAME_BITS", "mulkdiv", "BUFFER_BYTES", "BUFFER_SIZE"),
    Rule("PERIODS", "div", "BUFFER_SIZE", "PERIOD_SIZE"),
    Rule("PERIOD_SIZE", "div", "BUFFER_SIZE", "PERIODS"),
    Rule("PERIOD_SIZE", "mulkdiv", "PERIOD_BYTES", "FRAME_BITS"),
    Rule("BUFFER_SIZE", "mul", "PERIOD_SIZE", "PERIODS"),
    Rule("BUFFER_SIZE", "mulkdiv", "BUFFER_BYTES", "FRAME_BITS"),
    Rule("PERIOD_BYTES", "muldivk", "PERIOD_SIZE", "FRAME_BITS"),
    Rule("BUFFER_BYTES", "muldivk", "BUFFER_SIZE", "FRAME_BITS"),
    Rule("PERIOD_SIZE", "list", "PERIOD_SIZE", "PERIOD_SIZE"),
    Rule("BUFFER_BYTES", "max", "BUFFER_BYTES", "BUFFER_BYTES")>>

RulesOf(c) == {n \in DOMAIN Rules : Rules[n].f = "list" => c.period_sizes # {}}

(* The constraints of snd_pcm_hw_constraints_complete. *)
Constraint(v) ==
  CASE v = "PERIOD_BYTES" ->
         Interval(card.period_bytes_min, card.period_bytes_max, FALSE)
    [] v = "PERIODS" -> Interval(card.periods_min, card.periods_max, card.whole)
    [] v = "BUFFER_SIZE" -> Interval(0, card.buffer_size_max, TRUE)
    [] v = "BUFFER_BYTES" ->
         Interval(card.period_bytes_min, card.buffer_bytes_max, TRUE)
    [] OTHER -> Interval(0, UINT_MAX, TRUE)

(* What a rule makes of its interval. *)
RunRule(r) ==
  LET i == params[r.var]
      a == params[r.a]
      b == params[r.b]
  IN CASE r.f = "list" -> snd_interval_list(i, card.period_sizes)
       [] r.f = "constraint" -> snd_interval_refine(i, Constraint(r.var))
       [] r.f = "max" -> snd_interval_refine(i, Interval(0, card.dma_max, TRUE))
       [] r.f = "mul" -> snd_interval_refine(i, snd_interval_mul(a, b))
       [] r.f = "div" -> snd_interval_refine(i, snd_interval_div(a, b))
       [] r.f = "muldivk" -> snd_interval_refine(i, snd_interval_muldivk(a, b, 8))
       [] r.f = "mulkdiv" -> snd_interval_refine(i, snd_interval_mulkdiv(a, 8, b))

(* Rules run in the order of their numbers, over and over. *)
NextRule == LET later == {j \in stamps : j > k}
            IN  IF later # {} THEN Min(later) ELSE Min(stamps)

(* Rules made due by a change of a size; a rule does not wake itself. *)
Woken(j) ==
  {n \in RulesOf(card) \ {j} : Rules[j].var \in {Rules[n].a, Rules[n].b}}

(***************************************************************************)
(* The call.                                                               *)
(***************************************************************************)
(* _snd_pcm_hw_params_any and _snd_pcm_hw_param_set for the sizes in set. *)
AnyBut(set) ==
  [v \in Sizes |-> IF v \in DOMAIN set
                   THEN snd_interval_refine(snd_interval_any,
                                            Interval(set[v], set[v], TRUE)).i
                   ELSE snd_interval_any]

Format(frame) == [v \in {"FRAME_BITS"} |-> 8 * frame]

bytes_to_samples(b) == b \div req.frame
samples_to_bytes(n) == n * req.frame

NoRuntime == [frame |-> 0, period_size |-> 0, periods |-> 0, buffer_size |-> 0,
              boundary |-> 0, silence_size |-> 0]

Init ==
  /\ card \in Cards /\ req \in Requests
  /\ pc = "done" /\ params = AnyBut(Format(req.frame))
  /\ stamps = {} /\ k = 0
  /\ size = [frames |-> 0, bytes |-> 0, periods |-> 0]
  /\ fTryAgain = FALSE /\ runtime = NoRuntime /\ ret = "none"

(* A call, the first on the stream or a later one. *)
OSS32_WaveSetHwParams ==
  /\ pc = "done"
  /\ \E r \in Requests :
       /\ req' = r
       /\ params' = AnyBut(Format(r.frame))
       /\ size' = [frames |-> r.bytes \div r.frame, bytes |-> r.bytes, periods |-> 0]
  /\ pc' = "refine" /\ stamps' = RulesOf(card) /\ k' = 0
  /\ fTryAgain' = FALSE /\ ret' = "none"
  /\ UNCHANGED <<card, runtime>>

(* One turn of the loop of snd_pcm_hw_refine; a rule that leaves nothing of *)
(* its interval ends it.                                                    *)
snd_pcm_hw_refine ==
  /\ pc \in {"refine", "params"} /\ stamps # {}
  /\ LET j == NextRule
         x == RunRule(Rules[j])
     IN  /\ k' = j
         /\ params' = [params EXCEPT ![Rules[j].var] = x.i]
         /\ stamps' = IF x.i.empty THEN {}
                      ELSE (stamps \ {j}) \cup (IF x.changed THEN Woken(j) ELSE {})
  /\ UNCHANGED <<card, req, pc, size, fTryAgain, runtime, ret>>

Empty == \E v \in Sizes : params[v].empty
Return(r) ==
  /\ pc' = "done" /\ ret' = r
  /\ UNCHANGED <<card, req, params, stamps, k, fTryAgain>>

(* HW_REFINE fails: the card has no such format, or no sizes for it. *)
RefineFails ==
  /\ pc = "refine" /\ (k = 0 \/ Empty)
  /\ Return("refused") /\ UNCHANGED <<size, runtime>>

(* The period that is asked of the card, in frames and in bytes. *)
Clamp(x, i) == IF x < i.min THEN i.min ELSE IF x > i.max THEN i.max ELSE x
ClampPeriod ==
  LET bytes  == Clamp(size.bytes, params["PERIOD_BYTES"])
      frames == Clamp(size.frames, params["PERIOD_SIZE"])
  IN  IF samples_to_bytes(frames) < bytes
      THEN [frames |-> frames, bytes |-> samples_to_bytes(frames)]
      ELSE [frames |-> Min({frames, bytes_to_samples(bytes)}), bytes |-> bytes]

(* The largest number of periods; an odd one makes clicks on some cards. *)
ClampPeriods(bytes) ==
  Clamp(params["BUFFER_BYTES"].max \div bytes, params["PERIODS"])
(* Mutant: an odd number of periods is kept. *)
KeepOdd(n) == n

Even(n) == 2 * (n \div 2)

(* The block of sizes HW_PARAMS is called with. *)
SetParams(s) ==
  /\ params' = AnyBut([FRAME_BITS |-> 8 * req.frame,
                       PERIOD_SIZE |-> s.frames, PERIOD_BYTES |-> s.bytes,
                       PERIODS |-> s.periods, BUFFER_SIZE |-> s.frames * s.periods,
                       BUFFER_BYTES |-> s.bytes * s.periods])
  /\ size' = s /\ pc' = "params"
  /\ stamps' = RulesOf(card) /\ k' = 0
  /\ UNCHANGED <<card, req, runtime, ret>>

ChooseSizes ==
  /\ pc = "refine" /\ stamps = {} /\ ~Empty
  /\ LET p == ClampPeriod
         n == ClampPeriods(p.bytes)
     IN  IF p.frames = 0 \/ n = 1
         THEN Return("invalid") /\ UNCHANGED <<size, runtime>>
         ELSE /\ SetParams([frames |-> p.frames, bytes |-> p.bytes, periods |-> Even(n)])
              /\ UNCHANGED fTryAgain

(* "ALSA doesn't like the period size; try suggested one". *)
PeriodCrossed == params["PERIOD_SIZE"].min > params["PERIOD_SIZE"].max
(* Mutant: the second attempt keeps the period in bytes. *)
TryAgainKeepsBytes ==
  /\ pc = "params" /\ Empty /\ ~fTryAgain /\ PeriodCrossed
  /\ SetParams([size EXCEPT !.frames = params["PERIOD_SIZE"].max])
  /\ fTryAgain' = TRUE

TryAgain ==
  /\ pc = "params" /\ Empty /\ ~fTryAgain /\ PeriodCrossed
  /\ LET n == params["PERIOD_SIZE"].max
     IN  SetParams([size EXCEPT !.frames = n, !.bytes = samples_to_bytes(n)])
  /\ fTryAgain' = TRUE

(* The stream is left in the state OPEN: earlier sizes are gone. *)
GivenUp == pc = "params" /\ Empty /\ (fTryAgain \/ ~PeriodCrossed)
ParamsFail ==
  /\ GivenUp
  /\ Return("refused") /\ runtime' = NoRuntime /\ UNCHANGED size

(* The driver's hw_params function may fail, for want of memory. *)
DriverRefuses ==
  /\ pc = "params" /\ stamps = {} /\ ~Empty
  /\ Return("refused") /\ runtime' = NoRuntime /\ UNCHANGED size

(* The boundary is doubled as long as a buffer still fits behind it. *)
Powers == {2 ^ e : e \in 0 .. 30}
Boundary(n) == n * Max({m \in Powers : m = 1 \/ m < LONG_MAX \div n})

(* The sizes are single values by now and become those of the runtime. *)
snd_pcm_hw_params ==
  /\ pc = "params" /\ stamps = {} /\ ~Empty
  /\ runtime' = [frame |-> req.frame,
                 period_size |-> params["PERIOD_SIZE"].min,
                 periods |-> params["PERIODS"].min,
                 buffer_size |-> params["BUFFER_SIZE"].min,
                 boundary |-> Boundary(params["BUFFER_SIZE"].min),
                 silence_size |-> 0]
  /\ pc' = "sw"
  /\ UNCHANGED <<card, req, params, stamps, k, size, fTryAgain, ret>>

(* SW_PARAMS: half a period of silence is enough when there are only two. *)
Silence == IF size.periods <= 2 THEN size.frames \div 2 ELSE size.frames
SwAccepted == size.frames > 0 /\ Silence + Silence <= runtime.buffer_size
snd_pcm_sw_params ==
  /\ pc = "sw" /\ UNCHANGED size
  /\ \/ SwAccepted /\ Return("success")
          /\ runtime' = [runtime EXCEPT !.silence_size = Silence]
     \/ ~SwAccepted /\ Return("refused") /\ UNCHANGED runtime

Next == \/ OSS32_WaveSetHwParams \/ snd_pcm_hw_refine \/ RefineFails \/ ChooseSizes
        \/ TryAgain \/ ParamsFail \/ DriverRefuses
        \/ snd_pcm_hw_params \/ snd_pcm_sw_params

Spec == Init /\ [][Next]_vars

(* Nothing in the call waits: it goes on until it returns. Some action is    *)
(* always enabled, so this is weak fairness of a call under way.            *)
FairSpec == Spec /\ ([]<>(pc = "done") \/ []<><<Next>>_vars)

(***************************************************************************)
(* Properties.                                                             *)
(***************************************************************************)

(* Every variable has its type. *)
TypeOK ==
  /\ card \in Cards /\ req \in Requests /\ fTryAgain \in BOOLEAN
  /\ pc \in {"refine", "params", "sw", "done"}
  /\ \A v \in Sizes : params[v].min \in 0 .. UINT_MAX + 1
                      /\ params[v].max \in -1 .. UINT_MAX + 1
  /\ stamps \subseteq DOMAIN Rules /\ k \in 0 .. Len(Rules)

(* A configuration of whole periods that the card allows for frames of f    *)
(* bytes.                                                                   *)
Legal(f, p, n) ==
  /\ n \in card.periods_min .. card.periods_max
  /\ p * f \in card.period_bytes_min .. card.period_bytes_max
  /\ p * n <= card.buffer_size_max
  /\ p * n * f <= Min({card.buffer_bytes_max, card.dma_max})
  /\ card.period_sizes # {} => p \in card.period_sizes
Periods == card.periods_min .. card.periods_max

(* What is installed is a whole and even number of periods the card allows, *)
(* whose pointers have at least two laps before they wrap, and the software *)
(* parameters that go with it are never turned down: what the playback      *)
(* model takes for granted of its ring. A call that fails half way leaves   *)
(* the sizes of an earlier one or none, never a mixture.                    *)
InstalledFits ==
  /\ runtime # NoRuntime =>
       /\ Legal(runtime.frame, runtime.period_size, runtime.periods)
       /\ runtime.periods % 2 = 0
       /\ runtime.buffer_size = runtime.period_size * runtime.periods
       /\ runtime.boundary % runtime.buffer_size = 0
       /\ runtime.boundary >= 2 * runtime.buffer_size
  /\ pc = "sw" => SwAccepted /\ runtime.period_size = size.frames

(* The value of a size in a configuration, and whether an interval has it. *)
Value(v, p, n) ==
  CASE v = "FRAME_BITS" -> 8 * req.frame
    [] v = "PERIOD_SIZE" -> p
    [] v = "PERIOD_BYTES" -> p * req.frame
    [] v = "PERIODS" -> n
    [] v = "BUFFER_SIZE" -> p * n
    [] v = "BUFFER_BYTES" -> p * n * req.frame
Has(i, x) == /\ ~i.empty
             /\ i.min < x \/ (i.min = x /\ ~i.openmin)
             /\ i.max > x \/ (i.max = x /\ ~i.openmax)

(* No rule, in whatever order the rules wake each other, takes a            *)
(* configuration away that the card allows, so the bounds the call reads    *)
(* are no tighter than the card and a refusal means that there is none.     *)
NoSolutionLost ==
  TypeOK /\ (pc \in {"refine", "params"} =>
    \A p \in 1 .. card.period_bytes_max, n \in Periods :
      Legal(req.frame, p, n) /\ (pc = "params" => p = size.frames /\ n = size.periods)
      => \A v \in Sizes : Has(params[v], Value(v, p, n)))

(* The sizes the call works out from the card's bounds are accepted, at the *)
(* latest in the second attempt, by every card that does not ask for more   *)
(* than two periods. Where it wants three, as ymfpci does, making them even *)
(* may ask for two, and the call fails although there is a configuration.   *)
RefusedForAReason == GivenUp => card.periods_min > 2

(* The rules come to rest, whatever they do to each other, and the call     *)
(* returns.                                                                 *)
CallReturns == pc = "refine" ~> pc = "done"
=============================================================================
