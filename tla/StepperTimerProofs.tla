------------------------- MODULE StepperTimerProofs -------------------------
(***************************************************************************)
(* The width of the pulses, the gap between them and the set-up time of    *)
(* the direction, for every number of axes, every setting of the times,    *)
(* every period and every latency of the handler, provided that the timer  *)
(* is woken when no pulse is in flight, and runs at least the minimum gap  *)
(* before its first interrupt.                                             *)
(***************************************************************************)
EXTENDS StepperTimer, TLAPS

\* The conditions of the theorems.  WAKE is 2 ms, T_OFF_MIN some microseconds.
WokenIdle == ~WakeEarly
LongWake == WAKE >= T_OFF_MIN

-----------------------------------------------------------------------------
(* The inductive invariant.                                                *)

\* Which channels are armed.  A delayed pulse that is armed has pins to set; one
\* channel is armed at a time; while the core is called no channel is armed for
\* nothing.  DIER as stepperGoIdle has loaded it may be stale.
IChannels ==
  /\ "CC2" \in dier \cup load => out # {}
  /\ ~({"CC1", "CC2"} \subseteq dier) /\ ~({"CC1", "CC2"} \subseteq load)
  /\ pc = "clear" => "UIF" \notin dier
  /\ "UIF" \in dier => ("CC2" \in dier => asked # {}) /\ ("CC1" \in dier => step # {})

\* A pulse in flight ends before the period does, and not before its time.
IPulse ==
  step # {} /\ pc # "clear" =>
    /\ "CC1" \in dier
    /\ \/ "CC1" \in sr /\ high >= T_OFF
       \/ {"UIF", "CC1"} \cap sr = {} /\ ccr1 < cnt /\ cnt - ccr1 + high >= T_OFF

\* A delayed pulse begins before the period is over, not before its time, and with a
\* gap in front of it.
IDelayed ==
  asked # {} =>
    /\ step = {}
    /\ pc # "clear" => "CC2" \in dier
    /\ "CC2" \in dier =>
         /\ low >= T_OFF_MIN \/ squeezed
         /\ \/ "CC2" \in sr /\ setup >= T_ON
            \/ {"UIF", "CC2"} \cap sr = {} /\ ccr2 < cnt /\ cnt - ccr2 + setup >= T_ON

\* The rest of the period is long enough for the gap.
IGap ==
  "UIF" \in dier /\ step = {} /\ asked = {} =>
    \/ squeezed
    \/ low >= T_OFF_MIN
    \/ "UIF" \notin sr /\ cnt + low >= T_OFF_MIN

IInv == TypeOK /\ IChannels /\ IPulse /\ IDelayed /\ IGap

-----------------------------------------------------------------------------
(* The helpers.                                                            *)

\* The times are positive.
LEMMA Times ==
  /\ T_OFF \in Nat /\ T_OFF > 0 /\ T_OFF_MIN \in Nat /\ T_OFF_MIN > 0
  /\ T_ON \in Nat /\ T_ON > 0 /\ LATENCY \in Nat /\ WAKE \in Nat
BY ConstantsAssumption

\* A compare value some ticks ahead of CNT.
LEMMA TicksAhead ==
  ASSUME NEW c \in Nat, NEW t \in Nat, t > 0, c >= t
  PROVE  c - t \in Nat /\ c - t < c /\ c - (c - t) = t
OBVIOUS

\* A distance that is all still to come.
LEMMA AllToCome ==
  ASSUME NEW c, NEW r, NEW t \in Nat, c - r = t, NEW z, z = 0
  PROVE  c - r + z >= t
OBVIOUS

\* At least is transitive.
LEMMA AtLeast ==
  ASSUME NEW a \in Nat, NEW b \in Nat, NEW c \in Nat, a >= b, b >= c
  PROVE  a >= c
OBVIOUS

\* And so is it of a sum.
LEMMA AtLeastSum ==
  ASSUME NEW a \in Nat, NEW b \in Nat, NEW c \in Nat, a >= c
  PROVE  a + b >= c
OBVIOUS

\* CNT has the room that was asked for, and is not moved down.
LEMMA RoomFor ==
  ASSUME cnt \in Nat, NEW over \in BOOLEAN, NEW room \in Nat
  PROVE  Room(over, room) \in Nat /\ Room(over, room) >= room
BY DEF Room

\* A time that is counted up to a limit.
LEMMA CountedUp ==
  ASSUME NEW limit \in Nat, NEW t \in 0 .. limit
  PROVE  UpTo(limit, t) \in 0 .. limit /\ UpTo(limit, t) >= t
         /\ (UpTo(limit, t) = t + 1 \/ UpTo(limit, t) = limit)
BY DEF UpTo

\* A pulse that is started: CC1 is armed T_OFF ticks ahead, before the end of the
\* period, and nothing that was latched is left.
LEMMA StepOut ==
  ASSUME TypeOK, NEW s \in SUBSET Axes, NEW over \in BOOLEAN, NEW enabled \in SUBSET Channel,
         _stepper_step_out(s, over, enabled)
  PROVE  /\ step' = s /\ high' \in 0 .. T_OFF /\ low' \in 0 .. T_OFF_MIN
         /\ cnt' \in Nat /\ ccr1' \in Nat /\ ccr1' < cnt' /\ cnt' - ccr1' = T_OFF
         /\ sr' = {} /\ dier' = enabled \cup {"CC1"}
         /\ (s # {} => low' = low) /\ (step = {} /\ s # {} => high' = 0)
<1>1. t_on_off_min \in Nat /\ t_on_off_min >= T_OFF
  BY Times DEF t_on_off_min
<1>2. cnt' \in Nat /\ cnt' >= T_OFF /\ ccr1' = cnt' - T_OFF
  BY <1>1, Times, RoomFor DEF _stepper_step_out, TypeOK
<1>3. ccr1' \in Nat /\ ccr1' < cnt' /\ cnt' - ccr1' = T_OFF
  BY <1>2, Times, TicksAhead
<1>4. 0 \in 0 .. T_OFF /\ 0 \in 0 .. T_OFF_MIN
  BY Times
<1> QED BY <1>2, <1>3, <1>4 DEF _stepper_step_out, stepper_step_out, TypeOK

-----------------------------------------------------------------------------
(* The types.                                                              *)

\* What a call of the core leaves in the registers and on the pins.
LEMMA PulseTypes ==
  ASSUME TypeOK, NEW s \in SUBSET Axes, NEW d \in SUBSET Axes,
         NEW enabled \in SUBSET Channel, PulseStart(s, d, enabled)
  PROVE  /\ cnt' \in Nat /\ ccr1' \in Nat /\ ccr2' \in Nat
         /\ sr' \subseteq Channel /\ dier' \subseteq Channel
         /\ step' \subseteq Axes /\ dir' \subseteq Axes
         /\ out' \subseteq Axes /\ asked' \subseteq Axes
         /\ high' \in 0 .. T_OFF /\ low' \in 0 .. T_OFF_MIN /\ setup' \in 0 .. T_ON
<1>1. dir' \subseteq Axes /\ setup' \in 0 .. T_ON
  <2>1. stepper_dir_out(NewDir(d))
    BY DEF PulseStart, PulseNow, PulseLater
  <2>2. NewDir(d) \subseteq Axes
    BY DEF NewDir, TypeOK
  <2>3. 0 \in 0 .. T_ON
    BY Times
  <2> QED BY <2>1, <2>2, <2>3 DEF stepper_dir_out, TypeOK
<1>2. CASE delayed /\ s \cap d # {}
  <2>1. PulseLater(s, d, enabled)
    BY <1>2 DEF PulseStart
  <2>2. t_dly_off_min \in Nat /\ t_dly_off_min >= T_ON
    BY Times DEF t_dly_off_min, t_on_off_min
  <2>3. cnt' \in Nat /\ cnt' >= T_ON
    <3>1. cnt \in Nat /\ FALSE \in BOOLEAN
      BY DEF TypeOK
    <3>2. cnt' \in Nat /\ cnt' >= t_dly_off_min
      BY <2>1, <2>2, <3>1, RoomFor DEF PulseLater
    <3> QED BY <2>2, <3>2, Times, AtLeast
  <2>4. ccr2' \in Nat
    BY <2>1, <2>3, Times, TicksAhead DEF PulseLater
  <2> QED BY <1>1, <2>1, <2>3, <2>4 DEF PulseLater, TypeOK, Channel
<1>3. CASE ~(delayed /\ s \cap d # {}) /\ s # {}
  <2>1. /\ _stepper_step_out(s, FALSE, enabled)
        /\ UNCHANGED <<ccr2, out, asked>>
    BY <1>3 DEF PulseStart, PulseNow
  <2>2. FALSE \in BOOLEAN
    OBVIOUS
  <2>3. /\ step' = s /\ high' \in 0 .. T_OFF /\ low' \in 0 .. T_OFF_MIN
        /\ cnt' \in Nat /\ ccr1' \in Nat
        /\ sr' = {} /\ dier' = enabled \cup {"CC1"}
    BY <2>1, <2>2, StepOut
  <2> QED BY <1>1, <2>1, <2>3 DEF TypeOK, Channel
<1>4. CASE ~(delayed /\ s \cap d # {}) /\ s = {}
  BY <1>1, <1>4 DEF PulseStart, PulseNow, TypeOK
<1> QED BY <1>2, <1>3, <1>4

LEMMA TypesKept ==
  ASSUME TypeOK, [Next]_vars
  PROVE  TypeOK'
<1>1. CASE Tick
  <2>1. cnt' \in Nat /\ sr' \subseteq Channel /\ late' \in 0 .. LATENCY
    BY <1>1, Times DEF Tick, TypeOK, Channel
  <2>2. high' \in 0 .. T_OFF /\ low' \in 0 .. T_OFF_MIN /\ setup' \in 0 .. T_ON
    BY <1>1, Times, CountedUp DEF Tick, TypeOK
  <2> QED BY <1>1, <2>1, <2>2 DEF Tick, TypeOK, pins, fore
<1>2. CASE DelayOver
  <2>1. out \in SUBSET Axes /\ ("UIF" \in sr) \in BOOLEAN /\ dier \ {"CC2"} \in SUBSET Channel
    BY DEF TypeOK
  <2>2. /\ step' = out /\ high' \in 0 .. T_OFF /\ low' \in 0 .. T_OFF_MIN
        /\ cnt' \in Nat /\ ccr1' \in Nat
        /\ sr' = {} /\ dier' = (dier \ {"CC2"}) \cup {"CC1"}
    BY <1>2, <2>1, StepOut DEF DelayOver
  <2>3. late' \in 0 .. LATENCY /\ asked' = {}
    BY <1>2, Times DEF DelayOver, Handler
  <2> QED BY <1>2, <2>1, <2>2, <2>3 DEF DelayOver, Handler, fore, TypeOK, Channel
<1>3. CASE PulseOver
  <2>1. cnt' \in Nat
    <3>1. cnt \in Nat /\ ("UIF" \in sr) \in BOOLEAN
      BY DEF TypeOK
    <3> QED BY <1>3, <3>1, Times, RoomFor DEF PulseOver
  <2>2. /\ step' = {} /\ high' \in 0 .. T_OFF /\ low' \in 0 .. T_OFF_MIN
        /\ late' \in 0 .. LATENCY
    BY <1>3, Times DEF PulseOver, Handler, stepper_step_out, TypeOK
  <2>3. sr' \subseteq Channel /\ dier' \subseteq Channel /\ squeezed' \in BOOLEAN
    BY <1>3 DEF PulseOver, TypeOK
  <2> QED BY <1>3, <2>1, <2>2, <2>3 DEF PulseOver, Handler, fore, TypeOK
<1>4. CASE Callback \/ LastCallback
  <2>1. PICK s \in SUBSET Axes, d \in SUBSET Axes, enabled \in {dier, dier \ {"UIF"}} :
          PulseStart(s, d, enabled)
    BY <1>4 DEF Callback, LastCallback
  <2>2. enabled \in SUBSET Channel
    BY DEF TypeOK
  <2>3. arr' \in Nat
    BY <1>4, ConstantsAssumption DEF Callback, LastCallback, SetPeriod, TypeOK
  <2>4. /\ late' \in 0 .. LATENCY
        /\ UNCHANGED <<cen, pc, load, delayed, squeezed>>
    BY <1>4, Times DEF Callback, LastCallback, Handler, fore
  <2>5. /\ cnt' \in Nat /\ ccr1' \in Nat /\ ccr2' \in Nat
        /\ sr' \subseteq Channel /\ dier' \subseteq Channel
        /\ step' \subseteq Axes /\ dir' \subseteq Axes
        /\ out' \subseteq Axes /\ asked' \subseteq Axes
        /\ high' \in 0 .. T_OFF /\ low' \in 0 .. T_OFF_MIN /\ setup' \in 0 .. T_ON
    BY <2>1, <2>2, PulseTypes
  <2> QED BY <2>3, <2>4, <2>5 DEF TypeOK
<1>5. CASE stepperWakeUp
  BY <1>5, Times DEF stepperWakeUp, pins, fore, history, TypeOK, Channel
<1>6. CASE GoIdleLoad \/ GoIdleStore
  BY <1>6 DEF GoIdleLoad, GoIdleStore, counter, flags, pins, history, TypeOK
<1>7. CASE GoIdleClear
  <2>1. /\ step' = {} /\ dir' = {} /\ asked' = {} /\ pc' = "idle" /\ delayed' \in BOOLEAN
        /\ UNCHANGED <<counter, flags, out, load, late, squeezed>>
    BY <1>7 DEF GoIdleClear, stepper_dir_out, stepper_step_out
  <2>2. high' \in 0 .. T_OFF /\ low' \in 0 .. T_OFF_MIN /\ setup' \in 0 .. T_ON
    BY <1>7, Times DEF GoIdleClear, stepper_dir_out, stepper_step_out, TypeOK
  <2> QED BY <2>1, <2>2 DEF counter, flags, TypeOK
<1>8. CASE UNCHANGED vars
  BY <1>8 DEF vars, counter, flags, pins, fore, history, TypeOK
<1> QED BY <1>1, <1>2, <1>3, <1>4, <1>5, <1>6, <1>7, <1>8 DEF Next

-----------------------------------------------------------------------------
(* The callback of the core.                                               *)

\* When the core is called no pulse is in flight or owed, no channel is armed, and
\* the gap is over.
LEMMA AtCallback ==
  ASSUME IInv, "UIF" \in sr \cap dier, {"CC1", "CC2"} \cap sr \cap dier = {}
  PROVE  /\ step = {} /\ asked = {} /\ pc # "clear"
         /\ "CC1" \notin dier /\ "CC2" \notin dier
         /\ low >= T_OFF_MIN \/ squeezed
<1>1. pc # "clear"
  BY DEF IInv, IChannels
<1>2. step = {}
  BY <1>1 DEF IInv, IPulse
<1>3. asked = {}
  BY <1>1 DEF IInv, IDelayed
<1> QED BY <1>1, <1>2, <1>3 DEF IInv, IChannels, IGap

\* What a call of the core does, by the two functions of pulse_start.
CalledBack(enabled) ==
  /\ \E s, d \in SUBSET Axes : PulseStart(s, d, enabled)
  /\ "UIF" \in sr \cap dier /\ {"CC1", "CC2"} \cap sr \cap dier = {}
  /\ UNCHANGED <<pc, load, squeezed>>

LEMMA CallbackInv ==
  ASSUME IInv, TypeOK', NEW enabled \in {dier, dier \ {"UIF"}}, CalledBack(enabled)
  PROVE  IInv' /\ (step' # {} => low >= T_OFF_MIN \/ squeezed)
<1> USE Times
<1>1. PICK s \in SUBSET Axes, d \in SUBSET Axes : PulseStart(s, d, enabled)
  BY DEF CalledBack
<1>2. /\ step = {} /\ asked = {} /\ pc # "clear"
      /\ "CC1" \notin dier /\ "CC2" \notin dier
      /\ low >= T_OFF_MIN \/ squeezed
      /\ UNCHANGED <<pc, load, squeezed>>
  BY AtCallback DEF CalledBack
<1>3. /\ enabled \in SUBSET Channel /\ enabled \subseteq dier
      /\ TypeOK /\ low \in Int /\ high \in Int /\ setup \in Int
  BY DEF IInv, TypeOK
<1>4. NewDir(d) # dir => setup' = 0
  BY <1>1 DEF PulseStart, PulseNow, PulseLater, stepper_dir_out
<1>5. CASE ~(delayed /\ s \cap d # {}) /\ s # {}
  <2>1. /\ _stepper_step_out(s, FALSE, enabled)
        /\ UNCHANGED <<ccr2, out, asked>>
    BY <1>1, <1>5 DEF PulseStart, PulseNow
  <2>2. /\ step' = s /\ high' = 0 /\ low' = low
        /\ cnt' \in Nat /\ ccr1' \in Nat /\ ccr1' < cnt' /\ cnt' - ccr1' = T_OFF
        /\ sr' = {} /\ dier' = enabled \cup {"CC1"}
    BY <1>2, <1>3, <1>5, <2>1, StepOut
  <2>4. IChannels'
    BY <1>2, <1>3, <1>5, <2>1, <2>2 DEF IInv, IChannels
  <2>5. IPulse'
    <3>1. cnt' - ccr1' + high' >= T_OFF
      BY <2>2, AllToCome
    <3> QED BY <2>2, <3>1 DEF IPulse
  <2>6. IDelayed' /\ IGap'
    BY <1>2, <1>5, <2>1, <2>2 DEF IDelayed, IGap
  <2> QED BY <1>2, <2>4, <2>5, <2>6 DEF IInv
<1>6. CASE ~(delayed /\ s \cap d # {}) /\ s = {}
  <2>1. /\ sr' = {} /\ dier' = enabled
        /\ UNCHANGED <<cnt, ccr1, ccr2, step, high, low, out, asked>>
    BY <1>1, <1>6 DEF PulseStart, PulseNow
  <2>3. IChannels'
    BY <1>2, <1>3, <2>1 DEF IInv, IChannels
  <2>4. IPulse' /\ IDelayed' /\ IGap'
    BY <1>2, <2>1 DEF IPulse, IDelayed, IGap
  <2> QED BY <1>2, <2>1, <2>3, <2>4 DEF IInv
<1>7. CASE delayed /\ s \cap d # {}
  <2>1. /\ out' = s /\ asked' = s /\ s # {}
        /\ cnt' = Room(FALSE, t_dly_off_min) /\ ccr2' = cnt' - T_ON
        /\ sr' = {} /\ dier' = enabled \cup {"CC2"}
        /\ UNCHANGED <<ccr1, step, high, low>>
    BY <1>1, <1>7 DEF PulseStart, PulseLater
  <2>2. NewDir(d) # dir
    <3>1. PICK a \in s \cap d : TRUE
      BY <1>7
    <3>2. a \in NewDir(d) <=> a \notin dir
      BY <3>1 DEF NewDir
    <3> QED BY <3>2
  <2>3. t_dly_off_min \in Nat /\ t_dly_off_min >= T_ON
    BY DEF t_dly_off_min, t_on_off_min
  <2>9. cnt' \in Nat /\ cnt' >= T_ON
    <3>1. cnt' \in Nat /\ cnt' >= t_dly_off_min
      <4>1. cnt \in Nat /\ FALSE \in BOOLEAN
        BY <1>3 DEF TypeOK
      <4> QED BY <4>1, <2>1, <2>3, RoomFor
    <3> QED BY <3>1, <2>3, AtLeast
  <2>4. ccr2' \in Nat /\ ccr2' < cnt' /\ cnt' - ccr2' = T_ON
    BY <2>1, <2>9, TicksAhead
  <2>6. IChannels'
    BY <1>2, <1>3, <2>1 DEF IInv, IChannels
  <2>7. IPulse' /\ IGap'
    BY <1>2, <2>1 DEF IPulse, IGap
  <2>8. IDelayed'
    <3>1. cnt' - ccr2' + setup' >= T_ON
      BY <1>4, <2>2, <2>4
    <3>2. low' >= T_OFF_MIN \/ squeezed'
      BY <1>2, <2>1
    <3> QED BY <1>2, <2>1, <2>4, <3>1, <3>2 DEF IDelayed
  <2> QED BY <1>2, <2>1, <2>6, <2>7, <2>8 DEF IInv
<1> QED BY <1>5, <1>6, <1>7

LEMMA CalledBackBy ==
  ASSUME Callback \/ LastCallback
  PROVE  CalledBack(dier) \/ CalledBack(dier \ {"UIF"})
BY DEF Callback, LastCallback, CalledBack, Handler, fore

-----------------------------------------------------------------------------
(* The other steps.                                                        *)

\* One tick towards a compare value that is still ahead: either it is reached, and
\* the time is up, or it is still ahead.
LEMMA OneTick ==
  ASSUME NEW c \in Nat, NEW r \in Nat, NEW limit \in Nat, NEW t \in 0 .. limit,
         r < c, c - r + t >= limit
  PROVE  /\ c # 0
         /\ r = c - 1 => UpTo(limit, t) >= limit
         /\ r # c - 1 => r < c - 1 /\ c - 1 - r + UpTo(limit, t) >= limit
BY DEF UpTo

LEMMA TickInv ==
  ASSUME IInv, TypeOK', Tick
  PROVE  IInv'
<1>1. /\ UNCHANGED <<arr, ccr1, ccr2, cen, dier, step, dir, out, pc, load, squeezed, asked>>
      /\ cnt' = (IF cnt = 0 THEN arr ELSE cnt - 1)
      /\ high' = UpTo(T_OFF, high) /\ low' = UpTo(T_OFF_MIN, low)
      /\ setup' = UpTo(T_ON, setup)
      /\ sr \subseteq sr'
      /\ "UIF" \in sr' => "UIF" \in sr \/ cnt = 0
      /\ "CC1" \in sr' <=> "CC1" \in sr \/ cnt' = ccr1
      /\ "CC2" \in sr' <=> "CC2" \in sr \/ cnt' = ccr2
  BY DEF Tick, pins, fore
<1>2. /\ cnt \in Nat /\ ccr1 \in Nat /\ ccr2 \in Nat
      /\ high \in 0 .. T_OFF /\ low \in 0 .. T_OFF_MIN /\ setup \in 0 .. T_ON
      /\ high' >= high /\ low' >= low /\ setup' >= setup
      /\ high' \in Nat /\ low' \in Nat /\ setup' \in Nat
  BY <1>1, Times, CountedUp DEF IInv, TypeOK
<1>3. IChannels'
  BY <1>1 DEF IInv, IChannels
<1>4. IPulse'
  <2>1. CASE "CC1" \in sr /\ high >= T_OFF
    <3>1. "CC1" \in sr' /\ high' >= T_OFF
      BY <1>1, <1>2, <2>1, Times
    <3> QED BY <1>1, <3>1 DEF IInv, IPulse
  <2>2. CASE {"UIF", "CC1"} \cap sr = {} /\ ccr1 < cnt /\ cnt - ccr1 + high >= T_OFF
    <3>1. /\ cnt # 0
          /\ ccr1 = cnt - 1 => high' >= T_OFF
          /\ ccr1 # cnt - 1 => ccr1 < cnt - 1 /\ cnt - 1 - ccr1 + high' >= T_OFF
      BY <1>1, <1>2, <2>2, Times, OneTick
    <3>2. cnt' = cnt - 1 /\ "UIF" \notin sr'
      BY <1>1, <2>2, <3>1
    <3>3. CASE ccr1 = cnt - 1
      BY <1>1, <3>1, <3>2, <3>3 DEF IInv, IPulse
    <3>4. CASE ccr1 # cnt - 1
      <4>1. "CC1" \notin sr'
        BY <1>1, <2>2, <3>2, <3>4
      <4> QED BY <1>1, <3>1, <3>2, <3>4, <4>1 DEF IInv, IPulse
    <3> QED BY <3>3, <3>4
  <2> QED BY <1>1, <2>1, <2>2 DEF IInv, IPulse
<1>5. IDelayed'
  <2>1. SUFFICES ASSUME asked # {}, "CC2" \in dier
                 PROVE  /\ low' >= T_OFF_MIN \/ squeezed'
                        /\ \/ "CC2" \in sr' /\ setup' >= T_ON
                           \/ /\ {"UIF", "CC2"} \cap sr' = {} /\ ccr2' < cnt'
                              /\ cnt' - ccr2' + setup' >= T_ON
    BY <1>1 DEF IInv, IDelayed
  <2>2. low' >= T_OFF_MIN \/ squeezed'
    <3>1. low >= T_OFF_MIN \/ squeezed
      BY <2>1 DEF IInv, IDelayed
    <3> QED BY <1>1, <1>2, <3>1, Times
  <2>3. CASE "CC2" \in sr /\ setup >= T_ON
    <3>1. "CC2" \in sr' /\ setup' >= T_ON
      BY <1>1, <1>2, <2>3, Times
    <3> QED BY <2>2, <3>1
  <2>4. CASE {"UIF", "CC2"} \cap sr = {} /\ ccr2 < cnt /\ cnt - ccr2 + setup >= T_ON
    <3>1. /\ cnt # 0
          /\ ccr2 = cnt - 1 => setup' >= T_ON
          /\ ccr2 # cnt - 1 => ccr2 < cnt - 1 /\ cnt - 1 - ccr2 + setup' >= T_ON
      BY <1>1, <1>2, <2>4, Times, OneTick
    <3>2. cnt' = cnt - 1 /\ "UIF" \notin sr'
      BY <1>1, <2>4, <3>1
    <3>3. CASE ccr2 = cnt - 1
      BY <1>1, <2>2, <3>1, <3>2, <3>3
    <3>4. CASE ccr2 # cnt - 1
      <4>1. "CC2" \notin sr'
        BY <1>1, <2>4, <3>2, <3>4
      <4> QED BY <1>1, <2>2, <3>1, <3>2, <3>4, <4>1
    <3> QED BY <3>3, <3>4
  <2> QED BY <2>1, <2>3, <2>4 DEF IInv, IDelayed
<1>6. IGap'
  <2>1. CASE squeezed
    BY <1>1, <2>1 DEF IGap
  <2>2. CASE low >= T_OFF_MIN
    <3>1. low' >= T_OFF_MIN
      BY <1>2, <2>2, Times
    <3> QED BY <3>1 DEF IGap
  <2>3. CASE "UIF" \notin sr /\ cnt + low >= T_OFF_MIN /\ ~(low >= T_OFF_MIN)
    <3>1. /\ cnt # 0 /\ low' = low + 1
      BY <1>1, <1>2, <2>3, Times DEF UpTo
    <3>2. cnt' = cnt - 1 /\ "UIF" \notin sr'
      BY <1>1, <2>3, <3>1
    <3>3. cnt' + low' >= T_OFF_MIN
      BY <1>2, <2>3, <3>1, <3>2, Times
    <3> QED BY <3>2, <3>3 DEF IGap
  <2> QED BY <1>1, <2>1, <2>2, <2>3 DEF IInv, IGap
<1> QED BY <1>3, <1>4, <1>5, <1>6 DEF IInv

\* The delayed pulse begins, or a stray one: the pins were low unless go_idle is
\* about to clear them.
LEMMA DelayOverFacts ==
  ASSUME IInv, DelayOver
  PROVE  /\ step' = out /\ out # {} /\ asked' = {} /\ sr' = {}
         /\ UNCHANGED <<out, pc, load, squeezed>>
         /\ dier' = (dier \ {"CC2"}) \cup {"CC1"} /\ "CC1" \notin dier
         /\ pc # "clear" => step = {} /\ high' = 0
         /\ ccr1' < cnt' /\ cnt' - ccr1' = T_OFF
<1>1. /\ out # {} /\ "CC1" \notin dier /\ (pc # "clear" => step = {})
  BY DEF IInv, IChannels, IPulse, DelayOver
<1>2. out \in SUBSET Axes /\ ("UIF" \in sr) \in BOOLEAN /\ dier \ {"CC2"} \in SUBSET Channel
  BY DEF IInv, TypeOK
<1>3. /\ _stepper_step_out(out, "UIF" \in sr, dier \ {"CC2"})
      /\ asked' = {} /\ UNCHANGED <<out, pc, load, squeezed>>
  BY DEF DelayOver, Handler, fore
<1>4. TypeOK
  BY DEF IInv
<1>5. /\ step' = out /\ sr' = {} /\ dier' = (dier \ {"CC2"}) \cup {"CC1"}
      /\ ccr1' < cnt' /\ cnt' - ccr1' = T_OFF
      /\ step = {} /\ out # {} => high' = 0
  BY <1>2, <1>3, <1>4, StepOut
<1> QED BY <1>1, <1>3, <1>5

LEMMA DelayOverInv ==
  ASSUME IInv, TypeOK', DelayOver
  PROVE  IInv'
<1>1. IChannels'
  BY DelayOverFacts DEF IInv, IChannels
<1>2. IPulse'
  <2>1. SUFFICES ASSUME pc # "clear" PROVE IPulse'
    BY DelayOverFacts DEF IPulse
  <2>2. cnt' - ccr1' + high' >= T_OFF
    BY <2>1, DelayOverFacts, Times, AllToCome
  <2> QED BY <2>2, DelayOverFacts DEF IPulse
<1>3. IDelayed' /\ IGap'
  BY DelayOverFacts DEF IDelayed, IGap
<1> QED BY <1>1, <1>2, <1>3 DEF IInv

\* The pulse ends, with room for the gap behind it unless the period is over.
LEMMA PulseOverInv ==
  ASSUME IInv, TypeOK', PulseOver
  PROVE  IInv'
<1>1. /\ step' = {} /\ sr' = sr \ {"CC1"} /\ dier' = dier \ {"CC1"}
      /\ squeezed' = ("UIF" \in sr)
      /\ UNCHANGED <<out, pc, load, asked>>
      /\ "CC2" \notin dier
  BY DEF PulseOver, Handler, fore, stepper_step_out, IInv, IChannels
<1>2. IChannels'
  BY <1>1 DEF PulseOver, IInv, IChannels
<1>3. IPulse' /\ IDelayed'
  BY <1>1 DEF IInv, IPulse, IDelayed
<1>4. IGap'
  <2>1. CASE "UIF" \in sr
    BY <1>1, <2>1 DEF IGap
  <2>2. CASE "UIF" \notin sr
    <3>1. cnt \in Nat /\ FALSE \in BOOLEAN /\ ("UIF" \in sr) = FALSE
      BY <2>2 DEF IInv, TypeOK
    <3>2. cnt' = Room(FALSE, T_OFF_MIN)
      BY <3>1 DEF PulseOver
    <3>3. cnt' \in Nat /\ cnt' >= T_OFF_MIN
      BY <3>1, <3>2, Times, RoomFor
    <3>4. low' \in Nat
      BY Times DEF TypeOK
    <3>5. cnt' + low' >= T_OFF_MIN
      BY <3>3, <3>4, Times, AtLeastSum
    <3> QED BY <1>1, <2>2, <3>5 DEF IGap
  <2> QED BY <2>1, <2>2
<1> QED BY <1>2, <1>3, <1>4 DEF IInv

\* The first period is long enough for the gap behind a pulse that has just ended.
LEMMA WakeUpInv ==
  ASSUME WokenIdle, LongWake, IInv, TypeOK', stepperWakeUp
  PROVE  IInv'
<1>1. /\ step' = {} /\ asked' = {} /\ pc' # "clear" /\ dier' = {"UIF"}
      /\ sr' = {} /\ cnt' = WAKE /\ UNCHANGED <<out, load>>
  BY DEF stepperWakeUp, WokenIdle, At, pins, fore
<1>2. cnt' + low' >= T_OFF_MIN
  <2>1. low' \in Nat
    BY Times DEF TypeOK
  <2>2. WAKE + low' >= T_OFF_MIN
    BY <2>1, Times, AtLeastSum DEF LongWake
  <2> QED BY <1>1, <2>2
<1> QED BY <1>1, <1>2 DEF IInv, IChannels, IPulse, IDelayed, IGap

LEMMA GoIdleInv ==
  ASSUME IInv, TypeOK', GoIdleLoad \/ GoIdleStore \/ GoIdleClear
  PROVE  IInv'
<1>1. CASE GoIdleLoad
  BY <1>1 DEF GoIdleLoad, At, counter, flags, pins, history,
              IInv, IChannels, IPulse, IDelayed, IGap
<1>2. CASE GoIdleStore
  <2>1. /\ dier' = load \ {"UIF"} /\ pc = "store" /\ pc' = "clear"
        /\ UNCHANGED <<cnt, ccr2, sr, step, out, load, low, setup, squeezed, asked>>
    BY <1>2 DEF GoIdleStore, At, counter, pins, history
  <2>2. IChannels' /\ IPulse' /\ IGap'
    BY <2>1 DEF IInv, IChannels, IPulse, IGap
  <2>3. IDelayed'
    BY <2>1 DEF IInv, IDelayed
  <2> QED BY <2>2, <2>3 DEF IInv
<1>3. CASE GoIdleClear
  <2>1. /\ step' = {} /\ asked' = {} /\ pc = "clear" /\ pc' = "idle"
        /\ UNCHANGED <<dier, out, load>>
    BY <1>3 DEF GoIdleClear, At, stepper_step_out, flags
  <2> QED BY <2>1 DEF IInv, IChannels, IPulse, IDelayed, IGap
<1> QED BY <1>1, <1>2, <1>3

LEMMA StepInv ==
  ASSUME WokenIdle, LongWake, IInv, [Next]_vars
  PROVE  IInv'
<1>1. TypeOK'
  BY TypesKept DEF IInv
<1>2. CASE Callback \/ LastCallback
  BY <1>1, <1>2, CallbackInv, CalledBackBy
<1>3. CASE UNCHANGED vars
  BY <1>3 DEF vars, counter, flags, pins, fore, history,
              IInv, TypeOK, IChannels, IPulse, IDelayed, IGap
<1> QED BY <1>1, <1>2, <1>3, TickInv, DelayOverInv, PulseOverInv, WakeUpInv, GoIdleInv DEF Next

LEMMA InitInv == Init => IInv
<1> SUFFICES ASSUME Init PROVE IInv
  OBVIOUS
<1>1. TypeOK
  <2>1. T_OFF \in 0 .. T_OFF /\ T_OFF_MIN \in 0 .. T_OFF_MIN /\ T_ON \in 0 .. T_ON
        /\ 0 \in 0 .. LATENCY /\ 0 \in Nat
    BY Times
  <2> QED BY <2>1 DEF Init, TypeOK
<1> QED BY <1>1 DEF Init, IInv, IChannels, IPulse, IDelayed, IGap

LEMMA Invariant == ASSUME WokenIdle, LongWake PROVE Spec => []IInv
<1>1. IInv /\ [Next]_vars => IInv'
  BY StepInv
<1> QED BY <1>1, InitInv, PTL DEF Spec

-----------------------------------------------------------------------------
(* The theorems.                                                           *)

\* The registers stay in their ranges, whatever wakes the timer: no compare value of
\* _stepper_step_out or stepperPulseStartDelayed is below zero, because CNT is moved
\* up first (driver.c 606-616, 705-727).
THEOREM NoCompareBelowZero == Spec => []TypeOK
<1>1. Init => TypeOK
  BY InitInv DEF IInv
<1>2. TypeOK /\ [Next]_vars => TypeOK'
  BY TypesKept
<1> QED BY <1>1, <1>2, PTL DEF Spec

\* A pulse that a stop does not cut lasts as long as the setting says, whatever was
\* left of the period when it began, the latency of the handler and the period.
THEOREM PulsesAreWhole == ASSUME WokenIdle, LongWake PROVE Spec => PulseWidth
<1>1. IInv /\ [Next]_vars => [step # {} /\ step' = {} => high >= T_OFF \/ pc = "clear"]_vars
  <2> SUFFICES ASSUME IInv, Next, step # {}, step' = {}, pc # "clear"
               PROVE  high >= T_OFF
    OBVIOUS
  <2>1. PulseOver
    <3>1. ~DelayOver
      BY DelayOverFacts
    <3>2. ~(Callback \/ LastCallback)
      BY AtCallback DEF Callback, LastCallback
    <3>3. ~GoIdleClear
      BY DEF GoIdleClear, At
    <3>4. ~(Tick \/ stepperWakeUp \/ GoIdleLoad \/ GoIdleStore)
      BY DEF Tick, stepperWakeUp, GoIdleLoad, GoIdleStore, pins
    <3> QED BY <3>1, <3>2, <3>3, <3>4 DEF Next
  <2> QED BY <2>1 DEF PulseOver, IInv, IPulse
<1> QED BY <1>1, Invariant, PTL DEF Spec, PulseWidth

\* Every pulse the core asks for is an edge of its own: when it asks, the pins are low
\* and nothing is owed, and before a pulse they are low for the minimum time unless
\* the handler was a whole period late.
THEOREM PulsesAreApart == ASSUME WokenIdle, LongWake PROVE Spec => PulseGap
<1> DEFINE Gap ==
      /\ Callback \/ LastCallback => step = {} /\ asked = {}
      /\ step = {} /\ step' # {} => low >= T_OFF_MIN \/ squeezed \/ Stray
<1>1. IInv /\ [Next]_vars => [Gap]_vars
  <2> SUFFICES ASSUME IInv, Next PROVE Gap
    OBVIOUS
  <2>1. CASE Callback \/ LastCallback
    <3>1. step = {} /\ asked = {}
      BY <2>1, AtCallback DEF Callback, LastCallback
    <3>2. low >= T_OFF_MIN \/ squeezed
      BY <2>1, AtCallback DEF Callback, LastCallback
    <3> QED BY <3>1, <3>2
  <2>2. CASE DelayOver
    <3>1. ~(Callback \/ LastCallback)
      BY <2>2 DEF DelayOver, Callback, LastCallback
    <3>2. asked # {} => low >= T_OFF_MIN \/ squeezed
      BY <2>2 DEF DelayOver, IInv, IDelayed
    <3> QED BY <2>2, <3>1, <3>2 DEF Stray
  <2>3. CASE ~(Callback \/ LastCallback) /\ ~DelayOver
    <3>1. step' = {} \/ step' = step
      BY <2>3 DEF Next, Tick, PulseOver, stepperWakeUp, GoIdleLoad, GoIdleStore, GoIdleClear,
                  pins, stepper_step_out
    <3> QED BY <2>3, <3>1
  <2> QED BY <2>1, <2>2, <2>3
<1> QED BY <1>1, Invariant, PTL DEF Spec, PulseGap

\* The pins of a delayed pulse rise no sooner than T_ON after the direction has
\* changed, and the direction does not change while they are active.
THEOREM DirectionIsSetUp == ASSUME WokenIdle, LongWake PROVE Spec => DirIsStable
<1> DEFINE Stable ==
      /\ DelayOver => setup >= T_ON \/ Stray
      /\ dir' # dir => step = {} \/ pc = "clear"
<1>1. IInv /\ [Next]_vars => [Stable]_vars
  <2> SUFFICES ASSUME IInv, Next PROVE Stable
    OBVIOUS
  <2>1. DelayOver => setup >= T_ON \/ Stray
    BY DEF DelayOver, Stray, IInv, IDelayed
  <2>2. dir' # dir => step = {} \/ pc = "clear"
    <3>1. CASE Callback \/ LastCallback
      BY <3>1, AtCallback DEF Callback, LastCallback
    <3>2. CASE ~(Callback \/ LastCallback)
      BY <3>2 DEF Next, Tick, DelayOver, PulseOver, stepperWakeUp, GoIdleLoad, GoIdleStore,
                  GoIdleClear, At, pins
    <3> QED BY <3>1, <3>2
  <2> QED BY <2>1, <2>2
<1> QED BY <1>1, Invariant, PTL DEF Spec, DirIsStable

=============================================================================
