-------------------------- MODULE DacChannelProofs --------------------------
(***************************************************************************)
(* Proofs about DacChannel for every set of setpoints and threads, every   *)
(* rational ramp rate, phase resolution, rounding of the increment to a    *)
(* float, and raised cosine that does not fall between -Pi and 0.          *)
(*                                                                         *)
(* TypeOK needs that the last point is at phase zero: the phase handed to  *)
(* the CORDIC when the ramp ends is then still in its range.  RampMonotone *)
(* speaks of the output of the pipeline; PipeOK says that its stages hold  *)
(* points of one and the same ramp, in the order of their phases.          *)
(* Where a ramp stops, RampLandsShort, depends on which points these are:  *)
(* StopOK counts the phase and the stages behind it in whole increments.   *)
(***************************************************************************)
EXTENDS DacChannel, TLAPS

LastPointAtZero == last_point => phase = 0

-----------------------------------------------------------------------------
(* Arithmetic                                                              *)

\* Dividing a natural number does not enlarge it.
LEMMA DivRange ==
  ASSUME NEW a \in Nat, NEW n \in Nat \ {0} PROVE a \div n \in 0 .. a
OBVIOUS

\* A quotient of integers is an integer.
LEMMA DivInt ==
  ASSUME NEW a \in Int, NEW n \in Nat \ {0} PROVE a \div n \in Int
OBVIOUS

\* Division by a positive number keeps the order.
LEMMA DivMono ==
  ASSUME NEW a \in Int, NEW b \in Int, NEW n \in Nat \ {0}, a <= b
  PROVE  a \div n <= b \div n
OBVIOUS

\* A multiple is divided exactly.
LEMMA DivExact ==
  ASSUME NEW a \in Int, NEW n \in Nat \ {0} PROVE (a * n) \div n = a
OBVIOUS

\* Multiplication keeps the order, or turns it round for a negative factor.
LEMMA MulMono ==
  ASSUME NEW d \in Int, NEW a \in Int, NEW b \in Int, a <= b
  PROVE  /\ d >= 0 => d * a <= d * b
         /\ d <= 0 => d * b <= d * a
<1>1. d >= 0 => d * (b - a) >= 0
  OBVIOUS
<1>2. d <= 0 => d * (b - a) <= 0
  OBVIOUS
<1>. QED
  BY <1>1, <1>2

\* A word keeps what fits into it, and never holds more.
LEMMA WrapRange ==
  ASSUME NEW x \in Int, NEW h \in Nat \ {0}
  PROVE  /\ Wrap(x, h) \in -h .. h - 1
         /\ x \in -h .. h - 1 => Wrap(x, h) = x
BY DEF Wrap

\* Setpoints are integers.
LEMMA SetptsInt == \A v \in Setpts : v \in Int
BY DacAssumption

\* The sizes of words and steps.
LEMMA Sizes ==
  /\ Word \in Nat \ {0} /\ Limit \in 0 .. Word - 1 /\ 0 \in Setpts
  /\ MaxCmds \in Nat /\ Rate \in Nat \ {0} /\ RateDiv \in Nat \ {0}
  /\ PhaseHalf \in Nat \ {0} /\ Pi \in 1 .. PhaseHalf - 1
  /\ One \in Nat \ {0} /\ Gain \in Int /\ Offset \in Int
BY DacAssumption

\* The raised cosine rises from 0 to 1 over half a turn.
LEMMA Cosine ==
  /\ RaisedCos \in [Pi - PhaseHalf .. Pi -> 0 .. One]
  /\ RaisedCos[0] = 0 /\ RaisedCos[Pi] = One
  /\ \A p, q \in 0 .. Pi : p <= q => RaisedCos[p] <= RaisedCos[q]
BY DacAssumption

USE Sizes

\* So is what goes to the DAC, and a phase increment.
LEMMA RangesInt ==
  /\ 0 \in DacRange /\ \A v \in DacRange : v \in Int
  /\ 0 \in PhaseIncs /\ \A i \in PhaseIncs : i \in Int
BY DEF DacRange, PhaseIncs

\* The output after gain and offset saturates within the DAC.
LEMMA GainOffsetRange ==
  ASSUME NEW raw \in Int PROVE GainOffset(raw) \in DacRange
<1>. DEFINE oc == Wrap(raw - Offset, Word)
            v  == Wrap((oc * Gain) \div One, Word)
<1>1. oc \in Int
  BY WrapRange
<1>2. (oc * Gain) \div One \in Int
  <2>. HIDE DEF oc
  <2>1. oc * Gain \in Int
    BY <1>1
  <2>. QED
    BY <2>1, DivInt
<1>3. v \in -Word .. Word - 1
  BY <1>2, WrapRange
<1>. HIDE DEF oc, v
<1>4. GainOffset(raw) =
        CASE HighRes /\ v < 0 /\ oc >= 0  -> Word - 1
          [] HighRes /\ v >= 0 /\ oc < 0  -> -Word
          [] ~HighRes /\ v > Limit        -> Limit
          [] ~HighRes /\ v < -Limit - 1   -> -Limit - 1
          [] OTHER                        -> v
  BY DEF GainOffset, oc, v
<1>5. CASE HighRes
  BY <1>1, <1>3, <1>4, <1>5 DEF DacRange
<1>6. CASE ~HighRes
  BY <1>1, <1>3, <1>4, <1>6 DEF DacRange
<1>. QED
  BY <1>5, <1>6

\* A phase increment fits its register.
LEMMA PhaseIncRange ==
  ASSUME NEW from \in Int, NEW to \in Int
  PROVE  PhaseInc(Samples(from, to)) \subseteq PhaseIncs
<1>1. Abs(to - from) \in Nat
  BY DEF Abs
<1>2. Abs(to - from) * RateDiv \in Nat
  BY <1>1
<1>3. Samples(from, to) \in Nat
  BY <1>2, DivRange DEF Samples
<1>4. ASSUME NEW n \in Nat \ {0} PROVE Pi \div n \in 0 .. Pi
  BY DivRange
<1>5. ASSUME NEW i \in 0 .. Pi PROVE ToFloat[i] \in PhaseIncs
  BY DacAssumption DEF PhaseIncs
<1>6. 0 \in PhaseIncs /\ -1 \in PhaseIncs
  BY DEF PhaseIncs
<1>. QED
  BY <1>3, <1>4, <1>5, <1>6 DEF PhaseInc

-----------------------------------------------------------------------------
(* Types                                                                   *)

\* The state of smooth_ramp, without the CORDIC and the last two stages.
RampTypes ==
    /\ state \in {"IDLE", "RUN_RAMP"} /\ last_point \in BOOLEAN
    /\ new_setpt_prev \in Setpts /\ new_setpt_lat \in Setpts
    /\ old_setpt \in DacRange
    /\ phase \in -PhaseHalf .. PhaseHalf - 1 /\ phase_out \in -PhaseHalf .. 0
    /\ raised_cos \in 0 .. One /\ rampout_wdiff \in Int
    /\ samples \in 0 .. 2 /\ astray \in BOOLEAN /\ held \in BOOLEAN
    /\ LastPointAtZero

ThreadTypes ==
    /\ mode \in Modes /\ setpoint \in Setpts
    /\ phase_inc \in PhaseIncs /\ inc \in [Threads -> PhaseIncs]
    /\ pc \in [Threads -> {"idle", "calc", "inc", "setpt"}]
    /\ new_setpt \in [Threads -> Setpts]
    /\ cmds \in 0 .. MaxCmds
    /\ asked \in {"no", "same", "changed"}

OutputTypes ==
    /\ dac_setpt \in DacRange /\ cordic \in -PhaseHalf .. 0
    /\ rampout_fp \in Int /\ rampout \in Int

TInv == RampTypes /\ ThreadTypes /\ OutputTypes

\* The quantities of a ramp are integers.
LEMMA RampInts ==
  ASSUME TInv
  PROVE  /\ old_setpt \in Int /\ new_setpt_lat \in Int
         /\ raised_cos \in Int /\ phase_inc \in Int
<1>1. /\ old_setpt \in DacRange /\ new_setpt_lat \in Setpts
      /\ raised_cos \in 0 .. One /\ phase_inc \in PhaseIncs
  BY DEF TInv, RampTypes, ThreadTypes
<1>2. raised_cos \in Int
  BY <1>1
<1>. QED
  BY <1>1, <1>2, RangesInt, SetptsInt, Zenon

\* A clock of the IDLE state keeps the types of the ramp.
LEMMA IdleTypes ==
  ASSUME TInv, setpoint' \in Setpts, Idle, state = "IDLE" \/ last_point
  PROVE  RampTypes'
<1>. USE DEF TInv, RampTypes, OutputTypes, LastPointAtZero
<1>1. /\ phase' \in -PhaseHalf .. PhaseHalf - 1 /\ last_point' = FALSE
      /\ raised_cos' \in 0 .. One /\ rampout_wdiff' \in Int
      /\ new_setpt_prev' \in Setpts
  BY DEF Idle
<1>2. CASE StartRamp
  <2>1. phase_out' \in -PhaseHalf .. 0 /\ samples' \in 0 .. 2
    BY <1>2 DEF StartRamp
  <2>2. /\ state' \in {"IDLE", "RUN_RAMP"}
        /\ old_setpt' \in DacRange /\ new_setpt_lat' \in Setpts
    BY <1>2 DEF StartRamp
  <2>3. astray' \in BOOLEAN /\ held' \in BOOLEAN
    BY <1>2 DEF StartRamp
  <2>. QED
    BY <1>1, <2>1, <2>2, <2>3
<1>3. CASE /\ state' = "IDLE"
           /\ UNCHANGED <<old_setpt, new_setpt_lat, samples, astray, held>>
           /\ phase_out' = IF state = "IDLE" THEN phase_out ELSE phase
  <2>1. phase_out' \in -PhaseHalf .. 0
    BY <1>3
  <2>. QED
    BY <1>1, <1>3, <2>1
<1>. QED
  BY <1>2, <1>3 DEF Idle

\* A register write keeps the types of ramp and output.
LEMMA WrittenTypes ==
  ASSUME TInv, setpoint' \in Setpts, Written, state = "IDLE" \/ UNCHANGED held
  PROVE  RampTypes' /\ OutputTypes'
<1>1. OutputTypes'
  BY DEF TInv, OutputTypes, Written
<1>2. CASE state = "IDLE"
  BY <1>1, <1>2, IdleTypes DEF Written
<1>3. CASE state # "IDLE"
  BY <1>1, <1>3 DEF TInv, RampTypes, LastPointAtZero, Written, latched, phases
<1>. QED
  BY <1>2, <1>3

\* A trigger keeps the types, the last point at phase zero included.
LEMMA TickTypes ==
  ASSUME TInv, Tick PROVE TInv'
<1>. USE DEF TInv
<1>1. ThreadTypes'
  BY DEF ThreadTypes, Tick, registers, threads
<1>2. dac_setpt' \in DacRange
  <2>1. setpoint \in Int /\ rampout \in Int /\ \A v \in Setpts : v \in Int
    BY SetptsInt DEF ThreadTypes, OutputTypes
  <2>. QED
    BY <2>1, GainOffsetRange DEF Tick
<1>3. cordic' \in -PhaseHalf .. 0
  BY DEF Tick, RampTypes
<1>4. CASE state = "RUN_RAMP"
  <2>. RunRamp
    BY <1>4 DEF Tick
  <2>1. rampout_fp' \in Int /\ rampout' \in Int
    BY DivInt DEF RunRamp, RampTypes, OutputTypes
  <2>2. CASE last_point
    <3>1. setpoint' \in Setpts
      BY <1>1 DEF ThreadTypes
    <3>. QED
      BY <1>1, <1>2, <1>3, <2>1, <2>2, <3>1, IdleTypes DEF RunRamp, OutputTypes
  <2>3. CASE ~last_point
    <3>1. UNCHANGED <<state, new_setpt_prev, new_setpt_lat, old_setpt, held>>
      BY <2>3 DEF RunRamp, latched
    <3>2. raised_cos' \in 0 .. One /\ astray' \in BOOLEAN
      <4>1. PICK p \in {cordic, phase_out} :
                 /\ raised_cos' = RaisedCos[p + Pi]
                 /\ astray' = (astray \/ (samples = 0 /\ p # -Pi) \/ phase_inc < 0)
        BY <2>3 DEF RunRamp
      <4>2. p + Pi \in Pi - PhaseHalf .. Pi
        BY DEF RampTypes, OutputTypes
      <4>. QED
        BY <4>1, <4>2, Cosine DEF RampTypes
    <3>3. rampout_wdiff' \in Int /\ samples' \in 0 .. 2
      BY <2>3, RampInts DEF RunRamp, RampTypes
    <3>4. /\ phase' \in -PhaseHalf .. PhaseHalf - 1
          /\ phase_out' \in -PhaseHalf .. 0
          /\ last_point' \in BOOLEAN /\ LastPointAtZero'
      <4>1. CASE phase > 0
        BY <2>3, <4>1 DEF RunRamp, AdvancePhase, RampTypes, LastPointAtZero
      <4>2. CASE ~(phase > 0)
        <5>1. phase + phase_inc \in Int /\ PhaseHalf \in Nat \ {0}
          BY DEF RampTypes, ThreadTypes, PhaseIncs
        <5>2. phase' \in -PhaseHalf .. PhaseHalf - 1
          BY <2>3, <4>2, <5>1, WrapRange DEF RunRamp, AdvancePhase
        <5>. QED
          BY <2>3, <4>2, <5>2 DEF RunRamp, AdvancePhase, RampTypes,
             LastPointAtZero
      <4>. QED
        BY <4>1, <4>2
    <3>. QED
      BY <1>1, <1>2, <1>3, <2>1, <3>1, <3>2, <3>3, <3>4
         DEF RampTypes, OutputTypes
  <2>. QED
    BY <2>2, <2>3
<1>5. CASE state = "IDLE"
  <2>1. UNCHANGED <<state, last_point, latched, phases, pipeline, samples,
                    astray, held>>
    BY <1>5 DEF Tick
  <2>. QED
    BY <1>1, <1>2, <1>3, <2>1 DEF RampTypes, OutputTypes, LastPointAtZero,
       latched, phases, pipeline
<1>. QED
  BY <1>4, <1>5 DEF RampTypes

\* A step of a setting thread keeps the types.
LEMMA ThreadStepTypes ==
  ASSUME TInv, NEW t \in Threads, Command(t) \/ Step(t) PROVE TInv'
<1>. USE DEF TInv
<1>1. ASSUME NEW m \in Modes, Set_dacOpmode(t, m) PROVE TInv'
  <2>1. ThreadTypes'
    BY <1>1 DEF Set_dacOpmode, ThreadTypes
  <2>. QED
    BY <1>1, <2>1, WrittenTypes DEF Set_dacOpmode, ThreadTypes
<1>2. ASSUME NEW v \in Setpts, Set_dac(t, v) PROVE TInv'
  <2>1. ThreadTypes'
    BY <1>2 DEF Set_dac, ThreadTypes, registers, history
  <2>. QED
    BY <1>2, <2>1 DEF Set_dac, RampTypes, OutputTypes, LastPointAtZero, latched,
       phases, pipeline, history
<1>3. CASE CalcSmooth(t)
  <2>1. new_setpt[t] \in Int /\ dac_setpt \in Int
    <3>1. new_setpt[t] \in Setpts
      BY DEF ThreadTypes
    <3>2. new_setpt[t] \in Int
      BY <3>1, SetptsInt, Zenon
    <3>3. dac_setpt \in Int
      BY DEF OutputTypes, DacRange
    <3>. QED
      BY <3>2, <3>3
  <2>2. inc' \in [Threads -> PhaseIncs]
    <3>1. PhaseInc(Samples(dac_setpt, new_setpt[t])) \subseteq PhaseIncs
      BY <2>1, PhaseIncRange
    <3>2. PICK i \in PhaseIncs : inc' = [inc EXCEPT ![t] = i]
      BY <1>3, <3>1 DEF CalcSmooth
    <3>. QED
      BY <3>2 DEF ThreadTypes
  <2>3. ThreadTypes'
    BY <1>3, <2>2 DEF CalcSmooth, ThreadTypes, registers, history
  <2>. QED
    BY <1>3, <2>3 DEF CalcSmooth, RampTypes, OutputTypes, LastPointAtZero,
       latched, phases, pipeline, history
<1>4. CASE WriteInc(t)
  <2>1. ThreadTypes'
    BY <1>4, RangesInt DEF WriteInc, ThreadTypes
  <2>2. held' \in BOOLEAN
    BY <1>4 DEF WriteInc, RampTypes
  <2>. QED
    BY <1>4, <2>1, <2>2 DEF WriteInc, RampTypes, OutputTypes, LastPointAtZero,
       latched, phases, pipeline
<1>5. CASE WriteSetpt(t)
  <2>1. ThreadTypes'
    BY <1>5 DEF WriteSetpt, ThreadTypes
  <2>. QED
    BY <1>5, <2>1, WrittenTypes DEF WriteSetpt, ThreadTypes
<1>. QED
  BY <1>1, <1>2, <1>3, <1>4, <1>5 DEF Command, Step

\* Every step keeps the types.
LEMMA TypesInductive ==
  ASSUME TInv, [Next]_vars PROVE TInv'
<1>1. CASE UNCHANGED vars
  BY <1>1 DEF TInv, RampTypes, ThreadTypes, OutputTypes, LastPointAtZero, vars,
     registers, latched, phases, pipeline, threads, history
<1>. QED
  BY <1>1, TickTypes, ThreadStepTypes DEF Next

\* The types hold at first.
LEMMA TypesInitial == Init => TInv
<1>. SUFFICES ASSUME Init PROVE TInv
  OBVIOUS
<1>1. RampTypes
  <2>1. /\ phase \in -PhaseHalf .. PhaseHalf - 1
        /\ phase_out \in -PhaseHalf .. 0
        /\ old_setpt \in DacRange
        /\ raised_cos \in 0 .. One /\ rampout_wdiff \in Int
        /\ samples \in 0 .. 2
    BY RangesInt DEF Init
  <2>2. astray \in BOOLEAN /\ held \in BOOLEAN /\ last_point = FALSE
    BY DEF Init
  <2>. QED
    BY <2>1, <2>2 DEF Init, RampTypes, LastPointAtZero
<1>2. ThreadTypes
  BY RangesInt DEF Init, ThreadTypes, Modes
<1>3. OutputTypes
  BY RangesInt DEF Init, OutputTypes
<1>. QED
  BY <1>1, <1>2, <1>3 DEF TInv

\* Whatever commands are interleaved with the triggers, and whatever increment
\* they write, a negative one included, the CORDIC is never given a positive
\* phase, and the setpoint of the DAC and the starting point of every ramp lie in
\* the range of the DAC.
THEOREM TypeCorrect == Spec => []TypeOK
<1>1. TInv => TypeOK
  BY DEF TInv, RampTypes, ThreadTypes, OutputTypes, TypeOK
<1>. QED
  BY <1>1, TypesInitial, TypesInductive, PTL DEF Spec

-----------------------------------------------------------------------------
(* The ramp only comes closer to its target                                *)

\* The point of the present ramp at the value c of the raised cosine.
Point(c) == old_setpt + ((new_setpt_lat - old_setpt) * c) \div One

\* A ramp that has not had a trigger: the pipeline is empty.
Fresh ==
    /\ raised_cos = 0 /\ rampout_wdiff = 0
    /\ phase = -Pi /\ phase_out = -Pi

\* c2, c3 and c4 are the cosines whose points the later stages hold.
Ordered(c2, c3, c4) ==
    /\ c4 <= c3 /\ c3 <= c2 /\ c2 <= raised_cos
    /\ rampout_wdiff = (new_setpt_lat - old_setpt) * c2
    /\ rampout_fp = Point(c3)
    /\ samples = 2 => rampout = Point(c4)

PipeOK ==
    state = "RUN_RAMP" /\ ~astray =>
        /\ -Pi <= phase_out /\ phase_out <= phase
        /\ samples = 0 => Fresh
        /\ samples > 0 =>
              /\ -Pi <= cordic /\ cordic <= phase_out
              /\ raised_cos <= RaisedCos[cordic + Pi]
              /\ \E c2, c3, c4 \in 0 .. One : Ordered(c2, c3, c4)

\* A higher cosine is a point nearer to the target, from either side.
LEMMA Nearer ==
  ASSUME NEW d \in Int, NEW c \in 0 .. One, NEW e \in 0 .. One, c <= e
  PROVE  Abs(d - ((d * e) \div One)) <= Abs(d - ((d * c) \div One))
<1>. DEFINE x == (d * c) \div One
            y == (d * e) \div One
<1>1. d * c \in Int /\ d * e \in Int /\ d * One \in Int
  OBVIOUS
<1>2. x \in Int /\ y \in Int
  BY <1>1, DivInt
<1>3. (d * One) \div One = d
  BY DivExact
<1>4. CASE d >= 0
  <2>1. d * c <= d * e /\ d * e <= d * One
    BY <1>4, MulMono
  <2>2. x <= y /\ y <= d
    BY <1>1, <1>3, <2>1, DivMono
  <2>. QED
    BY <1>2, <2>2 DEF Abs
<1>5. CASE d <= 0
  <2>1. d * e <= d * c /\ d * One <= d * e
    BY <1>5, MulMono
  <2>2. y <= x /\ d <= y
    BY <1>1, <1>3, <2>1, DivMono
  <2>. QED
    BY <1>2, <2>2 DEF Abs
<1>. QED
  BY <1>4, <1>5

\* A ramp starts with an empty pipeline.
LEMMA IdlePipe ==
  ASSUME Idle PROVE PipeOK'
<1>1. CASE StartRamp
  BY <1>1 DEF Idle, StartRamp, PipeOK, Fresh
<1>2. CASE state' = "IDLE"
  BY <1>2 DEF PipeOK
<1>. QED
  BY <1>1, <1>2 DEF Idle

\* One stage further: each stage takes the cosine of the stage before it.
LEMMA RunPipe ==
  ASSUME TInv, PipeOK, Tick, state = "RUN_RAMP", ~last_point PROVE PipeOK'
<1>. USE DEF TInv
<1>1. RunRamp /\ cordic' = phase_out
  BY DEF Tick
<1>2. PICK p \in {cordic, phase_out} :
           /\ raised_cos' = RaisedCos[p + Pi]
           /\ astray' = (astray \/ (samples = 0 /\ p # -Pi) \/ phase_inc < 0)
  BY <1>1 DEF RunRamp
<1>3. /\ rampout_fp' = old_setpt + (rampout_wdiff \div One)
      /\ rampout' = rampout_fp
      /\ rampout_wdiff' = (new_setpt_lat - old_setpt) * raised_cos
      /\ samples' = IF samples < 2 THEN samples + 1 ELSE samples
      /\ UNCHANGED <<state, new_setpt_lat, old_setpt>>
  BY <1>1 DEF RunRamp, latched
<1>4. samples' > 0 /\ samples' \in 1 .. 2
  BY <1>3 DEF RampTypes
<1>5. SUFFICES ASSUME ~astray'
               PROVE  /\ -Pi <= phase_out' /\ phase_out' <= phase'
                      /\ -Pi <= phase_out /\ phase_out <= phase_out'
                      /\ raised_cos' <= RaisedCos[phase_out + Pi]
                      /\ \E c2, c3, c4 \in 0 .. One : Ordered(c2, c3, c4)'
  BY <1>1, <1>4 DEF PipeOK
<1>6. ~astray /\ phase_inc >= 0
  <2>1. ~astray /\ ~(samples = 0 /\ p # -Pi) /\ ~(phase_inc < 0)
    BY <1>2, <1>5, Zenon
  <2>. QED
    BY <2>1, RampInts
<1>7. /\ -Pi <= phase_out' /\ phase_out' <= phase'
      /\ -Pi <= phase_out /\ phase_out <= phase_out'
  <2>1. -Pi <= phase_out /\ phase_out <= phase
    BY <1>6 DEF PipeOK
  <2>2. CASE phase > 0
    BY <1>1, <2>1, <2>2 DEF RunRamp, AdvancePhase, RampTypes
  <2>3. CASE ~(phase > 0)
    <3>1. phase + phase_inc \in -PhaseHalf .. PhaseHalf - 1
      BY <1>6, <2>3 DEF RampTypes, ThreadTypes, PhaseIncs
    <3>2. phase' = phase + phase_inc /\ phase_out' = phase
      BY <1>1, <2>3, <3>1, WrapRange DEF RunRamp, AdvancePhase
    <3>. QED
      BY <1>6, <2>1, <3>2 DEF RampTypes, ThreadTypes, PhaseIncs
  <2>. QED
    BY <2>2, <2>3
<1>8. /\ p + Pi \in Pi - PhaseHalf .. Pi /\ phase_out + Pi \in 0 .. Pi
      /\ phase_out + Pi \in Pi - PhaseHalf .. Pi
  BY <1>7 DEF RampTypes, OutputTypes
<1>9. CASE samples = 0
  <2>1. Fresh /\ p = -Pi
    BY <1>2, <1>5, <1>6, <1>9 DEF PipeOK
  <2>2. raised_cos' = 0
    BY <1>2, <2>1, Cosine
  <2>3. rampout_fp' = old_setpt /\ rampout_wdiff' = 0
    BY <1>3, <2>1, RampInts DEF Fresh
  <2>4. Ordered(0, 0, 0)'
    BY <1>3, <1>9, <2>2, <2>3, RampInts DEF Ordered, Point
  <2>5. raised_cos' <= RaisedCos[phase_out + Pi]
    BY <1>8, <2>2, Cosine
  <2>. QED
    BY <1>7, <2>4, <2>5
<1>10. CASE samples > 0
  <2>1. /\ -Pi <= cordic /\ cordic <= phase_out
        /\ raised_cos <= RaisedCos[cordic + Pi]
        /\ \E c2, c3, c4 \in 0 .. One : Ordered(c2, c3, c4)
    BY <1>6, <1>10 DEF PipeOK
  <2>2. PICK c2 \in 0 .. One, c3 \in 0 .. One, c4 \in 0 .. One :
             Ordered(c2, c3, c4)
    BY <2>1
  <2>3. cordic <= p /\ p <= phase_out
    BY <2>1 DEF RampTypes, OutputTypes
  <2>4. /\ RaisedCos[cordic + Pi] <= RaisedCos[p + Pi]
        /\ RaisedCos[p + Pi] <= RaisedCos[phase_out + Pi]
    <3>1. /\ cordic + Pi <= p + Pi /\ p + Pi <= phase_out + Pi
          /\ cordic + Pi \in 0 .. Pi /\ p + Pi \in 0 .. Pi
      BY <2>1, <2>3 DEF RampTypes, OutputTypes
    <3>. QED
      BY <1>8, <3>1, Cosine
  <2>5. raised_cos <= raised_cos' /\ raised_cos' <= RaisedCos[phase_out + Pi]
    <3>1. cordic + Pi \in Pi - PhaseHalf .. Pi
      BY DEF OutputTypes
    <3>2. RaisedCos[cordic + Pi] \in Int /\ RaisedCos[p + Pi] \in Int
      BY <1>8, <3>1, Cosine
    <3>. QED
      BY <1>2, <2>1, <2>4, <3>2 DEF RampTypes
  <2>6. rampout_fp' = Point(c2) /\ rampout' = Point(c3)
    BY <1>3, <2>2 DEF Ordered, Point
  <2>7. Point(c2)' = Point(c2) /\ Point(c3)' = Point(c3)
    BY <1>3 DEF Point
  <2>8. PICK c1 \in 0 .. One : c1 = raised_cos
    BY DEF RampTypes
  <2>9. Ordered(c1, c2, c3)'
    BY <1>3, <2>2, <2>5, <2>6, <2>7, <2>8 DEF Ordered
  <2>. QED
    BY <1>7, <2>5, <2>9
<1>. QED
  BY <1>9, <1>10 DEF RampTypes

\* Every step keeps the order of the stages.
LEMMA PipeInductive ==
  ASSUME TInv, PipeOK, [Next]_vars PROVE PipeOK'
<1>. DEFINE ramp == <<state, latched, phases, cordic, pipeline, samples, astray>>
<1>1. CASE UNCHANGED ramp
  BY <1>1 DEF PipeOK, Fresh, Ordered, Point, latched, phases, pipeline
<1>2. CASE Tick
  <2>1. CASE state = "RUN_RAMP" /\ last_point
    BY <1>2, <2>1, IdlePipe DEF Tick, RunRamp
  <2>2. CASE state = "RUN_RAMP" /\ ~last_point
    BY <1>2, <2>2, RunPipe
  <2>3. CASE state = "IDLE"
    BY <1>2, <2>3 DEF Tick, PipeOK
  <2>. QED
    BY <2>1, <2>2, <2>3 DEF TInv, RampTypes
<1>3. CASE Written
  <2>1. CASE state = "IDLE"
    BY <1>3, <2>1, IdlePipe DEF Written
  <2>2. CASE state # "IDLE"
    BY <1>1, <1>3, <2>2 DEF Written, pipeline
  <2>. QED
    BY <2>1, <2>2
<1>4. ASSUME NEW t \in Threads, Command(t) \/ Step(t)
      PROVE  Written \/ UNCHANGED ramp
  BY <1>4 DEF Command, Step, Set_dacOpmode, Set_dac, CalcSmooth, WriteInc,
     WriteSetpt, history
<1>5. UNCHANGED vars => UNCHANGED ramp
  BY DEF vars, history
<1>. QED
  BY <1>1, <1>2, <1>3, <1>4, <1>5 DEF Next

\* The stages of the pipeline of smooth_ramp hold points of the present ramp,
\* each at a cosine no higher than that of the stage before it.
THEOREM PipelineOrdered == Spec => [](TInv /\ PipeOK)
<1>1. Init => PipeOK
  BY DEF Init, PipeOK
<1>. QED
  BY <1>1, TypesInitial, TypesInductive, PipeInductive, PTL DEF Spec

\* Only a trigger moves the output of the ramp, to the stage before it.
LEMMA OutputMoves ==
  ASSUME [Next]_vars, state = "RUN_RAMP"
  PROVE  rampout' = rampout \/ rampout' = rampout_fp
<1>1. CASE Tick
  BY <1>1 DEF Tick, RunRamp
<1>2. ASSUME NEW t \in Threads, Command(t) \/ Step(t) PROVE rampout' = rampout
  BY <1>2 DEF Command, Step, Set_dacOpmode, Set_dac, CalcSmooth, WriteInc,
     WriteSetpt, Written, pipeline
<1>3. CASE UNCHANGED vars
  BY <1>3 DEF vars, pipeline
<1>. QED
  BY <1>1, <1>2, <1>3 DEF Next

\* For every rate, resolution and pair of setpoints of either sign, and whatever
\* is written to the increment and the setpoint while the ramp runs: from its
\* third sample on the output of smooth_ramp never moves away from the target of
\* the ramp, unless a trigger met a negative increment or the first cosine was
\* that of another ramp.
THEOREM RampOnlyApproaches == Spec => RampMonotone
<1>1. ASSUME TInv, PipeOK, [Next]_vars,
             state = "RUN_RAMP", samples = 2, ~astray
      PROVE  Abs(new_setpt_lat - rampout') <= Abs(new_setpt_lat - rampout)
  <2>. DEFINE d == new_setpt_lat - old_setpt
              x(c) == (d * c) \div One
  <2>1. PICK c2 \in 0 .. One, c3 \in 0 .. One, c4 \in 0 .. One :
             Ordered(c2, c3, c4)
    BY <1>1 DEF PipeOK
  <2>2. d \in Int /\ old_setpt \in Int
    BY <1>1, RampInts
  <2>3. x(c3) \in Int /\ x(c4) \in Int
    <3>1. d * c3 \in Int /\ d * c4 \in Int
      BY <2>2
    <3>. QED
      BY <3>1, DivInt
  <2>4. rampout_fp = old_setpt + x(c3) /\ rampout = old_setpt + x(c4)
    BY <1>1, <2>1 DEF Ordered, Point
  <2>5. Abs(d - x(c3)) <= Abs(d - x(c4))
    BY <2>1, <2>2, Nearer DEF Ordered
  <2>6. /\ new_setpt_lat - rampout_fp = d - x(c3)
        /\ new_setpt_lat - rampout = d - x(c4)
    <3>1. new_setpt_lat \in Int
      BY <1>1, SetptsInt DEF TInv, RampTypes
    <3>. HIDE DEF x
    <3>. QED
      BY <2>2, <2>3, <2>4, <3>1
  <2>7. Abs(new_setpt_lat - rampout) <= Abs(new_setpt_lat - rampout)
    <3>1. d - x(c4) \in Int
      BY <2>2, <2>3
    <3>. QED
      BY <2>6, <3>1 DEF Abs
  <2>8. CASE rampout' = rampout
    BY <2>7, <2>8
  <2>9. CASE rampout' = rampout_fp
    BY <2>5, <2>6, <2>9
  <2>. QED
    BY <1>1, <2>8, <2>9, OutputMoves
<1>2. ASSUME TInv, PipeOK, [Next]_vars
      PROVE  [state = "RUN_RAMP" /\ samples = 2 /\ ~astray =>
                Abs(new_setpt_lat - rampout')
                   <= Abs(new_setpt_lat - rampout)]_vars
  BY <1>1, <1>2
<1>. QED
  BY <1>2, PipelineOrdered, PTL DEF Spec, RampMonotone

-----------------------------------------------------------------------------
(* Where a ramp stops                                                      *)

\* The points of the ramp that are n samples before its last one.
Before(n) ==
    LET last == (Pi \div phase_inc) * phase_inc
        p    == IF last >= n * phase_inc THEN last - n * phase_inc ELSE 0
    IN  old_setpt + ((new_setpt_lat - old_setpt) * RaisedCos[p]) \div One

\* A ramp whose increment did not change stops exactly two or three samples
\* before its end, as the CORDIC is early or late: the state machine goes idle
\* while the last points are still in the pipeline.
RampLandsShort ==
    [][last_point /\ ~last_point' /\ held /\ ~astray =>
          rampout' \in {Before(2), Before(3)}]_vars

\* The phase handed to the CORDIC, counted from the beginning of the ramp, and
\* the one n samples before it.
Position == phase_out + Pi
Back(n) == IF Position >= n * phase_inc THEN Position - n * phase_inc ELSE 0

\* A point of the present ramp at a phase.
At(p) == Point(RaisedCos[p])

\* The stages of the pipeline hold points at the phases p1 to p4; each has one
\* of two, as the CORDIC was early or late.
Stages(p1, p2, p3, p4) ==
    /\ cordic + Pi = p1
    /\ raised_cos \in {RaisedCos[p1], RaisedCos[p2]}
    /\ \E b \in {p2, p3} :
          rampout_wdiff = (new_setpt_lat - old_setpt) * RaisedCos[b]
    /\ rampout_fp \in {At(p3), At(p4)}

\* A ramp that kept its increment is at a multiple of it, until the last point is
\* recognised at the first phase above zero, which the CORDIC is not given.
StopOK ==
    /\ last_point => state = "RUN_RAMP"
    /\ state = "RUN_RAMP" /\ held /\ ~astray =>
          /\ samples = 0 => Fresh /\ ~last_point
          /\ samples > 0 =>
                /\ phase_inc >= 0
                /\ \E m \in Nat : Position = m * phase_inc
                /\ ~last_point =>
                      /\ phase = phase_out + phase_inc
                      /\ Stages(Back(1), Back(2), Back(3), Back(4))
                /\ last_point =>
                      /\ Position + phase_inc > Pi
                      /\ Stages(Position, Back(1), Back(2), Back(3))

\* The last multiple of h that is not above a is the quotient times h.
LEMMA DivIs ==
  ASSUME NEW a \in Nat, NEW h \in Nat, NEW m \in Nat,
         m * h <= a, a < m * h + h
  PROVE  a \div h = m
<1>1. h > 0
  OBVIOUS
<1>. QED
  BY <1>1

\* The phases before the present one lie within the half turn.
LEMMA BackRange ==
  ASSUME TInv, phase_inc >= 0, \E m \in Nat : Position = m * phase_inc
  PROVE  /\ Position \in 0 .. Pi /\ phase_inc \in Nat
         /\ Back(1) \in 0 .. Pi /\ Back(2) \in 0 .. Pi
         /\ Back(3) \in 0 .. Pi /\ Back(4) \in 0 .. Pi
<1>1. phase_inc \in Nat
  BY DEF TInv, ThreadTypes, PhaseIncs
<1>2. Position >= 0
  BY <1>1
<1>3. Position \in 0 .. Pi
  BY <1>2 DEF TInv, RampTypes, Position
<1>. QED
  BY <1>1, <1>3 DEF Back

\* A trigger moves every stage on by one.
LEMMA StagesMove ==
  ASSUME TInv, Tick, state = "RUN_RAMP", ~last_point,
         NEW q \in 0 .. Pi, q = Position,
         NEW p1 \in 0 .. Pi, NEW p2 \in 0 .. Pi, NEW p3 \in 0 .. Pi,
         NEW p4 \in 0 .. Pi, Stages(p1, p2, p3, p4)
  PROVE  Stages(q, p1, p2, p3)'
<1>1. RunRamp /\ cordic' = phase_out
  BY DEF Tick
<1>2. PICK p \in {cordic, phase_out} : raised_cos' = RaisedCos[p + Pi]
  BY <1>1 DEF RunRamp
<1>3. /\ rampout_fp' = old_setpt + (rampout_wdiff \div One)
      /\ rampout_wdiff' = (new_setpt_lat - old_setpt) * raised_cos
      /\ UNCHANGED <<new_setpt_lat, old_setpt>>
  BY <1>1 DEF RunRamp, latched
<1>4. cordic' + Pi = q
  BY <1>1 DEF Position
<1>5. raised_cos' \in {RaisedCos[q], RaisedCos[p1]}
  BY <1>2 DEF Stages, Position
<1>6. \E b \in {p1, p2} :
         rampout_wdiff' = (new_setpt_lat' - old_setpt') * RaisedCos[b]
  BY <1>3 DEF Stages
<1>7. rampout_fp' \in {At(p2), At(p3)}
  BY <1>3 DEF Stages, At, Point
<1>8. At(p2)' = At(p2) /\ At(p3)' = At(p3)
  BY <1>3 DEF At, Point
<1>. QED
  BY <1>4, <1>5, <1>6, <1>7, <1>8 DEF Stages

\* The first sample of a ramp finds all stages at its beginning.
LEMMA FirstSample ==
  ASSUME TInv, Tick, state = "RUN_RAMP", ~last_point, samples = 0, Fresh, ~astray'
  PROVE  Stages(0, 0, 0, 0)'
<1>1. RunRamp /\ cordic' = phase_out
  BY DEF Tick
<1>2. PICK p \in {cordic, phase_out} :
           /\ raised_cos' = RaisedCos[p + Pi]
           /\ astray' = (astray \/ (samples = 0 /\ p # -Pi) \/ phase_inc < 0)
  BY <1>1 DEF RunRamp
<1>3. /\ rampout_fp' = old_setpt + (rampout_wdiff \div One)
      /\ rampout_wdiff' = (new_setpt_lat - old_setpt) * raised_cos
      /\ UNCHANGED <<new_setpt_lat, old_setpt>>
  BY <1>1 DEF RunRamp, latched
<1>4. p = -Pi
  BY <1>2
<1>5. cordic' + Pi = 0 /\ raised_cos' = RaisedCos[0]
  BY <1>1, <1>2, <1>4 DEF Fresh
<1>6. new_setpt_lat - old_setpt \in Int /\ old_setpt \in Int
  BY RampInts
<1>7. rampout_wdiff' = (new_setpt_lat' - old_setpt') * RaisedCos[0]
  BY <1>3, <1>6, Cosine DEF Fresh
<1>8. rampout_fp' = old_setpt
  BY <1>3, <1>6 DEF Fresh
<1>9. At(0)' = old_setpt
  BY <1>3, <1>6, Cosine DEF At, Point
<1>. QED
  BY <1>5, <1>7, <1>8, <1>9 DEF Stages

\* A clock of the IDLE state leaves no last point and begins a ramp afresh.
LEMMA IdleStop ==
  ASSUME Idle PROVE StopOK'
<1>1. last_point' = FALSE
  BY DEF Idle
<1>2. CASE StartRamp
  BY <1>1, <1>2 DEF Idle, StartRamp, StopOK, Fresh
<1>3. CASE state' = "IDLE"
  BY <1>1, <1>3 DEF StopOK
<1>. QED
  BY <1>2, <1>3 DEF Idle

\* A running ramp moves on by one increment and recognises its last point.
LEMMA RunStop ==
  ASSUME TInv, StopOK, Tick, state = "RUN_RAMP", ~last_point PROVE StopOK'
<1>1. /\ RunRamp /\ AdvancePhase /\ UNCHANGED <<phase_inc, state, held>>
      /\ samples' = IF samples < 2 THEN samples + 1 ELSE samples
  BY DEF Tick, RunRamp, registers
<1>2. samples' > 0 /\ samples \in 0 .. 2
  BY <1>1 DEF TInv, RampTypes
<1>. SUFFICES ASSUME held, ~astray'
              PROVE  /\ phase_inc' >= 0
                     /\ \E m \in Nat : Position' = m * phase_inc'
                     /\ ~last_point' =>
                           /\ phase' = phase_out' + phase_inc'
                           /\ Stages(Back(1), Back(2), Back(3), Back(4))'
                     /\ last_point' =>
                           /\ Position' + phase_inc' > Pi
                           /\ Stages(Position, Back(1), Back(2), Back(3))'
  BY <1>1, <1>2 DEF StopOK
<1>3. ~astray /\ phase_inc \in Nat /\ phase_inc' \in Nat
  <2>1. PICK p : astray' = (astray \/ (samples = 0 /\ p # -Pi) \/ phase_inc < 0)
    BY <1>1 DEF RunRamp
  <2>2. ~astray /\ ~(phase_inc < 0)
    BY <2>1, Zenon
  <2>. QED
    BY <1>1, <2>2, RampInts
<1>4. phase <= 0 =>
         /\ phase' = phase + phase_inc /\ phase_out' = phase
         /\ last_point' = last_point
  <2>1. SUFFICES ASSUME phase <= 0
                 PROVE  Wrap(phase + phase_inc, PhaseHalf) = phase + phase_inc
    BY <1>1 DEF AdvancePhase, TInv, RampTypes
  <2>2. phase + phase_inc \in -PhaseHalf .. PhaseHalf - 1
    BY <1>3, <2>1 DEF TInv, RampTypes, ThreadTypes, PhaseIncs
  <2>. QED
    BY <2>2, WrapRange
<1>5. /\ phase \in Int /\ phase_out \in Int
      /\ phase_out' = Position' - Pi
  BY <1>1, <1>4 DEF TInv, RampTypes, AdvancePhase, Position
<1>6. CASE samples = 0
  <2>1. Fresh
    BY <1>3, <1>6 DEF StopOK
  <2>2. phase' = -Pi + phase_inc /\ phase_out' = -Pi /\ last_point' = last_point
    BY <1>4, <2>1 DEF Fresh
  <2>3. Position' = 0 /\ phase_inc' = phase_inc
    BY <1>1, <2>2 DEF Position
  <2>4. Back(1)' = 0 /\ Back(2)' = 0 /\ Back(3)' = 0 /\ Back(4)' = 0
    BY <1>3, <2>3 DEF Back
  <2>5. Stages(0, 0, 0, 0)'
    BY <1>6, <2>1, FirstSample
  <2>6. Stages(Back(1), Back(2), Back(3), Back(4))'
    BY <2>4, <2>5 DEF Stages, At
  <2>7. Position' = 0 * phase_inc'
    BY <1>3, <2>3
  <2>. QED
    BY <1>3, <2>2, <2>3, <2>6, <2>7
<1>7. CASE samples > 0
  <2>1. /\ \E m \in Nat : Position = m * phase_inc
        /\ phase = phase_out + phase_inc
        /\ Stages(Back(1), Back(2), Back(3), Back(4))
    BY <1>3, <1>7 DEF StopOK
  <2>2. PICK q \in 0 .. Pi, b1 \in 0 .. Pi, b2 \in 0 .. Pi, b3 \in 0 .. Pi,
             b4 \in 0 .. Pi :
             /\ q = Position /\ b1 = Back(1) /\ b2 = Back(2)
             /\ b3 = Back(3) /\ b4 = Back(4)
    BY <1>3, <2>1, BackRange
  <2>3. Stages(b1, b2, b3, b4)
    BY <2>1, <2>2
  <2>4. Stages(q, b1, b2, b3)'
    BY <2>2, <2>3, StagesMove
  <2>5. CASE phase > 0
    <3>1. last_point' = TRUE /\ phase_out' = phase_out
      BY <1>1, <2>5 DEF AdvancePhase
    <3>2. Position' = q /\ Back(1)' = b1 /\ Back(2)' = b2 /\ Back(3)' = b3
      BY <1>1, <2>2, <3>1 DEF Position, Back
    <3>3. Stages(Position, Back(1), Back(2), Back(3))'
      BY <2>4, <3>2 DEF Stages, At
    <3>4. Position' + phase_inc' > Pi
      BY <1>1, <1>3, <1>5, <2>1, <2>2, <2>5, <3>2 DEF Position
    <3>. QED
      BY <1>1, <1>3, <2>1, <2>2, <3>1, <3>2, <3>3, <3>4
  <2>6. CASE ~(phase > 0)
    <3>1. /\ last_point' = last_point /\ phase_out' = phase
          /\ phase' = phase + phase_inc
      BY <1>4, <1>5, <2>6
    <3>2. Position' = q + phase_inc /\ phase_inc' = phase_inc
      BY <1>1, <1>3, <1>5, <2>1, <2>2, <3>1 DEF Position
    <3>3. /\ Back(1)' = q /\ Back(2)' = b1 /\ Back(3)' = b2 /\ Back(4)' = b3
      BY <1>3, <2>2, <3>2 DEF Back
    <3>4. Stages(Back(1), Back(2), Back(3), Back(4))'
      BY <2>4, <3>3 DEF Stages, At
    <3>5. PICK m \in Nat : Position = m * phase_inc
      BY <2>1
    <3>6. Position' = (m + 1) * phase_inc'
      BY <1>3, <2>2, <3>2, <3>5
    <3>7. m + 1 \in Nat
      BY <3>5
    <3>8. phase_inc' >= 0 /\ ~last_point' /\ phase' = phase_out' + phase_inc'
      BY <1>3, <3>1, <3>2
    <3>9. \E k \in Nat : Position' = k * phase_inc'
      BY <3>6, <3>7
    <3>. QED
      BY <3>4, <3>8, <3>9, Zenon
  <2>. QED
    BY <2>5, <2>6
<1>. QED
  BY <1>2, <1>6, <1>7

\* What leaves ramp and pipeline alone does not move the stop.
LEMMA StopFrame ==
  ASSUME StopOK, UNCHANGED <<state, last_point, latched, phases, cordic, pipeline,
                             samples, astray>>,
         held' => held /\ (state = "RUN_RAMP" => phase_inc' = phase_inc)
  PROVE  StopOK'
<1>1. CASE state = "RUN_RAMP" /\ held'
  <2>1. held /\ phase_inc' = phase_inc
    BY <1>1
  <2>. QED
    BY <1>1, <2>1 DEF StopOK, Fresh, Stages, At, Point, Back, Position, latched,
       phases, pipeline
<1>2. CASE ~(state = "RUN_RAMP" /\ held')
  BY <1>2 DEF StopOK
<1>. QED
  BY <1>1, <1>2

\* Every step keeps the count of increments.
LEMMA StopInductive ==
  ASSUME TInv, StopOK, [Next]_vars PROVE StopOK'
<1>1. CASE Tick
  <2>1. CASE state = "RUN_RAMP" /\ last_point
    BY <1>1, <2>1, IdleStop DEF Tick, RunRamp
  <2>2. CASE state = "RUN_RAMP" /\ ~last_point
    BY <1>1, <2>2, RunStop
  <2>3. CASE state = "IDLE"
    BY <1>1, <2>3 DEF Tick, StopOK
  <2>. QED
    BY <2>1, <2>2, <2>3 DEF TInv, RampTypes
<1>2. CASE Written /\ (state = "IDLE" \/ UNCHANGED held) /\ UNCHANGED phase_inc
  <2>1. CASE state = "IDLE"
    BY <1>2, <2>1, IdleStop DEF Written
  <2>2. CASE state # "IDLE"
    BY <1>2, <2>2, StopFrame DEF Written, pipeline
  <2>. QED
    BY <2>1, <2>2
<1>3. ASSUME NEW t \in Threads, WriteInc(t) PROVE StopOK'
  BY <1>3, StopFrame DEF WriteInc
<1>4. ASSUME NEW t \in Threads, CalcSmooth(t) \/ \E v \in Setpts : Set_dac(t, v)
      PROVE  StopOK'
  BY <1>4, StopFrame DEF CalcSmooth, Set_dac, history, registers
<1>5. ASSUME NEW t \in Threads,
             WriteSetpt(t) \/ \E m \in Modes : Set_dacOpmode(t, m)
      PROVE  StopOK'
  BY <1>2, <1>5 DEF WriteSetpt, Set_dacOpmode
<1>6. CASE UNCHANGED vars
  BY <1>6, StopFrame DEF vars, history, registers
<1>. QED
  BY <1>1, <1>3, <1>4, <1>5, <1>6 DEF Next, Command, Step

\* A ramp that kept its increment is at a multiple of it, and its pipeline holds
\* the points of the four phases before.
THEOREM StopInvariance == Spec => [](TInv /\ StopOK)
<1>1. Init => StopOK
  BY DEF Init, StopOK
<1>. QED
  BY <1>1, TypesInitial, TypesInductive, StopInductive, PTL DEF Spec

\* For every rate, resolution and pair of setpoints of either sign, a ramp whose
\* increment was not rewritten, and not negative, leaves its output at the point
\* two or three samples before its end: smooth_ramp goes idle while the last
\* points are in its pipeline.
THEOREM StopsShort == Spec => RampLandsShort
<1>1. ASSUME TInv, StopOK, [Next]_vars, last_point, ~last_point', held, ~astray
      PROVE  rampout' \in {Before(2), Before(3)}
  <2>1. state = "RUN_RAMP"
    BY <1>1 DEF StopOK
  <2>2. CASE Tick
    <3>1. rampout' = rampout_fp
      BY <2>1, <2>2 DEF Tick, RunRamp
    <3>2. samples > 0
      BY <1>1, <2>1 DEF StopOK, TInv, RampTypes
    <3>3. PICK m \in Nat : Position = m * phase_inc
      BY <1>1, <2>1, <3>2 DEF StopOK
    <3>4. Position + phase_inc > Pi /\ rampout_fp \in {At(Back(2)), At(Back(3))}
      BY <1>1, <2>1, <3>2 DEF StopOK, Stages
    <3>5. Position \in 0 .. Pi /\ phase_inc \in Nat
      BY <1>1, <2>1, <3>2, <3>3, BackRange DEF StopOK
    <3>6. Pi \div phase_inc = m
      BY <3>3, <3>4, <3>5, DivIs
    <3>7. (Pi \div phase_inc) * phase_inc = Position
      BY <3>3, <3>6
    <3>8. Before(2) = At(Back(2)) /\ Before(3) = At(Back(3))
      BY <3>7 DEF Before, At, Point, Back
    <3>. QED
      BY <3>1, <3>4, <3>8
  <2>3. ASSUME NEW t \in Threads, Command(t) \/ Step(t) PROVE last_point' = last_point
    BY <2>1, <2>3 DEF Command, Step, Set_dacOpmode, Set_dac, CalcSmooth, WriteInc,
       WriteSetpt, Written
  <2>4. CASE UNCHANGED vars
    BY <1>1, <2>4 DEF vars
  <2>. QED
    BY <1>1, <2>2, <2>3, <2>4 DEF Next
<1>2. ASSUME TInv, StopOK, [Next]_vars
      PROVE  [last_point /\ ~last_point' /\ held /\ ~astray =>
                rampout' \in {Before(2), Before(3)}]_vars
  BY <1>1, <1>2
<1>. QED
  BY <1>2, StopInvariance, PTL DEF Spec, RampLandsShort

=============================================================================
