----------------------------- MODULE DacChannel -----------------------------
(***************************************************************************)
(* The setpoint of one channel's DAC in smooth and jump mode: the commands *)
(* Set_dac and Set_dacOpmode (control.c), the raised cosine ramp of        *)
(* smooth_ramp.vhd, the source multiplexer of dac_chan.vhd and the         *)
(* correction of dac_gainoffset.vhd.                                       *)
(*                                                                         *)
(* Tick is one 10 kHz trigger, on which the pipeline of the ramp moves by  *)
(* one stage.  Between triggers lie thousands of clocks, so what the state *)
(* machine does on the first clock in IDLE is part of the step before it.  *)
(* The ramp table and the fast feedback are inputs of the multiplexer.     *)
(*                                                                         *)
(* The CORDIC core is external: at a trigger its output is the cosine of   *)
(* the phase it took at the trigger before, or already that of its input.  *)
(***************************************************************************)
EXTENDS Integers

CONSTANTS
    Word,      \* 2^19: a setpoint is a word of 20 bits, with its sign
    Setpts,    \* setpoints, in DAC units
    Rate,      \* ramp_rate / SAMPLERATE is Rate / RateDiv DAC units per sample
    RateDiv,
    PhaseHalf, \* 2^31: a phase is a word of 32 bits, with its sign
    Pi,        \* POS_PI, in units of the smallest phase increment
    ToFloat,   \* what a phase increment is after its way through a float
    One,       \* full scale of raised_cos
    RaisedCos, \* 0.5 (1 + cos(p - Pi)) in units of 1 / One; below 0, where the
               \* CORDIC is not specified, any value of a cosine
    Gain,      \* of dac_gainoffset, in units of 1 / One
    Offset,    \* of dac_gainoffset
    HighRes,   \* numbits_sel: a DAC of 20 bits, otherwise of 18
    Limit,     \* largest setpoint of the DAC of 18 bits
    Threads,   \* threads that call chan_settings
    MaxCmds    \* bound on the number of commands

ASSUME DacAssumption ==
    /\ Word \in Nat \ {0} /\ Setpts \subseteq -Word .. Word - 1 /\ 0 \in Setpts
    /\ MaxCmds \in Nat
    /\ Rate \in Nat \ {0} /\ RateDiv \in Nat \ {0} /\ One \in Nat \ {0}
    /\ PhaseHalf \in Nat /\ Pi \in 1 .. PhaseHalf - 1
    /\ ToFloat \in [0 .. Pi -> 0 .. PhaseHalf - 1]
    /\ Gain \in Int /\ Offset \in Int /\ HighRes \in BOOLEAN
    /\ Limit \in 0 .. Word - 1
    /\ RaisedCos \in [Pi - PhaseHalf .. Pi -> 0 .. One]
    /\ RaisedCos[0] = 0 /\ RaisedCos[Pi] = One
    /\ \A p, q \in 0 .. Pi : p <= q => RaisedCos[p] <= RaisedCos[q]

\* A signed word that holds -half .. half - 1 keeps the low bits of a number.
Wrap(x, half) == ((x + half) % (2 * half)) - half

Modes == {"smooth", "ramp", "fofb", "jump"}

VARIABLES
    mode, setpoint, phase_inc,   \* registers
    dac_setpt,                   \* to the DAC, and read back as cur_setpt
    state, last_point,           \* smooth_ramp
    new_setpt_prev, new_setpt_lat, old_setpt,
    phase, phase_out, cordic,    \* cordic: the phase taken at the last trigger
    raised_cos, rampout_wdiff, rampout_fp, rampout,
    pc, new_setpt, inc,          \* per thread: Set_dac
    cmds,                        \* commands so far
    samples,                     \* history: triggers of this ramp, up to 2
    astray, held,                \* history: the ramp's first cosine was that of
                                 \* another ramp, or its phase went backwards;
                                 \* its increment never changed
    asked                        \* history: the setpoint was written, "same" or
                                 \* "changed", in smooth mode, not left since

registers == <<mode, setpoint, phase_inc>>
pipeline  == <<raised_cos, rampout_wdiff, rampout_fp, rampout>>
latched   == <<new_setpt_prev, new_setpt_lat, old_setpt>>
phases    == <<phase, phase_out>>
history   == <<samples, astray, held, asked>>
threads   == <<pc, new_setpt, inc, cmds>>

vars == <<registers, dac_setpt, state, last_point, latched, phases, cordic,
          pipeline, threads, history>>

-----------------------------------------------------------------------------
Init ==
    /\ mode = "smooth" /\ setpoint = 0 /\ phase_inc = 0
    /\ dac_setpt = 0
    /\ state = "IDLE" /\ last_point = FALSE
    /\ new_setpt_prev = 0 /\ new_setpt_lat = 0 /\ old_setpt = 0
    /\ phase = -Pi /\ phase_out = -Pi /\ cordic = -Pi
    /\ raised_cos = 0 /\ rampout_wdiff = 0 /\ rampout_fp = 0 /\ rampout = 0
    /\ pc = [t \in Threads |-> "idle"]
    /\ new_setpt = [t \in Threads |-> 0] /\ inc = [t \in Threads |-> 0]
    /\ cmds = 0
    /\ samples = 0 /\ astray = FALSE /\ held = TRUE /\ asked = "no"

-----------------------------------------------------------------------------
(* smooth_ramp and dac_chan                                                *)

\* The clock in IDLE that sees the setpoint change in smooth mode.
StartRamp ==
    /\ state' = "RUN_RAMP"
    /\ old_setpt' = dac_setpt
    /\ new_setpt_lat' = setpoint'
    /\ phase_out' = -Pi
    /\ samples' = 0 /\ astray' = FALSE /\ held' = TRUE

\* Variant: the setpoint seen last is forgotten when a ramp ends.
Idle_Forgets ==
    /\ phase' = -Pi /\ last_point' = FALSE
    /\ raised_cos' = 0 /\ rampout_wdiff' = 0
    /\ new_setpt_prev' = setpoint'
    /\ IF state = "IDLE" /\ new_setpt_prev # setpoint' /\ mode' = "smooth"
       THEN StartRamp
       ELSE /\ state' = "IDLE"
            /\ UNCHANGED <<old_setpt, new_setpt_lat, samples, astray, held>>
            /\ phase_out' = IF state = "IDLE" THEN phase_out ELSE phase

\* The first clock in IDLE: the pipeline is emptied, except for its last two
\* stages, and a setpoint that is not the one seen last starts a ramp.
Idle ==
    /\ phase' = -Pi /\ last_point' = FALSE
    /\ raised_cos' = 0 /\ rampout_wdiff' = 0
    /\ new_setpt_prev' = setpoint'
    /\ IF new_setpt_prev # setpoint' /\ mode' = "smooth"
       THEN StartRamp
       ELSE /\ state' = "IDLE"
            /\ UNCHANGED <<old_setpt, new_setpt_lat, samples, astray, held>>
            /\ phase_out' = IF state = "IDLE" THEN phase_out ELSE phase

\* Variant: the CORDIC is given the phase after the increment.
AdvancePhase_Ahead ==
    IF phase > 0
    THEN phase' = 0 /\ last_point' = TRUE /\ UNCHANGED phase_out
    ELSE /\ phase' = Wrap(phase + phase_inc, PhaseHalf) /\ UNCHANGED last_point
         /\ phase_out' = phase'

AdvancePhase ==
    IF phase > 0
    THEN phase' = 0 /\ last_point' = TRUE /\ UNCHANGED phase_out
    ELSE /\ phase' = Wrap(phase + phase_inc, PhaseHalf) /\ UNCHANGED last_point
         /\ phase_out' = phase

\* Variant: the target of the ramp is not latched.
RunRamp_NotLatched ==
    /\ rampout_fp' = old_setpt + (rampout_wdiff \div One)
    /\ rampout' = rampout_fp
    /\ IF last_point
       THEN Idle
       ELSE /\ rampout_wdiff' = (setpoint - old_setpt) * raised_cos
            /\ \E p \in {cordic, phase_out} :
                  /\ raised_cos' = RaisedCos[p + Pi]
                  /\ astray' = (astray \/ (samples = 0 /\ p # -Pi)
                                       \/ phase_inc < 0)
            /\ AdvancePhase
            /\ samples' = IF samples < 2 THEN samples + 1 ELSE samples
            /\ UNCHANGED <<state, latched, held>>

\* RUN_RAMP at a trigger.
RunRamp ==
    /\ rampout_fp' = old_setpt + (rampout_wdiff \div One)
    /\ rampout' = rampout_fp
    /\ IF last_point
       THEN Idle
       ELSE /\ rampout_wdiff' = (new_setpt_lat - old_setpt) * raised_cos
            /\ \E p \in {cordic, phase_out} :
                  /\ raised_cos' = RaisedCos[p + Pi]
                  /\ astray' = (astray \/ (samples = 0 /\ p # -Pi)
                                       \/ phase_inc < 0)
            /\ AdvancePhase
            /\ samples' = IF samples < 2 THEN samples + 1 ELSE samples
            /\ UNCHANGED <<state, latched, held>>

\* The correction of the setpoint.  Both results are cut to 20 bits; the check
\* for a DAC of 20 bits looks at the signs, that for 18 bits at the value.
GainOffset(raw) ==
    LET oc == Wrap(raw - Offset, Word)
        v  == Wrap((oc * Gain) \div One, Word)
    IN  CASE HighRes /\ v < 0 /\ oc >= 0  -> Word - 1
          [] HighRes /\ v >= 0 /\ oc < 0  -> -Word
          [] ~HighRes /\ v > Limit        -> Limit
          [] ~HighRes /\ v < -Limit - 1   -> -Limit - 1
          [] OTHER                        -> v

\* The multiplexer takes its source as it was before the trigger.  The table
\* and the feedback are free inputs.
Tick ==
    /\ UNCHANGED <<registers, threads, asked>>
    /\ \/ mode = "smooth" /\ dac_setpt' = GainOffset(rampout)
       \/ mode \in {"ramp", "fofb"} /\ \E v \in Setpts : dac_setpt' = GainOffset(v)
       \/ mode = "jump" /\ dac_setpt' = GainOffset(setpoint)
    /\ cordic' = phase_out
    /\ \/ /\ state = "RUN_RAMP"
          /\ RunRamp
       \/ /\ state = "IDLE"
          /\ UNCHANGED <<state, last_point, latched, phases, pipeline, samples,
                         astray, held>>

-----------------------------------------------------------------------------
(* control.c                                                               *)

\* A register write, and the clock that follows it.
Written ==
    /\ IF state = "IDLE" THEN Idle
       ELSE UNCHANGED <<state, last_point, latched, phases, raised_cos,
                        rampout_wdiff, samples, astray>>
    /\ UNCHANGED <<dac_setpt, cordic, rampout_fp, rampout>>

\* Set_dacOpmode writes the mode; nothing is ramped.
Set_dacOpmode(t, m) ==
    /\ pc[t] = "idle" /\ cmds < MaxCmds /\ m # mode
    /\ cmds' = cmds + 1
    /\ mode' = m
    /\ asked' = "no"
    /\ UNCHANGED <<setpoint, phase_inc, pc, new_setpt, inc>>
    /\ Written /\ (state = "IDLE" \/ UNCHANGED held)

\* Set_dac reads the mode, and returns at once in ramp and FOFB mode.
Set_dac(t, v) ==
    /\ pc[t] = "idle" /\ cmds < MaxCmds /\ mode \in {"smooth", "jump"}
    /\ cmds' = cmds + 1
    /\ pc' = [pc EXCEPT ![t] = IF mode = "smooth" THEN "calc" ELSE "setpt"]
    /\ new_setpt' = [new_setpt EXCEPT ![t] = v]
    /\ UNCHANGED <<registers, dac_setpt, state, last_point, latched, phases,
                   cordic, pipeline, inc, history>>

Abs(x) == IF x < 0 THEN -x ELSE x

\* num_samples of a ramp from one setpoint to another.
Samples(from, to) == (Abs(to - from) * RateDiv) \div Rate

\* CORDIC_INIT_PHASE / num_samples, through the float phase_inc and back into a
\* register.  The division by zero is undefined: the library returns 0, or
\* 0xFFFFFFFF, which the gateware reads as -1.
PhaseInc(n) == IF n = 0 THEN {0, -1} ELSE {ToFloat[Pi \div n]}

\* Calc_WriteSmooth: the length is computed from the present setpoint; the
\* increment and then the setpoint are written.
CalcSmooth(t) ==
    /\ pc[t] = "calc"
    /\ \E i \in PhaseInc(Samples(dac_setpt, new_setpt[t])) :
          inc' = [inc EXCEPT ![t] = i]
    /\ pc' = [pc EXCEPT ![t] = "inc"]
    /\ UNCHANGED <<registers, dac_setpt, state, last_point, latched, phases,
                   cordic, pipeline, new_setpt, cmds, history>>

WriteInc(t) ==
    /\ pc[t] = "inc"
    /\ phase_inc' = inc[t]
    /\ pc' = [pc EXCEPT ![t] = "setpt"] /\ inc' = [inc EXCEPT ![t] = 0]
    /\ held' = (held /\ (state = "RUN_RAMP" => phase_inc' = phase_inc))
    /\ UNCHANGED <<mode, setpoint, dac_setpt, state, last_point, latched,
                   phases, cordic, pipeline, new_setpt, cmds, samples, astray,
                   asked>>

WriteSetpt(t) ==
    /\ pc[t] = "setpt"
    /\ setpoint' = new_setpt[t]
    /\ asked' = IF mode # "smooth" THEN "no"
                ELSE IF asked = "changed" \/ setpoint' # setpoint THEN "changed"
                ELSE "same"
    /\ pc' = [pc EXCEPT ![t] = "idle"]
    /\ new_setpt' = [new_setpt EXCEPT ![t] = 0]
    /\ UNCHANGED <<mode, phase_inc, inc, cmds>>
    /\ Written /\ (state = "IDLE" \/ UNCHANGED held)

-----------------------------------------------------------------------------
Command(t) == \/ \E m \in Modes : Set_dacOpmode(t, m)
              \/ \E v \in Setpts : Set_dac(t, v)

Step(t) == CalcSmooth(t) \/ WriteInc(t) \/ WriteSetpt(t)

Next == Tick \/ \E t \in Threads : Command(t) \/ Step(t)

Spec == Init /\ [][Next]_vars

\* The trigger does not stop, and a thread that has begun a command goes on.
FairSpec == Spec /\ WF_vars(Tick) /\ \A t \in Threads : WF_vars(Step(t))

-----------------------------------------------------------------------------
(* Properties                                                              *)

PhaseIncs == -1 .. PhaseHalf - 1
DacRange == IF HighRes THEN -Word .. Word - 1 ELSE -Limit - 1 .. Limit

\* The CORDIC is never given a phase above zero, though an increment may be
\* negative or larger than Pi; what goes to the DAC is within its range.
TypeOK ==
    /\ mode \in Modes /\ setpoint \in Setpts
    /\ phase_inc \in PhaseIncs /\ inc \in [Threads -> PhaseIncs]
    /\ state \in {"IDLE", "RUN_RAMP"} /\ last_point \in BOOLEAN
    /\ new_setpt_prev \in Setpts /\ new_setpt_lat \in Setpts
    /\ phase \in -PhaseHalf .. PhaseHalf - 1
    /\ phase_out \in -PhaseHalf .. 0 /\ cordic \in -PhaseHalf .. 0
    /\ raised_cos \in 0 .. One /\ rampout_wdiff \in Int
    /\ dac_setpt \in DacRange /\ old_setpt \in DacRange
    /\ rampout_fp \in Int /\ rampout \in Int
    /\ pc \in [Threads -> {"idle", "calc", "inc", "setpt"}]
    /\ new_setpt \in [Threads -> Setpts]
    /\ cmds \in 0 .. MaxCmds
    /\ samples \in 0 .. 2 /\ astray \in BOOLEAN /\ held \in BOOLEAN
    /\ asked \in {"no", "same", "changed"}

\* "a smooth function from 0 to 1": from its third sample on a ramp only comes
\* closer to its target, also when its increment or the setpoint is rewritten
\* under way, unless its first cosine was still that of the ramp before or a
\* setpoint less than a sample away made its increment negative.
RampMonotone ==
    [][state = "RUN_RAMP" /\ samples = 2 /\ ~astray =>
          Abs(new_setpt_lat - rampout') <= Abs(new_setpt_lat - rampout)]_vars

\* "a smooth function from 0 to 1": a ramp that was left to itself ends at the
\* setpoint it was started for.
RampReachesSetpoint ==
    [][last_point /\ ~last_point' /\ held /\ ~astray =>
          rampout' = new_setpt_lat]_vars

Settled(v) == state = "IDLE" /\ new_setpt_lat = v

\* A setpoint that was changed in smooth mode gets its ramp, also when it was
\* written while another ramp ran, as long as the increment is not zero: a ramp
\* that runs backwards ends when its phase wraps round.
ChangedSetpointServed ==
    \A v \in Setpts :
        <>[](asked = "changed" /\ setpoint = v /\ phase_inc # 0) => <>[]Settled(v)

=============================================================================
