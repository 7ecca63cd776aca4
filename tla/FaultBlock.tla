----------------------------- MODULE FaultBlock -----------------------------
(***************************************************************************)
(* The interlock of one power supply channel: fault_block.vhd with the     *)
(* wiring that fault_module.vhd and digio_logic.vhd give it.               *)
(*                                                                         *)
(* The logic is synchronous: Clock is one rising edge, on which every      *)
(* register takes its next value from the present ones.  Between edges the *)
(* processor writes the fault registers and the digital outputs.  Analog   *)
(* comparisons (|adc| >= |threshold|) and the digital inputs of the power  *)
(* supply are the Booleans of over: they change at the 10 kHz sample rate. *)
(*                                                                         *)
(* Bit 12 (evr_flt_in) is tied to '0' and bit 11 is commented out.         *)
(***************************************************************************)
EXTENDS Integers

CONSTANTS
    Chan,    \* the channel, 1..4
    Checks,  \* the checks modelled, a subset of AllChecks
    Period,  \* clocks between two 10 kHz triggers
    CntMax,  \* largest value of a fault counter: 2^16 - 1 in the code
    Limits   \* values the processor writes to the count limits

ErrChecks == {"err1", "err2"}

AllChecks == {"ovc1", "ovc2", "ovv", "ignd", "dcct", "flt1", "flt2", "flt3",
              "on"} \cup ErrChecks

ASSUME FaultAssumption ==
    /\ Chan \in 1 .. 4
    /\ Checks \subseteq AllChecks
    /\ Period \in Nat /\ Period > 3   \* the trigger's pipeline drains
    /\ CntMax \in Nat
    /\ Limits \subseteq 0 .. CntMax
    /\ 0 \in Limits

VARIABLES
    phase,            \* clocks since the last tenkhz_trig
    dff0, dff1, ten_khz_pulse,
    over,             \* inputs: which conditions are met
    clear, enable, cntlim,           \* fault_params
    dig_park,         \* dig_cntrl.psN.park of all channels
    ps_on1,           \* output of pulse_enable
    dac_setpoint, dac_setpoint_reg_new, dac_setpoint_reg_old, dac_change_flag,
    re, re_reg, clear_pulse,
    cnt,              \* the fault counters
    fault_reg, fault_reg_lat, fault_reg_lat_mask, error_reg_mask,
    streak,           \* history: samples in a row that met a condition
    undercut,         \* history: checks whose limit was set below their count
    due               \* history: clocks since an enabled bit went live with
                      \* neither a clear nor a mask write, up to 2

inputs   == <<over, dig_park, ps_on1, dac_setpoint>>
params   == <<clear, enable, cntlim>>
sampling == <<phase, dff0, dff1, ten_khz_pulse>>
setpoint == <<dac_setpoint_reg_new, dac_setpoint_reg_old, dac_change_flag>>
clearing == <<re, re_reg, clear_pulse>>
faults   == <<cnt, fault_reg, fault_reg_lat, fault_reg_lat_mask, error_reg_mask>>
history  == <<streak, undercut, due>>

vars == <<inputs, params, sampling, setpoint, clearing, faults, history>>

-----------------------------------------------------------------------------
(* Wiring                                                                  *)

flt_trig == fault_reg_lat_mask # {}
err_trig == error_reg_mask # {}

\* rcom(4 (N-1)): the AC contactor of the channel.
rcom_on1 == ps_on1 /\ ~flt_trig

\* The park input of each fault block; rcom(15 + N) is dig_cntrl.psN.park.
ParkOf == [n \in 1 .. 4 |-> IF n = 2 THEN 1 ELSE n]
park == dig_park[ParkOf[Chan]]

\* Bits that interlock (x"1FEF") and the bit that only triggers (x"0010").
Interlocks == Checks \ {"err2"}
Triggers   == Checks \cap {"err2"}

\* A check is met; the on check compares rcom_on1 with the contactor's answer.
Met(k) == k \in over /\ (k = "on" => rcom_on1)

\* The PI loop checks run only outside park and while the setpoint rests.
Gated(k) == k \in ErrChecks /\ (park \/ dac_change_flag)

Counts(k) == Met(k) /\ ~Gated(k) /\ ~clear_pulse

-----------------------------------------------------------------------------
Init ==
    /\ phase = 0
    /\ dff0 = FALSE /\ dff1 = FALSE /\ ten_khz_pulse = FALSE
    /\ over = {}
    /\ clear = FALSE /\ enable = {}
    /\ cntlim = [k \in Checks |-> 0]
    /\ dig_park = [n \in 1 .. 4 |-> FALSE]
    /\ ps_on1 = FALSE
    /\ dac_setpoint = 0
    /\ dac_setpoint_reg_new = 0 /\ dac_setpoint_reg_old = 0
    /\ dac_change_flag = FALSE
    /\ re = FALSE /\ re_reg = FALSE /\ clear_pulse = FALSE
    /\ cnt = [k \in Checks |-> 0]
    /\ fault_reg = {} /\ fault_reg_lat = {} /\ fault_reg_lat_mask = {}
    /\ error_reg_mask = {}
    /\ streak = [k \in Checks |-> 0]
    /\ undercut = {}
    /\ due = [k \in Checks |-> 0]

-----------------------------------------------------------------------------
(* One rising edge of clk                                                  *)

\* tenkhz_trig is one clock wide; the checks see it three clocks later.
Pipeline ==
    /\ phase' = (phase + 1) % Period
    /\ dff0' = (phase = 0)
    /\ dff1' = dff0
    /\ ten_khz_pulse' = dff1

SetpointRegs ==
    IF phase = 0
    THEN /\ dac_setpoint_reg_new' = dac_setpoint
         /\ dac_setpoint_reg_old' = dac_setpoint_reg_new
    ELSE UNCHANGED <<dac_setpoint_reg_new, dac_setpoint_reg_old>>

\* The setpoint moved between the last two triggers.
ChangeFlag == dac_change_flag' = (dac_setpoint_reg_new # dac_setpoint_reg_old)

\* Variant: the clear lasts one clock instead of until the next sample.
ClearPulse_OneClock ==
    /\ re' = clear
    /\ re_reg' = re
    /\ clear_pulse' = (re /\ ~re_reg)

\* A rising edge of the clear register holds clear_pulse until the next sample.
ClearPulse ==
    /\ re' = clear
    /\ re_reg' = re
    /\ clear_pulse' = IF re /\ ~re_reg THEN TRUE
                      ELSE clear_pulse /\ ~ten_khz_pulse

\* Variant: the limit is compared with the count that is being written.
Counters_Early ==
    IF ten_khz_pulse
    THEN /\ cnt' = [k \in Checks |->
                      IF ~Counts(k) THEN 0
                      ELSE IF cnt[k] = cntlim[k] THEN cnt[k]
                      ELSE (cnt[k] + 1) % (CntMax + 1)]
         /\ fault_reg' = {k \in Checks :
                            /\ Counts(k)
                            /\ cnt[k] + 1 = cntlim[k] \/ k \in fault_reg}
    ELSE UNCHANGED <<cnt, fault_reg>>

\* Variant: the PI loop checks ignore park.
Counters_NoPark ==
    LET C(k) == Met(k) /\ ~(k \in ErrChecks /\ dac_change_flag) /\ ~clear_pulse
    IN  IF ten_khz_pulse
        THEN /\ cnt' = [k \in Checks |->
                          IF ~C(k) THEN 0
                          ELSE IF cnt[k] = cntlim[k] THEN cnt[k]
                          ELSE (cnt[k] + 1) % (CntMax + 1)]
             /\ fault_reg' = {k \in Checks :
                                C(k) /\ (cnt[k] = cntlim[k] \/ k \in fault_reg)}
        ELSE UNCHANGED <<cnt, fault_reg>>

\* Variant: a counter is wider than 16 bits.
Counters_Wide ==
    IF ten_khz_pulse
    THEN /\ cnt' = [k \in Checks |->
                      IF ~Counts(k) THEN 0
                      ELSE IF cnt[k] = cntlim[k] THEN cnt[k] ELSE cnt[k] + 1]
         /\ fault_reg' = {k \in Checks :
                            /\ Counts(k)
                            /\ cnt[k] = cntlim[k] \/ k \in fault_reg}
    ELSE UNCHANGED <<cnt, fault_reg>>

\* Variant: a counter stops at its largest value instead of wrapping.
Counters_Saturate ==
    IF ten_khz_pulse
    THEN /\ cnt' = [k \in Checks |->
                      IF ~Counts(k) THEN 0
                      ELSE IF cnt[k] \in {cntlim[k], CntMax} THEN cnt[k]
                      ELSE cnt[k] + 1]
         /\ fault_reg' = {k \in Checks :
                            /\ Counts(k)
                            /\ cnt[k] = cntlim[k] \/ k \in fault_reg}
    ELSE UNCHANGED <<cnt, fault_reg>>

\* At a sample each check counts up to its limit, compared for equality, and
\* then sets its live bit; when it does not count both start over.
Counters ==
    IF ten_khz_pulse
    THEN /\ cnt' = [k \in Checks |->
                      IF ~Counts(k) THEN 0
                      ELSE IF cnt[k] = cntlim[k] THEN cnt[k]
                      ELSE (cnt[k] + 1) % (CntMax + 1)]
         /\ fault_reg' = {k \in Checks :
                            /\ Counts(k)
                            /\ cnt[k] = cntlim[k] \/ k \in fault_reg}
    ELSE UNCHANGED <<cnt, fault_reg>>

\* Variant: live bits go to the mask without being latched.
Latches_Live ==
    /\ fault_reg_lat' = IF clear_pulse THEN {} ELSE fault_reg
    /\ fault_reg_lat_mask' = Interlocks \cap fault_reg_lat \cap enable
    /\ error_reg_mask' = Triggers \cap fault_reg \cap enable

\* "fault is latched until clear reg bit is set", then masked.
Latches ==
    /\ fault_reg_lat' = IF clear_pulse THEN {} ELSE fault_reg_lat \cup fault_reg
    /\ fault_reg_lat_mask' = Interlocks \cap fault_reg_lat \cap enable
    /\ error_reg_mask' = Triggers \cap fault_reg \cap enable

\* History, not hardware.
Observe ==
    /\ streak' = [k \in Checks |->
                    IF ~ten_khz_pulse THEN streak[k]
                    ELSE IF ~Counts(k) THEN 0
                    ELSE IF streak[k] > CntMax THEN streak[k]
                    ELSE streak[k] + 1]
    /\ undercut' = IF ten_khz_pulse THEN {k \in undercut : Counts(k)} ELSE undercut
    /\ due' = [k \in Checks |->
                 IF clear_pulse \/ k \notin enable THEN 0
                 ELSE IF due[k] > 0 THEN 2
                 ELSE IF k \in fault_reg THEN 1 ELSE 0]

\* Conditions are sampled values: they change with the 10 kHz trigger.
Clock ==
    /\ Pipeline /\ SetpointRegs /\ ChangeFlag /\ ClearPulse /\ Counters
    /\ Latches /\ Observe
    /\ IF phase = 0 THEN over' \in SUBSET Checks ELSE UNCHANGED over
    /\ UNCHANGED <<params, dig_park, ps_on1, dac_setpoint>>

-----------------------------------------------------------------------------
(* Register writes of chan_settings and commands from the DAC channel      *)

hardware == <<sampling, setpoint, clearing, faults, over, streak>>

WriteClear ==
    /\ clear' = ~clear
    /\ UNCHANGED <<hardware, enable, cntlim, dig_park, ps_on1, dac_setpoint,
                   undercut, due>>

WriteMask(S) ==
    /\ S # enable
    /\ enable' = S
    /\ due' = [k \in Checks |-> IF k \in S THEN due[k] ELSE 0]
    /\ UNCHANGED <<hardware, clear, cntlim, dig_park, ps_on1, dac_setpoint,
                   undercut>>

WriteLimit(k, n) ==
    /\ n # cntlim[k]
    /\ cntlim' = [cntlim EXCEPT ![k] = n]
    /\ undercut' = IF n < cnt[k] THEN undercut \cup {k} ELSE undercut
    /\ UNCHANGED <<hardware, clear, enable, dig_park, ps_on1, dac_setpoint,
                   due>>

WritePark(n) ==
    /\ dig_park' = [dig_park EXCEPT ![n] = ~@]
    /\ UNCHANGED <<hardware, params, ps_on1, dac_setpoint, undercut, due>>

\* pulse_enable turns the power-on output on or off.
SwitchOn1 ==
    /\ ps_on1' = ~ps_on1
    /\ UNCHANGED <<hardware, params, dig_park, dac_setpoint, undercut, due>>

MoveSetpoint ==
    /\ dac_setpoint' = 1 - dac_setpoint
    /\ UNCHANGED <<hardware, params, dig_park, ps_on1, undercut, due>>

Software ==
    \/ WriteClear
    \/ \E S \in SUBSET Checks : WriteMask(S)
    \/ \E k \in Checks, n \in Limits : WriteLimit(k, n)
    \/ \E n \in {1, Chan} : WritePark(n)
    \/ SwitchOn1
    \/ MoveSetpoint

Next == Clock \/ Software

Spec == Init /\ [][Next]_vars

\* The clock never stops.
FairSpec == Spec /\ WF_vars(Clock)

-----------------------------------------------------------------------------
(* Properties                                                              *)

\* Registers keep their ranges: the fault counters stay within 16 bits and the
\* masked words within x"1FEF" and x"0010".
TypeOK ==
    /\ phase \in 0 .. Period - 1
    /\ dff0 \in BOOLEAN /\ dff1 \in BOOLEAN /\ ten_khz_pulse \in BOOLEAN
    /\ clear \in BOOLEAN /\ re \in BOOLEAN /\ re_reg \in BOOLEAN
    /\ clear_pulse \in BOOLEAN
    /\ ps_on1 \in BOOLEAN /\ dac_change_flag \in BOOLEAN
    /\ over \subseteq Checks /\ enable \subseteq Checks
    /\ cntlim \in [Checks -> 0 .. CntMax]
    /\ dig_park \in [1 .. 4 -> BOOLEAN]
    /\ dac_setpoint \in {0, 1} /\ dac_setpoint_reg_new \in {0, 1}
    /\ dac_setpoint_reg_old \in {0, 1}
    /\ cnt \in [Checks -> 0 .. CntMax]
    /\ fault_reg \subseteq Checks /\ fault_reg_lat \subseteq Checks
    /\ fault_reg_lat_mask \subseteq Interlocks
    /\ error_reg_mask \subseteq Triggers
    /\ streak \in [Checks -> 0 .. CntMax + 1]
    /\ undercut \subseteq Checks
    /\ due \in [Checks -> 0 .. 2]

\* A check whose condition is met at one sample more than its limit has its
\* live bit set, for every limit from 0 to the largest count, unless its limit
\* was lowered below its count while it was counting.
TripsOnTime ==
    \A k \in Checks \ undercut : streak[k] > cntlim[k] => k \in fault_reg

\* Two clocks after its live bit, an enabled interlock has opened the contactor,
\* also when the live bit falls again: only a clear or the mask closes it.
TripOpensContactor ==
    \A k \in Interlocks : due[k] = 2 => ~rcom_on1

\* When a clear ends nothing of the old fault is left: no live bit that would be
\* latched again, no latched bit, no count.
ClearLeavesNothing ==
    [][clear_pulse /\ ~clear_pulse' =>
          /\ fault_reg' = {} /\ fault_reg_lat' = {}
          /\ cnt' = [k \in Checks |-> 0]]_vars

\* "if channel is in park then this error is ignored": a sample of a parked
\* channel leaves no PI loop error.
ParkedIgnoresError ==
    [][ten_khz_pulse /\ dig_park[Chan] /\ phase' # phase =>
          fault_reg' \cap ErrChecks = {}]_vars

\* A condition that stays met on an enabled interlock opens the contactor for
\* good, even if its limit was once lowered below its count: the counter wraps.
PersistentFaultOpens ==
    \A k \in Interlocks \ {"on"} :
        /\ <>[](k \in over \cap enable /\ ~Gated(k) /\ ~clear)
        /\ <>[][UNCHANGED cntlim]_vars
        => <>[](~rcom_on1)

=============================================================================
