-------------------------- MODULE FaultBlockProofs --------------------------
(***************************************************************************)
(* Proofs about FaultBlock for every set of checks, counter width, limit   *)
(* and 10 kHz period.                                                      *)
(*                                                                         *)
(* TripsOnTime speaks of samples, the logic of counters: CountOK links     *)
(* them.  TripOpensContactor needs that a bit which is due is latched,     *)
(* the stage before the mask: LatchOK.                                     *)
(***************************************************************************)
EXTENDS FaultBlock, TLAPS

USE FaultAssumption

\* Until a check has tripped its counter is the number of samples in a row,
\* and it is not above the limit unless the limit was lowered below it.
CountOK ==
    \A k \in Checks \ undercut :
        /\ cnt[k] <= cntlim[k]
        /\ k \in fault_reg \/ cnt[k] = streak[k]

\* What is due has gone through the latch, then through the mask.
LatchOK ==
    \A k \in Checks :
        /\ due[k] > 0 => k \in fault_reg_lat
        /\ due[k] = 2 /\ k \in Interlocks => k \in fault_reg_lat_mask

Ranges ==
    /\ cntlim \in [Checks -> 0 .. CntMax]
    /\ cnt \in [Checks -> 0 .. CntMax]
    /\ streak \in [Checks -> 0 .. CntMax + 1]
    /\ due \in [Checks -> 0 .. 2]

IInv == Ranges /\ CountOK /\ LatchOK

\* Software steps leave the sampled state alone.
LEMMA SoftwareFrame ==
  ASSUME Software PROVE UNCHANGED hardware
BY DEF Software, WriteClear, WriteMask, WriteLimit, WritePark, SwitchOn1,
       MoveSetpoint

\* Every register keeps its range at a clock edge and at a write.
LEMMA TypeInductive ==
  ASSUME TypeOK, [Next]_vars PROVE TypeOK'
<1>. USE DEF TypeOK
<1>1. CASE Clock
  <2>1. /\ phase' \in 0 .. Period - 1
        /\ dff0' \in BOOLEAN /\ dff1' \in BOOLEAN
        /\ ten_khz_pulse' \in BOOLEAN
    BY <1>1 DEF Clock, Pipeline
  <2>2. /\ dac_setpoint' \in {0, 1} /\ dac_setpoint_reg_new' \in {0, 1}
        /\ dac_setpoint_reg_old' \in {0, 1} /\ dac_change_flag' \in BOOLEAN
    BY <1>1 DEF Clock, SetpointRegs, ChangeFlag
  <2>3. re' \in BOOLEAN /\ re_reg' \in BOOLEAN /\ clear_pulse' \in BOOLEAN
    BY <1>1 DEF Clock, ClearPulse
  <2>4. cnt' \in [Checks -> 0 .. CntMax] /\ fault_reg' \subseteq Checks
    BY <1>1 DEF Clock, Counters
  <2>5. /\ fault_reg_lat' \subseteq Checks
        /\ fault_reg_lat_mask' \subseteq Interlocks
        /\ error_reg_mask' \subseteq Triggers
    BY <1>1 DEF Clock, Latches, Interlocks, Triggers
  <2>6. /\ streak' \in [Checks -> 0 .. CntMax + 1]
        /\ undercut' \subseteq Checks
        /\ due' \in [Checks -> 0 .. 2]
    BY <1>1 DEF Clock, Observe
  <2>7. over' \subseteq Checks
    BY <1>1 DEF Clock
  <2>8. UNCHANGED <<clear, enable, cntlim, dig_park, ps_on1>>
    BY <1>1 DEF Clock, params
  <2>. QED
    BY <2>1, <2>2, <2>3, <2>4, <2>5, <2>6, <2>7, <2>8
       DEF Interlocks, Triggers
<1>2. CASE Software
  <2>1. UNCHANGED hardware
    BY <1>2, SoftwareFrame
  <2>2. clear' \in BOOLEAN /\ enable' \subseteq Checks
    BY <1>2 DEF Software, WriteClear, WriteMask, WriteLimit, WritePark,
       SwitchOn1, MoveSetpoint, params
  <2>3. /\ cntlim' \in [Checks -> 0 .. CntMax] /\ undercut' \subseteq Checks
        /\ due' \in [Checks -> 0 .. 2]
    BY <1>2 DEF Software, WriteClear, WriteMask, WriteLimit, WritePark,
       SwitchOn1, MoveSetpoint, params
  <2>4. ps_on1' \in BOOLEAN
    BY <1>2, Zenon DEF Software, WriteClear, WriteMask, WriteLimit, WritePark,
       SwitchOn1, MoveSetpoint
  <2>5. dac_setpoint' \in {0, 1}
    BY <1>2 DEF Software, WriteClear, WriteMask, WriteLimit, WritePark,
       SwitchOn1, MoveSetpoint
  <2>6. dig_park' \in [1 .. 4 -> BOOLEAN]
    <3>1. ASSUME NEW n \in {1, Chan}, WritePark(n)
          PROVE  dig_park' \in [1 .. 4 -> BOOLEAN]
      <4>1. dig_park' = [i \in 1 .. 4 |-> IF i = n THEN ~dig_park[n]
                                         ELSE dig_park[i]]
        BY <3>1 DEF WritePark
      <4>. QED
        BY <4>1
    <3>2. CASE UNCHANGED dig_park
      BY <3>2
    <3>. QED
      BY <1>2, <3>1, <3>2 DEF Software, WriteClear, WriteMask, WriteLimit,
         SwitchOn1, MoveSetpoint
  <2>. QED
    BY <2>1, <2>2, <2>3, <2>4, <2>5, <2>6
       DEF hardware, sampling, setpoint, clearing, faults, Interlocks, Triggers
<1>3. CASE UNCHANGED vars
  BY <1>3 DEF vars, inputs, params, sampling, setpoint, clearing, faults,
     history, Interlocks, Triggers
<1>. QED
  BY <1>1, <1>2, <1>3 DEF Next

\* The registers of fault_block.vhd keep their ranges for every period, counter
\* width and set of checks: no counter leaves its 16 bits and no masked word
\* has a bit outside its constant.
THEOREM TypeCorrect == Spec => []TypeOK
<1>1. ASSUME Init PROVE TypeOK
  <2>1. /\ phase \in 0 .. Period - 1 /\ cntlim \in [Checks -> 0 .. CntMax]
        /\ cnt \in [Checks -> 0 .. CntMax]
        /\ streak \in [Checks -> 0 .. CntMax + 1]
        /\ due \in [Checks -> 0 .. 2]
    BY <1>1 DEF Init
  <2>2. dig_park \in [1 .. 4 -> BOOLEAN]
    BY <1>1 DEF Init
  <2>. QED
    BY <1>1, <2>1, <2>2 DEF Init, TypeOK, Interlocks, Triggers
<1>2. TypeOK /\ [Next]_vars => TypeOK'
  BY TypeInductive
<1>. QED
  BY <1>1, <1>2, PTL DEF Spec

\* Counters, limits and history stay in their ranges.
LEMMA RangesInductive ==
  ASSUME IInv, [Next]_vars PROVE Ranges'
<1>. USE DEF IInv, Ranges
<1>1. CASE Clock
  <2>1. cntlim' = cntlim
    BY <1>1 DEF Clock, params
  <2>2. cnt' \in [Checks -> 0 .. CntMax]
    BY <1>1 DEF Clock, Counters
  <2>3. streak' \in [Checks -> 0 .. CntMax + 1]
    BY <1>1 DEF Clock, Observe
  <2>4. due' \in [Checks -> 0 .. 2]
    BY <1>1 DEF Clock, Observe
  <2>. QED
    BY <2>1, <2>2, <2>3, <2>4
<1>2. CASE Software
  <2>1. cnt' = cnt /\ streak' = streak
    BY <1>2, SoftwareFrame DEF hardware, faults
  <2>2. cntlim' \in [Checks -> 0 .. CntMax]
    BY <1>2 DEF Software, WriteClear, WriteMask, WriteLimit, WritePark,
       SwitchOn1, MoveSetpoint, params
  <2>3. due' \in [Checks -> 0 .. 2]
    BY <1>2 DEF Software, WriteClear, WriteMask, WriteLimit, WritePark,
       SwitchOn1, MoveSetpoint
  <2>. QED
    BY <2>1, <2>2, <2>3
<1>3. CASE UNCHANGED vars
  BY <1>3 DEF vars, params, faults, history
<1>. QED
  BY <1>1, <1>2, <1>3 DEF Next

\* A sample advances counter and streak together; a write of the limit either
\* keeps the count within it or puts the check into undercut.
LEMMA CountInductive ==
  ASSUME IInv, [Next]_vars PROVE CountOK'
<1>. USE DEF IInv, Ranges, CountOK
<1>1. CASE Clock
  <2>1. cntlim' = cntlim
    BY <1>1 DEF Clock, params
  <2>2. CASE ten_khz_pulse
    <3>. SUFFICES ASSUME NEW k \in Checks, k \notin undercut'
                  PROVE  /\ cnt'[k] <= cntlim[k]
                         /\ k \in fault_reg' \/ cnt'[k] = streak'[k]
      BY <2>1
    <3>1. CASE ~Counts(k)
      <4>1. cnt'[k] = 0 /\ streak'[k] = 0
        BY <1>1, <2>2, <3>1 DEF Clock, Counters, Observe
      <4>. QED
        BY <4>1
    <3>2. CASE Counts(k)
      <4>1. k \notin undercut
        BY <1>1, <2>2, <3>2 DEF Clock, Observe
      <4>2. cnt'[k] = IF cnt[k] = cntlim[k] THEN cnt[k]
                      ELSE (cnt[k] + 1) % (CntMax + 1)
        BY <1>1, <2>2, <3>2 DEF Clock, Counters
      <4>3. k \in fault_reg' <=> cnt[k] = cntlim[k] \/ k \in fault_reg
        BY <1>1, <2>2, <3>2 DEF Clock, Counters
      <4>4. streak'[k] = IF streak[k] > CntMax THEN streak[k] ELSE streak[k] + 1
        BY <1>1, <2>2, <3>2 DEF Clock, Observe
      <4>5. CASE cnt[k] = cntlim[k]
        BY <4>2, <4>3, <4>5
      <4>6. CASE cnt[k] # cntlim[k]
        <5>1. cnt[k] < cntlim[k]
          BY <4>1, <4>6
        <5>2. cnt'[k] = cnt[k] + 1
          BY <4>2, <4>6, <5>1
        <5>. QED
          BY <4>1, <4>3, <4>4, <5>1, <5>2
      <4>. QED
        BY <4>5, <4>6
    <3>. QED
      BY <3>1, <3>2
  <2>3. CASE ~ten_khz_pulse
    <3>1. UNCHANGED <<cnt, fault_reg, undercut>> /\ streak' = streak
      BY <1>1, <2>3 DEF Clock, Counters, Observe
    <3>. QED
      BY <2>1, <3>1
  <2>. QED
    BY <2>2, <2>3
<1>2. CASE Software
  <2>1. UNCHANGED <<cnt, streak, fault_reg>>
    BY <1>2, SoftwareFrame DEF hardware, faults
  <2>2. ASSUME NEW k \in Checks, NEW n \in Limits, WriteLimit(k, n)
        PROVE  CountOK'
    BY <2>1, <2>2 DEF WriteLimit
  <2>3. CASE UNCHANGED <<cntlim, undercut>>
    BY <2>1, <2>3
  <2>. QED
    BY <1>2, <2>2, <2>3 DEF Software, WriteClear, WriteMask, WritePark,
       SwitchOn1, MoveSetpoint, params
<1>3. CASE UNCHANGED vars
  BY <1>3 DEF vars, params, faults, history
<1>. QED
  BY <1>1, <1>2, <1>3 DEF Next

\* A live bit is latched at the first clock and masked at the second.
LEMMA LatchInductive ==
  ASSUME IInv, [Next]_vars PROVE LatchOK'
<1>. USE DEF IInv, Ranges, LatchOK, Interlocks
<1>1. CASE Clock
  <2>. SUFFICES ASSUME NEW k \in Checks, due'[k] > 0
                PROVE  /\ k \in fault_reg_lat'
                       /\ due'[k] = 2 /\ k \in Interlocks => k \in fault_reg_lat_mask'
    OBVIOUS
  <2>1. /\ ~clear_pulse /\ k \in enable
        /\ due[k] > 0 \/ k \in fault_reg
        /\ due'[k] = 2 => due[k] > 0
    BY <1>1 DEF Clock, Observe
  <2>. QED
    BY <1>1, <2>1 DEF Clock, Latches
<1>2. CASE Software
  <2>1. UNCHANGED <<fault_reg_lat, fault_reg_lat_mask>>
    BY <1>2, SoftwareFrame DEF hardware, faults
  <2>2. \A k \in Checks : due'[k] \in {0, due[k]}
    BY <1>2 DEF Software, WriteClear, WriteMask, WriteLimit, WritePark,
       SwitchOn1, MoveSetpoint
  <2>. QED
    BY <2>1, <2>2
<1>3. CASE UNCHANGED vars
  BY <1>3 DEF vars, faults, history
<1>. QED
  BY <1>1, <1>2, <1>3 DEF Next

\* The invariant holds in every behaviour of a channel's fault block.
THEOREM Invariance == Spec => []IInv
<1>1. Init => IInv
  BY DEF Init, IInv, Ranges, CountOK, LatchOK
<1>2. IInv /\ [Next]_vars => IInv'
  BY RangesInductive, CountInductive, LatchInductive DEF IInv
<1>. QED
  BY <1>1, <1>2, PTL DEF Spec

\* A condition met at one sample more than the limit sets its live bit.
THEOREM TripOnTime == Spec => []TripsOnTime
<1>1. IInv => TripsOnTime
  BY DEF IInv, Ranges, CountOK, TripsOnTime
<1>. QED
  BY <1>1, Invariance, PTL

\* An enabled interlock opens the contactor two clocks after its live bit.
THEOREM ContactorOpens == Spec => []TripOpensContactor
<1>1. IInv => TripOpensContactor
  BY DEF IInv, LatchOK, TripOpensContactor, rcom_on1, flt_trig, Interlocks
<1>. QED
  BY <1>1, Invariance, PTL

\* A clear ends with no live bit, no latched bit and no count.
THEOREM ClearIsComplete == Spec => ClearLeavesNothing
<1>1. ASSUME [Next]_vars
      PROVE  [clear_pulse /\ ~clear_pulse' =>
                /\ fault_reg' = {} /\ fault_reg_lat' = {}
                /\ cnt' = [k \in Checks |-> 0]]_vars
  <2>. SUFFICES ASSUME clear_pulse, ~clear_pulse'
                PROVE  /\ fault_reg' = {} /\ fault_reg_lat' = {}
                       /\ cnt' = [k \in Checks |-> 0]
    OBVIOUS
  <2>1. Clock
    BY <1>1, SoftwareFrame DEF Next, vars, hardware, clearing
  <2>2. ten_khz_pulse
    BY <2>1 DEF Clock, ClearPulse
  <2>3. \A k : ~Counts(k)
    BY DEF Counts
  <2>. QED
    BY <2>1, <2>2, <2>3 DEF Clock, Counters, Latches
<1>. QED
  BY <1>1, PTL DEF Spec, ClearLeavesNothing

\* On every channel but 2, a sample of a parked channel leaves no PI loop error.
THEOREM ParkIgnoresError ==
  ASSUME Chan # 2 PROVE Spec => ParkedIgnoresError
<1>1. ASSUME [Next]_vars
      PROVE  [ten_khz_pulse /\ dig_park[Chan] /\ phase' # phase =>
                fault_reg' \cap ErrChecks = {}]_vars
  <2>. SUFFICES ASSUME ten_khz_pulse, dig_park[Chan], phase' # phase
                PROVE  fault_reg' \cap ErrChecks = {}
    OBVIOUS
  <2>1. Clock
    BY <1>1, SoftwareFrame DEF Next, vars, hardware, sampling
  <2>2. park
    BY DEF park, ParkOf
  <2>3. \A k \in ErrChecks : ~Counts(k)
    BY <2>2 DEF Counts, Gated
  <2>. QED
    BY <2>1, <2>3 DEF Clock, Counters
<1>. QED
  BY <1>1, PTL DEF Spec, ParkedIgnoresError

=============================================================================
