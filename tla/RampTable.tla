----------------------------- MODULE RampTable -----------------------------
(***************************************************************************)
(* The ramp table of a channel: write_ramptable and the messages for its   *)
(* length, its start and the mode (control.c), the player of               *)
(* ramptable_ramp.vhd and the multiplexer of dac_chan.vhd.                 *)
(*                                                                         *)
(* Client threads share the registers for length, address and data and     *)
(* interrupt each other between any two writes.  A write of the data       *)
(* register stores a word of the table; the player reads the same table    *)
(* and the same length while it runs.                                      *)
(*                                                                         *)
(* Tick is one 10 kHz trigger and the clock after it; thousands of clocks  *)
(* lie between two triggers.  A point is a number of DAC bits: factors do  *)
(* not change during a load (see Flavour for what happens when they do).   *)
(***************************************************************************)
EXTENDS Integers, Sequences

CONSTANTS
    Depth,     \* words of the table, and the longest table: 50000
    LastAddr,  \* largest address and length: 2^16 - 1
    Half,      \* half the range of the data register: 2^19
    Limits,    \* of the saturation check: 2^20 and 2^18, as the resolution is
    Tables,    \* what clients load, as sequences of points
    Lens,      \* what clients write to the length register
    Threads,   \* clients that load tables
    None

ASSUME RampTableAssumption ==
    /\ Depth \in Nat \ {0} /\ LastAddr \in Nat /\ Depth < LastAddr
    /\ Half \in Nat \ {0} /\ Limits \subseteq Nat
    /\ Tables \subseteq Seq(Int) /\ None \notin Seq(Int)
    /\ Lens \subseteq Nat

Addrs == 0 .. LastAddr
Words == -Half .. Half - 1

VARIABLES
    ramplen, rampaddr,     \* registers
    table,                 \* dac_dpram
    mode,                  \* DAC_OPMODE: "ramp", or "other"
    limit,                 \* what RESOLUTION_REG stands for on this board
    state, dac_rdaddr,     \* ramptable_ramp
    dac_rddata, lag,       \* last word read; the first one is still to come
    ramp_dac_setpt,        \* output of the player
    dac_setpt_raw,         \* output of the multiplexer; None if of another source
    pc, points, i,         \* per thread: write_ramptable
    alone,                 \* history, per thread: nobody else wrote since it began
    loaded,                \* history: the table in place, None if it is a mixture
    played, since,         \* history: points played of it, from this address on
    late                   \* history: the run's first trigger came too early

loaders == <<pc, points, i, alone>>
player  == <<state, dac_rdaddr, dac_rddata, lag, ramp_dac_setpt>>
history == <<loaded, played, since, late>>

board   == <<mode, limit>>

vars == <<ramplen, rampaddr, table, board, player, dac_setpt_raw, loaders, history>>

-----------------------------------------------------------------------------
Init ==
    /\ ramplen = 0 /\ rampaddr = 0
    /\ table = [a \in 0 .. Depth - 1 |-> 0]
    /\ mode = "other" /\ limit \in Limits
    /\ state = "IDLE" /\ dac_rdaddr = 0 /\ dac_rddata = 0 /\ lag = FALSE
    /\ ramp_dac_setpt = 0 /\ dac_setpt_raw = None
    /\ pc = [t \in Threads |-> "idle"]
    /\ points = [t \in Threads |-> <<>>] /\ i = [t \in Threads |-> 0]
    /\ alone = [t \in Threads |-> FALSE]
    /\ loaded = <<>> /\ played = <<>> /\ since = 0 /\ late = FALSE

-----------------------------------------------------------------------------
(* write_ramptable                                                         *)

Loading == {t \in Threads : pc[t] # "idle"}

\* The length is written before the points.  (A longer table is refused before
\* anything is written.)
write_ramptable(t, s) ==
    /\ pc[t] = "idle" /\ Len(s) <= Depth
    /\ ramplen' = Len(s)
    /\ pc' = [pc EXCEPT ![t] = "addr"]
    /\ points' = [points EXCEPT ![t] = s] /\ i' = [i EXCEPT ![t] = 0]
    /\ alone' = [u \in Threads |-> u = t /\ Loading = {}]
    /\ loaded' = None /\ played' = <<>> /\ since' = 0
    /\ UNCHANGED <<rampaddr, table, board, player, dac_setpt_raw, late>>

\* Variant: the first point goes to the second word.
WriteAddr_Next(t) ==
    /\ pc[t] = "addr" /\ i[t] < Len(points[t])
    /\ rampaddr' = (i[t] + 1) % Depth
    /\ pc' = [pc EXCEPT ![t] = "data"]
    /\ UNCHANGED <<ramplen, table, board, player, dac_setpt_raw, points, i, alone,
                   history>>

WriteAddr(t) ==
    /\ pc[t] = "addr" /\ i[t] < Len(points[t])
    /\ rampaddr' = i[t]
    /\ pc' = [pc EXCEPT ![t] = "data"]
    /\ UNCHANGED <<ramplen, table, board, player, dac_setpt_raw, points, i, alone,
                   history>>

\* The limit is twice the range of the register, which keeps the low bits, or
\* half of it.
Saturated(v) == IF v > limit THEN limit - 1 ELSE IF v < -limit THEN -limit ELSE v

\* Variant: the register is taken as unsigned.
Register_Unsigned(v) == v % (2 * Half)

Register(v) == ((v + Half) % (2 * Half)) - Half

\* Stored where the address register says at that moment.
WriteData(t) ==
    /\ pc[t] = "data"
    /\ table' = [table EXCEPT ![rampaddr] = Register(Saturated(points[t][i[t] + 1]))]
    /\ i' = [i EXCEPT ![t] = @ + 1]
    /\ pc' = [pc EXCEPT ![t] = "addr"]
    /\ UNCHANGED <<ramplen, rampaddr, board, player, dac_setpt_raw, points, alone,
                   history>>

Return(t) ==
    /\ pc[t] = "addr" /\ i[t] = Len(points[t])
    /\ pc' = [pc EXCEPT ![t] = "idle"]
    /\ points' = [points EXCEPT ![t] = <<>>] /\ i' = [i EXCEPT ![t] = 0]
    /\ alone' = [alone EXCEPT ![t] = FALSE]
    /\ IF alone[t]
       THEN loaded' = points[t] /\ played' = <<>> /\ since' = dac_rdaddr
       ELSE UNCHANGED <<loaded, played, since>>
    /\ UNCHANGED <<ramplen, rampaddr, table, board, player, dac_setpt_raw, late>>

-----------------------------------------------------------------------------
(* chan_settings                                                           *)

\* DAC_RAMPLEN_MSG: unchecked, and 16 bits wide.
SetLength(n) ==
    /\ ramplen' = n % (LastAddr + 1)
    /\ loaded' = IF loaded # None /\ ramplen' <= Len(loaded)
                 THEN SubSeq(loaded, 1, ramplen') ELSE None
    /\ played' = <<>> /\ since' = dac_rdaddr
    /\ alone' = [t \in Threads |-> FALSE]
    /\ UNCHANGED <<rampaddr, table, board, player, dac_setpt_raw, pc, points, i, late>>

\* DAC_OPMODE_MSG: a run goes on in every mode.
Set_dacOpmode(m) ==
    /\ mode' = m
    /\ UNCHANGED <<ramplen, rampaddr, table, limit, player, dac_setpt_raw, loaders,
                   history>>

\* DAC_RUNRAMP_MSG, whatever its value, or the injection event of channel 1.
\* Ignored unless the player is idle and in ramp mode.
RunRamp ==
    /\ state = "IDLE" /\ mode = "ramp"
    /\ state' = "RUN_RAMP" /\ lag' = TRUE
    /\ UNCHANGED <<ramplen, rampaddr, table, board, dac_rdaddr, dac_rddata,
                   ramp_dac_setpt, dac_setpt_raw, loaders, history>>

-----------------------------------------------------------------------------
(* ramptable_ramp and dac_chan                                             *)

\* dac_dpram has two clocks of latency: its first word is there when the player
\* needs it, unless the trigger is on the clock after the start.
FirstWord ==
    /\ lag
    /\ lag' = FALSE
    /\ UNCHANGED <<ramplen, rampaddr, table, board, state, dac_rdaddr, dac_rddata,
                   ramp_dac_setpt, dac_setpt_raw, loaders, history>>

\* What the memory may give; beyond its depth, anything.
Answer == IF lag THEN {dac_rddata}
          ELSE IF dac_rdaddr < Depth THEN {table[dac_rdaddr]}
          ELSE Words

\* unsigned(dac_rdaddr) + 1, in 16 bits.
NextAddr == (dac_rdaddr + 1) % (LastAddr + 1)

\* Variant: the player waits for a longer table instead of ending.
LastPoint_Waits(w) ==
    /\ NextAddr > ramplen
    /\ dac_rddata' = w
    /\ UNCHANGED <<state, dac_rdaddr, ramp_dac_setpt, played, since>>

\* Variant: the run ends with its last point.
LastPoint_Early(w) ==
    /\ NextAddr >= ramplen
    /\ state' = "IDLE" /\ dac_rdaddr' = 0 /\ dac_rddata' = w
    /\ played' = <<>> /\ since' = 0
    /\ UNCHANGED ramp_dac_setpt

\* Variant: the next run starts where this one ended.
LastPoint_NoReset(w) ==
    /\ NextAddr > ramplen
    /\ state' = "IDLE" /\ dac_rddata' = w
    /\ played' = <<>> /\ since' = 0
    /\ UNCHANGED <<dac_rdaddr, ramp_dac_setpt>>

\* The address is cleared here and not at the next start; nobody sees it between.
LastPoint(w) ==
    /\ NextAddr > ramplen
    /\ state' = "IDLE" /\ dac_rdaddr' = 0 /\ dac_rddata' = w
    /\ played' = <<>> /\ since' = 0
    /\ UNCHANGED ramp_dac_setpt

NextPoint(w) ==
    /\ NextAddr <= ramplen
    /\ dac_rdaddr' = NextAddr /\ ramp_dac_setpt' = w
    /\ played' = IF loaded = None THEN played ELSE Append(played, w)
    /\ UNCHANGED <<state, dac_rddata, since>>

RunPoint ==
    /\ state = "RUN_RAMP"
    /\ \E w \in Answer : LastPoint(w) \/ NextPoint(w)
    /\ lag' = FALSE /\ late' = (state' = "RUN_RAMP" /\ (late \/ lag))

Tick ==
    /\ dac_setpt_raw' = IF mode = "ramp" THEN ramp_dac_setpt ELSE None
    /\ \/ RunPoint
       \/ state = "IDLE" /\ UNCHANGED <<player, played, since, late>>
    /\ UNCHANGED <<ramplen, rampaddr, table, board, loaders, loaded>>

-----------------------------------------------------------------------------
Step(t) == WriteAddr(t) \/ WriteData(t) \/ Return(t)

Commands == \/ \E n \in Lens : SetLength(n)
            \/ \E m \in {"ramp", "other"} : Set_dacOpmode(m)
            \/ RunRamp

Next == \/ \E t \in Threads : Step(t) \/ \E s \in Tables : write_ramptable(t, s)
        \/ Commands \/ FirstWord \/ Tick

Spec == Init /\ [][Next]_vars

\* The trigger does not stop, and a load that has begun goes on.
FairSpec == Spec /\ WF_vars(Tick) /\ \A t \in Threads : WF_vars(Step(t))

-----------------------------------------------------------------------------
(* Properties                                                              *)

\* Addresses and words keep their widths, also beyond the depth of the memory.
TypeOK ==
    /\ ramplen \in Addrs /\ rampaddr \in 0 .. Depth - 1
    /\ table \in [0 .. Depth - 1 -> Words]
    /\ mode \in {"ramp", "other"} /\ limit \in Limits
    /\ state \in {"IDLE", "RUN_RAMP"}
    /\ dac_rdaddr \in Addrs /\ dac_rddata \in Words /\ lag \in BOOLEAN
    /\ ramp_dac_setpt \in Words /\ dac_setpt_raw \in Words \cup {None}
    /\ pc \in [Threads -> {"idle", "addr", "data"}]
    /\ points \in [Threads -> Seq(Int)] /\ i \in [Threads -> 0 .. Depth]
    /\ alone \in [Threads -> BOOLEAN]
    /\ loaded \in Seq(Int) \cup {None} /\ played \in Seq(Words)
    /\ since \in Addrs /\ late \in BOOLEAN

InRange(v) == v \in Words /\ v \in -limit .. limit

\* A table whose load met no other one is in place, word for word and with its
\* length, until the next load or change of the length begins; a point beyond
\* the range of the register or the limit is stored as another one.
LoneLoadSticks ==
    loaded # None =>
        /\ ramplen = Len(loaded)
        /\ \A k \in 1 .. Len(loaded) : InRange(loaded[k]) => table[k - 1] = loaded[k]

\* A run plays the table in place point by point, one per trigger, with none
\* left out or repeated.  So does the rest of a run during which a new table was
\* loaded or the length changed, from where it was then.
RunPlaysTable ==
    state = "RUN_RAMP" /\ loaded # None /\ since <= Len(loaded) =>
        /\ dac_rdaddr = since + Len(played) /\ dac_rdaddr <= Len(loaded)
        /\ \A k \in 1 .. Len(played) :
              \/ played[k] = loaded[since + k]
              \/ ~InRange(loaded[since + k])
              \/ late /\ since + k = 1

\* When a run ends, all points were played and the DAC has got the last one.
RunLandsOnLast ==
    [][state = "RUN_RAMP" /\ state' = "IDLE" /\ loaded # None /\ since < Len(loaded) =>
          /\ since + Len(played) = Len(loaded)
          /\ \/ dac_setpt_raw' = loaded[Len(loaded)]
             \/ mode # "ramp" \/ ~InRange(loaded[Len(loaded)])
             \/ late /\ Len(loaded) = 1]_vars

\* Every run ends, whatever is loaded meanwhile, unless the length is set to
\* the largest address: then the address wraps before it is exceeded.
RunEnds == <>[](ramplen # LastAddr) => []<>(state = "IDLE")

=============================================================================
