------------------------------ MODULE Flavour ------------------------------
(***************************************************************************)
(* The hardware flavour of the board: four bytes of an I2C EEPROM that say *)
(* what it is, set from the console (console.c) and copied to registers    *)
(* and to the two conversion factors by ReadHardwareFlavor (i2c.c), at     *)
(* start-up and after every change; and the two users of the factors,      *)
(* Set_dac (control.c) and the 10 Hz telemetry (sadata.c), which reads the *)
(* setpoint back from the DAC (dac_gainoffset.vhd).                        *)
(*                                                                         *)
(* FreeRTOS runs the ready thread of the highest priority.  The console is *)
(* below all others: they interrupt it anywhere, and it never runs while   *)
(* one of them is in the middle of its work.  Threads of the same priority *)
(* (clients, telemetry) share the processor in time slices.                *)
(*                                                                         *)
(* A byte is 0, 1 or Other (0xFF of an erased EEPROM, a test pattern).     *)
(* The number of channels and the bandwidth are copied and no code depends *)
(* on them.  Volts, amperes and bits are integers with their signs; a      *)
(* factor is given as bits per volt in both directions, 0 until it is set. *)
(***************************************************************************)
EXTENDS Integers

CONSTANTS
    Before, After, \* bytes that are copied and nothing more, before and after
                   \* the resolution: the number of channels, the bandwidth
    Bits18,   \* CONVVOLTSTO18BITS
    Bits20,   \* CONVVOLTSTO20BITS
    VHigh,    \* 9.9999, the largest setpoint in volts
    VLow,     \* 10, the lowest one and full scale of the DAC
    Scales,   \* values of scalefactors[].dac_dccts, in amperes per volt
    Amps,     \* setpoints that are asked for
    Garbage,  \* what the stack may hold where ReadHardwareFlavor has rdBuf
    MaxCmds,  \* bound on the channel's commands since power-up
    None

Other == 3
Byte  == {0, 1, Other}
Bytes == Before \cup After \cup {"resolution", "polarity"}

ASSUME FlavourAssumption ==
    /\ (Before \cup After) \cap {"resolution", "polarity"} = {}
    /\ Before \cap After = {}
    /\ Bits18 \in Nat \ {0} /\ Bits20 \in Nat /\ Bits18 < Bits20
    /\ VHigh \in Nat /\ VLow \in Nat /\ VHigh < VLow
    /\ Scales \subseteq Nat \ {0} /\ Scales # {}
    /\ Amps \subseteq Int /\ MaxCmds \in Nat
    /\ Garbage \subseteq [Bytes -> Byte]
    /\ None \notin Bytes

Callers == {"client", "console"}

VARIABLES
    eeprom,          \* the bytes, in EEPROM
    writing,         \* byte whose write cycle is under way
    regs,            \* NUMCHANS_REG, RESOLUTION_REG, BANDWIDTH_REG, POLARITY_REG
    toBits, toVolts, \* CONVVOLTSTODACBITS, 1 / CONVDACBITSTOVOLTS
    pulse,           \* DIGOUT_ON2_PULSEENB_REG of the channels
    up,              \* the threads run
    pc,              \* main while booting, then the console
    rdBuf,           \* of ReadHardwareFlavor, while it runs
    left,            \* bytes that clear_eeprom or test_eeprom has still to write
    excused,         \* history: a byte was wiped or misread since the last read
    sf,              \* scalefactors[].dac_dccts
    at, by,          \* per caller: next step of Set_dac, its setpoint and the
                     \* factors it converts with; history (by.steady): the
                     \* scale factor did not change under way
    setpt, setBy,    \* DAC_SETPT_REG; history: the command that wrote it
    spc, raw, rawBy, \* sadata_push: next step, register read; its history
    cmds             \* commands since power-up

store   == <<eeprom, writing>>
board   == <<regs, toBits, toVolts, pulse>>
sadata  == <<spc, raw, rawBy>>
channel == <<sf, at, by, setpt, setBy, cmds>>
users   == <<channel, sadata>>

vars == <<store, board, up, pc, rdBuf, left, excused, users>>

-----------------------------------------------------------------------------
NothingAsked == [amps |-> 0, bits |-> 0, sf |-> 1, steady |-> TRUE]

Idle == [c \in Callers |-> "idle"]
NoCall == [c \in Callers |-> NothingAsked]
Blank == [b \in Bytes |-> 0]

Init ==
    /\ eeprom \in [Bytes -> Byte] /\ writing = None
    /\ regs = Blank /\ toBits = 0 /\ toVolts = 0 /\ pulse = FALSE
    /\ up = FALSE /\ pc = "off"
    /\ rdBuf = Blank /\ left = {} /\ excused = FALSE
    /\ sf = 0 /\ setpt = 0 /\ setBy = NothingAsked /\ cmds = 0
    /\ at = Idle /\ by = NoCall
    /\ spc = "idle" /\ raw = 0 /\ rawBy = NothingAsked

\* main: ReadHardwareFlavor is called before there are threads.
PowerOn ==
    /\ pc = "off"
    /\ pc' = "read"
    /\ UNCHANGED <<store, board, up, rdBuf, left, excused, users>>

\* realmain: the settings come from flash, then the threads start.
Start ==
    /\ pc = "done" /\ ~up
    /\ up' = TRUE /\ pc' = "menu"
    /\ rdBuf' = Blank
    /\ sf' \in Scales
    /\ UNCHANGED <<store, board, left, excused, at, by, setpt, setBy, cmds, sadata>>

\* Power fails.  A byte that is being written may get any value.
PowerLoss ==
    /\ pc # "off"
    /\ \E v \in Byte :
          eeprom' = IF writing = None THEN eeprom
                    ELSE [eeprom EXCEPT ![writing] = v]
    /\ writing' = None
    /\ regs' = Blank /\ toBits' = 0 /\ toVolts' = 0 /\ pulse' = FALSE
    /\ up' = FALSE /\ pc' = "off"
    /\ rdBuf' = Blank /\ left' = {} /\ excused' = FALSE
    /\ sf' = 0 /\ setpt' = 0 /\ setBy' = NothingAsked /\ cmds' = 0
    /\ at' = Idle /\ by' = NoCall
    /\ spc' = "idle" /\ raw' = 0 /\ rawBy' = NothingAsked

-----------------------------------------------------------------------------
(* ReadHardwareFlavor, by main or by the console                           *)

\* Nobody of a higher priority is ready.
Runs == spc = "idle" /\ at["client"] = "idle"

Goto(from, to) == pc = from /\ Runs /\ pc' = to

\* Two transfers, whose status is not looked at: when one of them fails rdBuf
\* is what the stack held.
i2c_eeprom_readBytes ==
    /\ Goto("read", "copied")
    /\ \/ rdBuf' = eeprom /\ excused' = FALSE
       \/ rdBuf' \in Garbage /\ excused' = TRUE
    /\ UNCHANGED <<store, board, up, left, users>>

\* What a register holds for a byte: 2 if it is invalid.
Decode(byte) == IF byte \in {0, 1} THEN byte ELSE 2

\* The bytes before the resolution, and those after it.
CopyBytes(from, to, bytes) ==
    /\ Goto(from, to)
    /\ regs' = [b \in Bytes |-> IF b \in bytes THEN Decode(rdBuf[b]) ELSE regs[b]]
    /\ UNCHANGED <<store, toBits, toVolts, pulse, up, rdBuf, left, excused, users>>

\* Variant: a valid resolution is put into force at start-up only.
WriteResolution_Once ==
    /\ Goto("resolution", IF rdBuf["resolution"] \notin {0, 1} THEN "invalid"
                          ELSE IF up THEN "bandwidth" ELSE "bits")
    /\ regs' = [regs EXCEPT !["resolution"] = rdBuf["resolution"]]
    /\ UNCHANGED <<store, toBits, toVolts, pulse, up, rdBuf, left, excused, users>>

\* The byte is written as it is; an invalid one is replaced afterwards, and
\* leaves the factors as they are.
WriteResolution ==
    /\ Goto("resolution", IF rdBuf["resolution"] \in {0, 1} THEN "bits" ELSE "invalid")
    /\ regs' = [regs EXCEPT !["resolution"] = rdBuf["resolution"]]
    /\ UNCHANGED <<store, toBits, toVolts, pulse, up, rdBuf, left, excused, users>>

\* Variant: the factor of a range of 10 V instead of 20 V.
Factor_HalfRange(resolution) == IF resolution = 0 THEN Bits18 ELSE 2 * Bits20

Factor(resolution) == IF resolution = 0 THEN Bits18 ELSE Bits20

SetToBits ==
    /\ Goto("bits", "volts")
    /\ toBits' = Factor(rdBuf["resolution"])
    /\ UNCHANGED <<store, regs, toVolts, pulse, up, rdBuf, left, excused, users>>

SetToVolts ==
    /\ Goto("volts", "bandwidth")
    /\ toVolts' = Factor(rdBuf["resolution"])
    /\ UNCHANGED <<store, regs, toBits, pulse, up, rdBuf, left, excused, users>>

InvalidResolution ==
    /\ Goto("invalid", "bandwidth")
    /\ regs' = [regs EXCEPT !["resolution"] = 2]
    /\ UNCHANGED <<store, toBits, toVolts, pulse, up, rdBuf, left, excused, users>>

WritePolarity ==
    /\ Goto("polarity", IF rdBuf["polarity"] = 1 THEN "pulse" ELSE "done")
    /\ regs' = [regs EXCEPT !["polarity"] = Decode(rdBuf["polarity"])]
    /\ UNCHANGED <<store, toBits, toVolts, pulse, up, rdBuf, left, excused, users>>

\* Unipolar: ON2 is pulsed from now on; nothing but a power cycle ends it.
EnablePulse ==
    /\ Goto("pulse", "done")
    /\ pulse' = TRUE
    /\ UNCHANGED <<store, regs, toBits, toVolts, up, rdBuf, left, excused, users>>

Return ==
    /\ up /\ Goto("done", "menu")
    /\ rdBuf' = Blank
    /\ UNCHANGED <<store, board, up, left, excused, users>>

ReadHardwareFlavor ==
    \/ i2c_eeprom_readBytes \/ CopyBytes("copied", "resolution", Before)
    \/ WriteResolution \/ SetToBits \/ SetToVolts \/ InvalidResolution
    \/ CopyBytes("bandwidth", "polarity", After)
    \/ WritePolarity \/ EnablePulse \/ Return

-----------------------------------------------------------------------------
(* The console                                                             *)

\* A transfer to the EEPROM whose status is not looked at: it may have failed.
i2c_eeprom_writeBytes(b, v) ==
    \/ eeprom' = [eeprom EXCEPT ![b] = v] /\ writing' = b
    \/ UNCHANGED store

\* set_numchans, set_resolution, set_bandwidth, set_polarity.
SetByte(b, v) ==
    /\ Goto("menu", "delay")
    /\ i2c_eeprom_writeBytes(b, v)
    /\ UNCHANGED <<board, up, rdBuf, left, excused, users>>

\* An answer that is not 0 or 1 writes nothing, and the flavour is read again.
InvalidInput ==
    /\ Goto("menu", "read")
    /\ UNCHANGED <<store, board, up, rdBuf, left, excused, users>>

\* Variant: the new byte is not put into force.
Delay_NoRead ==
    /\ Goto("delay", "menu")
    /\ writing' = None
    /\ UNCHANGED <<eeprom, board, up, rdBuf, left, excused, users>>

\* vTaskDelay is longer than a write cycle of the EEPROM.
Delay ==
    /\ Goto("delay", "read")
    /\ writing' = None
    /\ UNCHANGED <<eeprom, board, up, rdBuf, left, excused, users>>

\* clear_eeprom and test_eeprom overwrite all bytes, one by one from either
\* end, and the flavour is not read again.
BeginWipe ==
    /\ Goto("menu", "wipe")
    /\ left' = Bytes
    /\ UNCHANGED <<store, board, up, rdBuf, excused, users>>

WipeByte(b) ==
    /\ Goto("wipe", IF left = {b} THEN "wiped" ELSE "wipe")
    /\ b \in left /\ left' = left \ {b}
    /\ i2c_eeprom_writeBytes(b, Other)
    /\ excused' = TRUE
    /\ UNCHANGED <<board, up, rdBuf, users>>

EndWipe ==
    /\ Goto("wiped", "menu")
    /\ writing' = None
    /\ UNCHANGED <<eeprom, board, up, rdBuf, left, excused, users>>

-----------------------------------------------------------------------------
(* Set_dac, called by a client and by entry K of the menu                  *)

\* A step of the caller: the console takes it when nobody above it is ready,
\* and is back in its menu at the end.
Step(c, from, to) ==
    /\ at[c] = from /\ at' = [at EXCEPT ![c] = to]
    /\ c = "console" => Runs
    /\ pc' = IF c = "console" /\ to = "idle" THEN "menu" ELSE pc

Call(c, v) ==
    /\ cmds < MaxCmds /\ cmds' = cmds + 1
    /\ by' = [by EXCEPT ![c] = [NothingAsked EXCEPT !.amps = v]]
    /\ UNCHANGED <<store, board, up, rdBuf, left, excused, sf, setpt, setBy, sadata>>

\* DAC_SETPT_MSG.
ClientCommand(v) ==
    /\ up /\ Step("client", "idle", "high")
    /\ Call("client", v)

\* receive_console_cmd, with the same message.
receive_console_cmd(v) ==
    /\ Goto("menu", "command")
    /\ at' = [at EXCEPT !["console"] = "high"]
    /\ Call("console", v)

\* The scale factor is read again for every comparison and assignment.
CheckHigh(c) ==
    /\ Step(c, "high", IF by[c].amps > VHigh * sf THEN "clampHigh" ELSE "low")
    /\ UNCHANGED <<store, board, up, rdBuf, left, excused, sf, by, setpt, setBy,
                   cmds, sadata>>

\* Variant: there is no low limit.
CheckLow_None(c) ==
    /\ Step(c, "low", "convert")
    /\ UNCHANGED <<store, board, up, rdBuf, left, excused, sf, by, setpt, setBy,
                   cmds, sadata>>

CheckLow(c) ==
    /\ Step(c, "low", IF by[c].amps < -(VLow * sf) THEN "clampLow" ELSE "convert")
    /\ UNCHANGED <<store, board, up, rdBuf, left, excused, sf, by, setpt, setBy,
                   cmds, sadata>>

Clamp(c, from, v) ==
    /\ Step(c, from, "convert")
    /\ by' = [by EXCEPT ![c].amps = v]
    /\ UNCHANGED <<store, board, up, rdBuf, left, excused, sf, setpt, setBy, cmds,
                   sadata>>

\* No thread that changes toBits runs from here to the write: it is the console's.
Convert(c) ==
    /\ Step(c, "convert", "write")
    /\ by' = [by EXCEPT ![c].bits = toBits, ![c].sf = sf]
    /\ UNCHANGED <<store, board, up, rdBuf, left, excused, sf, setpt, setBy, cmds,
                   sadata>>

\* Division of integers in C, and the cast to s32: towards zero.
Trunc(x, n) == IF x >= 0 THEN x \div n ELSE -((-x) \div n)

NewSetpt(b) == Trunc(b.amps * b.bits, b.sf)

\* JUMP mode; what SMOOTH mode does with the setpoint is in DacChannel.
WriteSetpt(c) ==
    /\ Step(c, "write", "idle")
    /\ setpt' = NewSetpt(by[c]) /\ setBy' = by[c]
    /\ by' = [by EXCEPT ![c] = NothingAsked]
    /\ UNCHANGED <<store, board, up, rdBuf, left, excused, sf, cmds, sadata>>

Set_dac(c) ==
    \/ CheckHigh(c) \/ Clamp(c, "clampHigh", VHigh * sf)
    \/ CheckLow(c) \/ Clamp(c, "clampLow", -(VLow * sf))
    \/ Convert(c) \/ WriteSetpt(c)

\* Set_dac has read the scale factor and will read it again.
Midway == {"clampHigh", "low", "clampLow", "convert"}

\* SF_DAC_DCCTS_MSG or READ_QSPI_MSG of another client, or of entry K.
SetScale(s) ==
    /\ up /\ cmds < MaxCmds /\ cmds' = cmds + 1
    /\ s # sf /\ sf' = s
    /\ by' = [c \in Callers |-> [by[c] EXCEPT
                 !.steady = @ /\ at[c] \notin Midway]]
    /\ UNCHANGED <<store, board, up, pc, rdBuf, left, excused, at, setpt, setBy,
                   sadata>>

\* An entry of the menu; it waits for the operator.
Choose ==
    \/ \E b \in Bytes, v \in {0, 1} : SetByte(b, v)
    \/ InvalidInput
    \/ BeginWipe
    \/ \E v \in Amps : receive_console_cmd(v)

Console == Delay \/ EndWipe \/ Set_dac("console") \/ \E b \in Bytes : WipeByte(b)

Clients == \/ \E v \in Amps : ClientCommand(v)
           \/ Set_dac("client")
           \/ \E s \in Scales : SetScale(s)

-----------------------------------------------------------------------------
(* The telemetry                                                           *)

Within(x, low, high) == IF x < low THEN low ELSE IF x > high THEN high ELSE x

\* dac_gainoffset with gain 1 and no offset: a word of 20 bits, and of 18 if the
\* lowest bit of RESOLUTION_REG is 0.
Dac(x) ==
    LET half == VLow * Bits20
        word == ((x + half) % (2 * half)) - half
    IN  IF regs["resolution"] \in {1, Other} THEN word
        ELSE Within(word, -(VLow * Bits18), VLow * Bits18 - 1)

\* sadata_push reads DAC_CURRSETPT_REG, in JUMP mode and after the next 10 kHz
\* trigger.  DCCT values and thresholds are scaled as it is...
ReadSetpt ==
    /\ up /\ spc = "idle"
    /\ spc' = "scale" /\ raw' = Dac(setpt) /\ rawBy' = setBy
    /\ UNCHANGED <<store, board, up, pc, rdBuf, left, excused, channel>>

\* Variant: the scale factor is left out.
Reported_Volts(bits) == bits

\* ... and reports it in amperes, here in units of 1 / toVolts.
Reported(bits) == bits * sf

SendData ==
    /\ spc = "scale"
    /\ spc' = "idle" /\ raw' = 0 /\ rawBy' = NothingAsked
    /\ UNCHANGED <<store, board, up, pc, rdBuf, left, excused, channel>>

Telemetry == ReadSetpt \/ SendData

-----------------------------------------------------------------------------
Next == PowerOn \/ Start \/ PowerLoss \/ ReadHardwareFlavor \/ Choose \/ Console
        \/ Clients \/ Telemetry

Spec == Init /\ [][Next]_vars

(***************************************************************************)
(* Fairness.  A thread that has begun its work goes on, and the threads    *)
(* above the console block again and again (in recv, or for 95 ms), hence  *)
(* SF for the console.  Nothing is assumed of the operator, of the         *)
(* commands that come, of the start-up or of the power.                    *)
(***************************************************************************)
FairSpec == /\ Spec
            /\ WF_vars(SendData) /\ WF_vars(Set_dac("client"))
            /\ SF_vars(ReadHardwareFlavor \/ Console)

-----------------------------------------------------------------------------
(* Properties                                                              *)

Asked == [amps : Int, bits : {0, Bits18, Bits20}, sf : Scales \cup {1},
          steady : BOOLEAN]

\* Registers hold a valid or the invalid code, and for a moment any byte.
TypeOK ==
    /\ eeprom \in [Bytes -> Byte] /\ writing \in Bytes \cup {None}
    /\ regs \in [Bytes -> 0 .. Other]
    /\ toBits \in {0, Bits18, Bits20} /\ toVolts \in {0, Bits18, Bits20}
    /\ pulse \in BOOLEAN /\ up \in BOOLEAN /\ excused \in BOOLEAN
    /\ pc \in {"off", "read", "copied", "resolution", "bits", "volts", "invalid",
               "bandwidth", "polarity", "pulse", "done", "menu", "delay", "wipe",
               "wiped", "command"}
    /\ rdBuf \in [Bytes -> Byte] /\ left \subseteq Bytes
    /\ sf \in Scales \cup {0} /\ (up => sf \in Scales) /\ cmds \in 0 .. MaxCmds
    /\ at \in [Callers -> Midway \cup {"idle", "high", "write"}]
    /\ by \in [Callers -> Asked]
    /\ setpt \in Int /\ setBy \in Asked
    /\ spc \in {"idle", "scale"} /\ raw \in Int /\ rawBy \in Asked

\* Whenever the menu is shown, the registers say what the EEPROM says (unless
\* it was wiped or misread), an ON2 output that has to be pulsed is, and the
\* two factors belong together and to the resolution in force: a change is
\* never put into force in part, wherever clients interrupted it.
FlavourInForce ==
    pc = "menu" =>
        /\ ~excused => \A b \in Bytes : regs[b] = Decode(eeprom[b])
        /\ regs["polarity"] = 1 => pulse
        /\ toBits = toVolts
        /\ regs["resolution"] \in {0, 1} => toBits = Factor(regs["resolution"])

\* Set_dac: the setpoint in the register lies in the range of the converter it
\* was computed for, whoever asked for it and whatever ran in between, unless the
\* scale factor changed between its first and its last use by the same command.
SetptWithinScale ==
    setBy.steady => setpt \in -(VLow * setBy.bits) .. VHigh * setBy.bits

\* The telemetry reports the setpoint that was asked for, saturated and to the
\* bit, whichever threads interrupt each other, as long as the factors are those
\* it was set with (rawBy), the DAC has the resolution they belong to, and the
\* setpoint was in range.
TelemetryTrue ==
    /\ spc = "scale" /\ rawBy.steady /\ rawBy.bits = toVolts /\ rawBy.sf = sf
    /\ regs["resolution"] \in {0, 1} /\ toVolts = Factor(regs["resolution"])
    => rawBy.amps * toVolts - Reported(raw) \in -(sf - 1) .. sf - 1

\* A resolution that was stored from the console is in force in the end, unless
\* power fails or it is misread, however often other threads interrupt it.
SetTakesEffect ==
    \A v \in {0, 1} :
        pc = "delay" /\ writing = "resolution" /\ eeprom[writing] = v ~>
            \/ regs["resolution"] = v /\ toBits = Factor(v) /\ toVolts = Factor(v)
            \/ pc = "off" \/ excused

=============================================================================
