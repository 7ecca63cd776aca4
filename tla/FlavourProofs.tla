--------------------------- MODULE FlavourProofs ---------------------------
(***************************************************************************)
(* Proofs about Flavour, for any sets of copied bytes, any contents of the *)
(* stack, any positive scale factors and any setpoints of either sign.     *)
(*                                                                         *)
(* FlavourInForce speaks of the menu only, and ReadHardwareFlavor comes    *)
(* there by steps between which clients run and power may fail.  The       *)
(* invariant therefore says, for every place in it, which factors are set  *)
(* (FactorsOK), which registers are copied (CopyOK) and whether the output *)
(* is pulsed (PulseOK).  Of the users of the factors it says how far       *)
(* Set_dac has brought a setpoint into range (CallOK), and what the        *)
(* setpoint and the telemetry's copy of it were computed from (DataOK).    *)
(***************************************************************************)
EXTENDS Flavour, TLAPS

-----------------------------------------------------------------------------
(* The inductive invariant                                                 *)

\* Places in ReadHardwareFlavor once the bytes are read.
Reading == {"copied", "resolution", "bits", "volts", "invalid", "bandwidth",
            "polarity", "pulse", "done"}

\* Places where the resolution in force has its factors.
Settled == {"bandwidth", "polarity", "pulse", "done", "menu", "delay", "wipe",
            "wiped", "command"}

\* Places where the console is not in ReadHardwareFlavor.
InMenu == {"menu", "delay", "wipe", "wiped", "command"}

\* The factors differ between their two assignments only, and belong to the
\* resolution in the register, but for the time it takes to change it and for
\* the first time after power-up.
FactorsOK ==
    /\ pc = "off" => ~up
    /\ pc \in InMenu => up
    /\ pc # "volts" => toBits = toVolts
    /\ pc \in Settled \/ (up /\ pc \in {"read", "copied", "resolution"}) =>
          (regs["resolution"] \in {0, 1} => toBits = Factor(regs["resolution"]))
    /\ pc \in {"bits", "volts"} => /\ regs["resolution"] = rdBuf["resolution"]
                                   /\ rdBuf["resolution"] \in {0, 1}
    /\ pc = "volts" => toBits = Factor(rdBuf["resolution"])

\* A unipolar board pulses ON2.
PulseOK == regs["polarity"] = 1 => pulse \/ pc = "pulse"

\* What is copied so far, and from what.
CopyOK ==
    /\ pc \in Reading => (excused \/ rdBuf = eeprom)
    /\ pc \in Reading \ {"copied"} => \A b \in Before : regs[b] = Decode(rdBuf[b])
    /\ pc \in {"polarity", "pulse", "done"} =>
          \A b \in After : regs[b] = Decode(rdBuf[b])
    /\ pc = "invalid" => rdBuf["resolution"] \notin {0, 1}
    /\ pc \in {"bandwidth", "polarity", "pulse", "done"} =>
          regs["resolution"] = Decode(rdBuf["resolution"])
    /\ pc \in {"pulse", "done"} => regs["polarity"] = Decode(rdBuf["polarity"])
    /\ pc \in {"menu", "command"} => (excused \/ \A b \in Bytes : regs[b] = Decode(eeprom[b]))
    /\ pc = "wiped" => excused

\* A setpoint of a amperes is in range at scale factor s.
InRange(a, s) == -(VLow * s) <= a /\ a <= VHigh * s

\* Set_dac, as far as it has come, at a scale factor that did not change.
CallOK(c) ==
    /\ at[c] # "idle" => up
    /\ by[c].steady /\ at[c] = "low" => by[c].amps <= VHigh * sf
    /\ by[c].steady /\ at[c] = "convert" => InRange(by[c].amps, sf)
    /\ by[c].steady /\ at[c] = "write" => InRange(by[c].amps, by[c].sf)

\* A DAC of the right resolution does not change a setpoint in range.
RawOK ==
    /\ rawBy.steady /\ regs["resolution"] \in {0, 1}
    /\ rawBy.bits = Factor(regs["resolution"])
    => raw = NewSetpt(rawBy)

DataOK == /\ \A c \in Callers : CallOK(c)
          /\ at["console"] # "idle" => pc = "command"
          /\ setpt = NewSetpt(setBy) /\ (setBy.steady => InRange(setBy.amps, setBy.sf))
          /\ spc = "scale" => RawOK

IInv == TypeOK /\ FactorsOK /\ PulseOK /\ CopyOK /\ DataOK

-----------------------------------------------------------------------------
(* Arithmetic                                                              *)

\* What the assumption says of the numbers.
LEMMA Sizes ==
  /\ VHigh \in Nat /\ VLow \in Nat /\ VHigh < VLow
  /\ Bits18 \in Nat \ {0} /\ Bits20 \in Nat \ {0} /\ Bits18 < Bits20
  /\ Scales \subseteq Nat \ {0} /\ Amps \subseteq Int /\ MaxCmds \in Nat
BY FlavourAssumption

\* A product of integers is one; a product keeps an order, and reveals it.
LEMMA Product ==
  ASSUME NEW x \in Int, NEW y \in Int
  PROVE  x * y \in Int
OBVIOUS

LEMMA ProductMono ==
  ASSUME NEW x \in Int, NEW y \in Int, NEW k \in Nat, x <= y
  PROVE  x * k <= y * k
<1>1. PICK d \in Nat : y = x + d
  <2>1. y - x \in Nat /\ y = x + (y - x)
    OBVIOUS
  <2>. QED
    BY <2>1
<1>2. y * k = x * k + d * k
  BY <1>1
<1>3. d * k \in Nat /\ x * k \in Int
  OBVIOUS
<1>. QED
  BY <1>2, <1>3

LEMMA ProductOrder ==
  ASSUME NEW x \in Int, NEW y \in Int, NEW n \in Nat \ {0}, x * n <= y * n
  PROVE  x <= y
<1>. SUFFICES ASSUME y + 1 <= x PROVE FALSE
  OBVIOUS
<1>1. (y + 1) * n <= x * n
  BY ProductMono
<1>2. (y + 1) * n = y * n + n
  OBVIOUS
<1>3. y * n \in Int /\ x * n \in Int
  OBVIOUS
<1>. QED
  BY <1>1, <1>2, <1>3

LEMMA ProductSwap ==
  ASSUME NEW x \in Int, NEW y \in Int, NEW z \in Int
  PROVE  (x * y) * z = (x * z) * y
OBVIOUS

\* Division leaves less than the divisor and does not go past zero.
LEMMA Quotient ==
  ASSUME NEW x \in Nat, NEW n \in Nat \ {0}
  PROVE  x \div n \in Nat /\ x - (x \div n) * n \in 0 .. n - 1
OBVIOUS

LEMMA TruncIs ==
  ASSUME NEW x \in Int, NEW n \in Nat \ {0}
  PROVE  /\ Trunc(x, n) \in Int
         /\ x - Trunc(x, n) * n \in -(n - 1) .. n - 1
         /\ x >= 0 => Trunc(x, n) * n <= x
         /\ x < 0 => Trunc(x, n) * n >= x
<1>1. CASE x >= 0
  <2>1. PICK q \in Nat : q = x \div n /\ x - q * n \in 0 .. n - 1
    BY <1>1, Quotient
  <2>2. Trunc(x, n) = q
    BY <1>1, <2>1 DEF Trunc
  <2>3. q * n \in Int
    OBVIOUS
  <2>. QED
    BY <1>1, <2>1, <2>2, <2>3
<1>2. CASE x < 0
  <2>0. -x \in Nat
    BY <1>2
  <2>1. PICK q \in Nat : q = (-x) \div n /\ (-x) - q * n \in 0 .. n - 1
    BY <2>0, Quotient
  <2>2. Trunc(x, n) = -q
    BY <1>2, <2>1 DEF Trunc
  <2>3. q * n \in Int /\ (-q) * n = -(q * n)
    OBVIOUS
  <2>. QED
    BY <1>2, <2>1, <2>2, <2>3
<1>. QED
  BY <1>1, <1>2

LEMMA TruncBelow ==
  ASSUME NEW x \in Int, NEW n \in Nat \ {0}, NEW m \in Nat, x <= m * n
  PROVE  Trunc(x, n) <= m
<1>1. PICK q \in Int : q = Trunc(x, n)
  BY TruncIs
<1>2. x >= 0 => q * n <= x
  BY <1>1, TruncIs
<1>3. x < 0 => q * n <= n - 1
  <2>1. q * n \in Int /\ x - q * n \in -(n - 1) .. n - 1
    BY <1>1, TruncIs
  <2>. QED
    BY <2>1
<1>4. m * n \in Int /\ q * n \in Int /\ (m + 1) * n = m * n + n /\ 0 * n = 0
  OBVIOUS
<1>5. CASE x >= 0
  <2>1. q * n <= m * n
    BY <1>2, <1>4, <1>5
  <2>. QED
    BY <1>1, <2>1, ProductOrder
<1>6. CASE x < 0
  <2>1. q <= 0
    <3>. SUFFICES ASSUME 1 <= q PROVE FALSE
      OBVIOUS
    <3>1. 1 * n <= q * n
      BY ProductMono
    <3>. QED
      BY <1>3, <1>4, <1>6, <3>1
  <2>. QED
    BY <1>1, <2>1
<1>. QED
  BY <1>5, <1>6

LEMMA TruncAbove ==
  ASSUME NEW x \in Int, NEW n \in Nat \ {0}, NEW m \in Nat, -(m * n) <= x
  PROVE  -m <= Trunc(x, n)
<1>1. PICK q \in Int : q = Trunc(x, n)
  BY TruncIs
<1>2. x < 0 => x <= q * n
  BY <1>1, TruncIs
<1>3. x >= 0 => -(n - 1) <= q * n
  <2>1. q * n \in Int /\ x - q * n \in -(n - 1) .. n - 1
    BY <1>1, TruncIs
  <2>. QED
    BY <2>1
<1>4. m * n \in Int /\ q * n \in Int /\ (-m) * n = -(m * n)
  OBVIOUS
<1>5. CASE x < 0
  <2>1. (-m) * n <= q * n
    BY <1>2, <1>4, <1>5
  <2>. QED
    BY <1>1, <2>1, ProductOrder
<1>6. CASE x >= 0
  <2>1. q >= 0
    <3>. SUFFICES ASSUME q <= -1 PROVE FALSE
      OBVIOUS
    <3>1. q * n <= (-1) * n
      BY ProductMono
    <3>2. (-1) * n = -n
      OBVIOUS
    <3>. QED
      BY <1>3, <1>4, <1>6, <3>1, <3>2
  <2>. QED
    BY <1>1, <2>1
<1>. QED
  BY <1>5, <1>6

\* A setpoint in range is in the range of the converter, in bits.
LEMMA InBits ==
  ASSUME NEW a \in Int, NEW n \in Nat \ {0}, NEW k \in Nat, InRange(a, n)
  PROVE  Trunc(a * k, n) \in -(VLow * k) .. VHigh * k
<1>0. VHigh \in Nat /\ VLow \in Nat
  BY Sizes
<1>1. PICK h \in Int, l \in Int : h = VHigh * n /\ l = -(VLow * n) /\ l <= a /\ a <= h
  BY <1>0 DEF InRange
<1>2. PICK x \in Int : x = a * k
  BY Product
<1>3. PICK hk \in Nat, lk \in Nat : hk = VHigh * k /\ lk = VLow * k
  BY <1>0
<1>4. x <= h * k /\ l * k <= x
  BY <1>1, <1>2, ProductMono
<1>5. h * k = hk * n
  BY <1>0, <1>1, <1>3, ProductSwap
<1>6. l * k = -(lk * n)
  <2>1. (VLow * n) * k = lk * n
    BY <1>0, <1>3, ProductSwap
  <2>2. PICK p \in Int : p = VLow * n
    BY <1>0
  <2>3. (-p) * k = -(p * k)
    OBVIOUS
  <2>. QED
    BY <1>1, <2>1, <2>2, <2>3
<1>7. x <= hk * n /\ -(lk * n) <= x
  BY <1>4, <1>5, <1>6
<1>8. Trunc(x, n) <= hk /\ -lk <= Trunc(x, n) /\ Trunc(x, n) \in Int
  BY <1>7, TruncBelow, TruncAbove, TruncIs
<1>. QED
  BY <1>2, <1>3, <1>8

\* A word that has room for a number holds it, and it always holds a number.
LEMMA WordIs ==
  ASSUME NEW h \in Nat \ {0}, NEW x \in Int
  PROVE  /\ ((x + h) % (2 * h)) - h \in Int
         /\ x \in -h .. h - 1 => ((x + h) % (2 * h)) - h = x
OBVIOUS

\* Full scale of either converter is a number of bits, and a setpoint of up to
\* VHigh is below it.
LEMMA FullScale ==
  ASSUME NEW k \in Nat \ {0}
  PROVE  VLow * k \in Nat \ {0} /\ VHigh * k \in Nat /\ VHigh * k <= VLow * k - 1
<1>0. VHigh \in Nat /\ VLow \in Nat /\ VHigh + 1 <= VLow
  BY Sizes
<1>1. (VHigh + 1) * k <= VLow * k
  BY <1>0, ProductMono
<1>2. (VHigh + 1) * k = VHigh * k + k
  BY <1>0
<1>3. VHigh * k \in Nat /\ VLow * k \in Nat
  BY <1>0
<1>. QED
  BY <1>1, <1>2, <1>3

\* The DAC gives an integer, and what it is given if that is in its range.
LEMMA DacIs ==
  ASSUME NEW x \in Int
  PROVE  /\ Dac(x) \in Int
         /\ /\ regs["resolution"] \in {0, 1}
            /\ x \in -(VLow * Factor(regs["resolution"]))
                     .. VHigh * Factor(regs["resolution"])
            => Dac(x) = x
<1>1. PICK h \in Nat \ {0} : h = VLow * Bits20 /\ VHigh * Bits20 <= h - 1
  BY Sizes, FullScale
<1>2. PICK l \in Nat \ {0} : l = VLow * Bits18 /\ VHigh * Bits18 <= l - 1
  BY Sizes, FullScale
<1>3. VHigh * Bits20 \in Nat /\ VHigh * Bits18 \in Nat
  BY Sizes, FullScale
<1>4. l <= h
  <2>1. Bits18 * VLow <= Bits20 * VLow
    BY Sizes, ProductMono
  <2>. QED
    BY <1>1, <1>2, <2>1, Sizes
<1>5. PICK w \in Int : /\ w = ((x + h) % (2 * h)) - h
                       /\ x \in -h .. h - 1 => w = x
  BY WordIs
<1>6. Dac(x) = IF regs["resolution"] \in {1, Other} THEN w ELSE Within(w, -l, l - 1)
  BY <1>1, <1>2, <1>5 DEF Dac
<1>7. Within(w, -l, l - 1) \in Int
  BY DEF Within
<1>8. Dac(x) \in Int
  BY <1>6, <1>7
<1>9. CASE regs["resolution"] = 1
  <2>1. x \in -h .. VHigh * Bits20 => Dac(x) = x
    BY <1>1, <1>3, <1>5, <1>6, <1>9
  <2>. QED
    BY <1>1, <1>8, <1>9, <2>1 DEF Factor
<1>10. CASE regs["resolution"] = 0
  <2>1. Dac(x) = Within(w, -l, l - 1)
    BY <1>6, <1>10 DEF Other
  <2>2. x \in -l .. l - 1 => Within(x, -l, l - 1) = x
    BY DEF Within
  <2>3. x \in -l .. VHigh * Bits18 => Dac(x) = x
    BY <1>2, <1>3, <1>4, <1>5, <2>1, <2>2
  <2>. QED
    BY <1>2, <1>8, <1>10, <2>3 DEF Factor
<1>. QED
  BY <1>8, <1>9, <1>10

-----------------------------------------------------------------------------
(* Every action keeps the invariant                                        *)

\* The steps of the operator, and those of Set_dac, its callers and telemetry.
OperatorStep ==
    \/ \E b \in Bytes, v \in {0, 1} : SetByte(b, v)
    \/ InvalidInput \/ BeginWipe \/ Delay \/ EndWipe
    \/ \E b \in Bytes : WipeByte(b)

ChannelStep ==
    \/ \E v \in Amps : ClientCommand(v) \/ receive_console_cmd(v)
    \/ \E c \in Callers : Set_dac(c)
    \/ \E s \in Scales : SetScale(s)
    \/ ReadSetpt \/ SendData

LEMMA NextSplit ==
  ASSUME Next
  PROVE  \/ PowerOn \/ Start \/ PowerLoss \/ ReadHardwareFlavor \/ OperatorStep
         \/ ChannelStep
<1>1. "client" \in Callers /\ "console" \in Callers
  BY DEF Callers
<1>2. Choose \/ Console \/ Clients \/ Telemetry => OperatorStep \/ ChannelStep
  BY <1>1 DEF Choose, Console, Clients, Telemetry, OperatorStep, ChannelStep
<1>. QED
  BY <1>2 DEF Next

\* What the users of the factors leave alone, and the rest leaves to them.
LEMMA ChannelFrame ==
  ASSUME ChannelStep
  PROVE  UNCHANGED <<store, board, up, rdBuf, left, excused>>
<1>1. ASSUME NEW c \in Callers, Set_dac(c)
      PROVE  UNCHANGED <<store, board, up, rdBuf, left, excused>>
  BY <1>1 DEF Set_dac, CheckHigh, CheckLow, Clamp, Convert, WriteSetpt
<1>. QED
  BY <1>1 DEF ChannelStep, ClientCommand, receive_console_cmd, Call, SetScale,
              ReadSetpt, SendData

\* Only entry K leaves the menu, and only the end of its Set_dac returns to it.
LEMMA ChannelPlace ==
  ASSUME IInv, ChannelStep
  PROVE  \/ pc' = pc
         \/ pc = "menu" /\ pc' = "command"
         \/ pc = "command" /\ pc' = "menu"
<1>1. ASSUME NEW c \in Callers, Set_dac(c)
      PROVE  pc' = pc \/ (pc = "command" /\ pc' = "menu")
  <2>1. at[c] # "idle"
    BY <1>1 DEF Set_dac, CheckHigh, CheckLow, Clamp, Convert, WriteSetpt, Step
  <2>2. pc' = pc \/ (c = "console" /\ pc' = "menu")
    BY <1>1 DEF Set_dac, CheckHigh, CheckLow, Clamp, Convert, WriteSetpt, Step
  <2>. QED
    BY <2>1, <2>2 DEF IInv, DataOK
<1>2. ASSUME NEW v \in Amps, ClientCommand(v) PROVE pc' = pc
  BY <1>2 DEF ClientCommand, Step
<1>3. ASSUME NEW v \in Amps, receive_console_cmd(v)
      PROVE  pc = "menu" /\ pc' = "command"
  BY <1>3 DEF receive_console_cmd, Goto
<1>4. ASSUME NEW x \in Scales, SetScale(x) PROVE pc' = pc
  BY <1>4 DEF SetScale
<1>5. ASSUME ReadSetpt \/ SendData PROVE pc' = pc
  BY <1>5 DEF ReadSetpt, SendData
<1>. QED
  BY <1>1, <1>2, <1>3, <1>4, <1>5 DEF ChannelStep

LEMMA ConsoleFrame ==
  ASSUME PowerOn \/ ReadHardwareFlavor \/ OperatorStep
  PROVE  UNCHANGED <<up, users>>
<1>1. CASE ReadHardwareFlavor
  BY <1>1 DEF ReadHardwareFlavor, i2c_eeprom_readBytes, CopyBytes, WriteResolution,
       SetToBits, SetToVolts, InvalidResolution, WritePolarity, EnablePulse, Return
<1>2. CASE PowerOn \/ OperatorStep
  BY <1>2 DEF PowerOn, OperatorStep, SetByte, InvalidInput, BeginWipe, Delay, EndWipe,
              WipeByte
<1>. QED
  BY <1>1, <1>2

\* The write leaves a byte of the EEPROM in its type.
LEMMA WriteType ==
  ASSUME TypeOK, NEW b \in Bytes, NEW v \in Byte, i2c_eeprom_writeBytes(b, v)
  PROVE  eeprom' \in [Bytes -> Byte] /\ writing' \in Bytes \cup {None}
BY DEF TypeOK, i2c_eeprom_writeBytes, store

LEMMA NothingType ==
  NothingAsked \in Asked /\ NoCall \in [Callers -> Asked]
BY DEF NothingAsked, Asked, NoCall

LEMMA NothingInRange ==
  0 = NewSetpt(NothingAsked) /\ InRange(NothingAsked.amps, NothingAsked.sf)
<1>1. NothingAsked.amps = 0 /\ NothingAsked.bits = 0 /\ NothingAsked.sf = 1
  BY DEF NothingAsked
<1>2. Trunc(0 * 0, 1) = 0
  BY DEF Trunc
<1>3. -(VLow * 1) <= 0 /\ 0 <= VHigh * 1
  BY Sizes
<1>. QED
  BY <1>1, <1>2, <1>3 DEF NewSetpt, InRange

\* The scale factor of a command that is under way, and of what it was computed
\* with, is positive.
LEMMA Factors ==
  ASSUME IInv
  PROVE  /\ up => sf \in Nat \ {0}
         /\ toBits \in Nat
         /\ \A b \in Asked : b.sf \in Nat \ {0} /\ b.amps \in Int /\ b.bits \in Nat
<1>1. (up => sf \in Scales) /\ toBits \in {0, Bits18, Bits20}
  BY DEF IInv, TypeOK
<1>2. \A x \in Scales \cup {1} : x \in Nat \ {0}
  BY Sizes
<1>3. \A x \in {0, Bits18, Bits20} : x \in Nat
  BY Sizes
<1>4. ASSUME NEW b \in Asked
      PROVE  b.sf \in Scales \cup {1} /\ b.amps \in Int /\ b.bits \in {0, Bits18, Bits20}
  BY DEF Asked
<1>. QED
  BY <1>1, <1>2, <1>3, <1>4

\* The result of a conversion is an integer.
LEMMA SetptIs ==
  ASSUME IInv, NEW b \in Asked
  PROVE  NewSetpt(b) \in Int
<1>1. PICK n \in Nat \ {0}, a \in Int, k \in Nat : n = b.sf /\ a = b.amps /\ k = b.bits
  BY Factors
<1>2. PICK x \in Int : x = a * k
  BY Product
<1>. QED
  BY <1>1, <1>2, TruncIs DEF NewSetpt

\* What Set_dac, its callers and the telemetry do to their own variables.
LEMMA ChannelType ==
  ASSUME IInv, ChannelStep
  PROVE  /\ sf' \in Scales \cup {0} /\ (up' => sf' \in Scales) /\ cmds' \in 0 .. MaxCmds
         /\ at' \in [Callers -> Midway \cup {"idle", "high", "write"}]
         /\ by' \in [Callers -> Asked]
         /\ setpt' \in Int /\ setBy' \in Asked
         /\ spc' \in {"idle", "scale"} /\ raw' \in Int /\ rawBy' \in Asked
<1>. USE DEF IInv, TypeOK
<1>0. up' = up
  BY ChannelFrame
<1>1. ASSUME NEW c \in Callers, NEW v \in Amps, Call(c, v)
      PROVE  /\ cmds' \in 0 .. MaxCmds /\ by' \in [Callers -> Asked]
             /\ UNCHANGED <<sf, setpt, setBy, sadata>>
  <2>1. v \in Int
    BY Sizes
  <2>2. [NothingAsked EXCEPT !.amps = v] \in Asked
    BY <2>1, NothingType DEF Asked
  <2>3. by' \in [Callers -> Asked]
    BY <1>1, <2>2 DEF Call
  <2>4. cmds' \in 0 .. MaxCmds
    BY <1>1, Sizes DEF Call
  <2>. QED
    BY <1>1, <2>3, <2>4 DEF Call
<1>2. "client" \in Callers /\ "console" \in Callers
  BY DEF Callers
<1>3. ASSUME NEW v \in Amps, ClientCommand(v) \/ receive_console_cmd(v)
      PROVE  at' \in [Callers -> Midway \cup {"idle", "high", "write"}]
  BY <1>3 DEF ClientCommand, receive_console_cmd, Step
<1>4. CASE \E v \in Amps : ClientCommand(v) \/ receive_console_cmd(v)
  BY <1>0, <1>1, <1>2, <1>3, <1>4 DEF ClientCommand, receive_console_cmd, sadata
<1>5. ASSUME NEW c \in Callers, Set_dac(c)
      PROVE  /\ at' \in [Callers -> Midway \cup {"idle", "high", "write"}]
             /\ by' \in [Callers -> Asked]
             /\ setpt' \in Int /\ setBy' \in Asked
             /\ UNCHANGED <<sf, cmds, sadata>>
  <2>. USE DEF Step, Midway
  <2>1. ASSUME NEW v \in Int, NEW w \in {"clampHigh", "clampLow"}, Clamp(c, w, v)
        PROVE  by' \in [Callers -> Asked]
    BY <2>1 DEF Clamp, Asked
  <2>2. by[c] \in Asked
    OBVIOUS
  <2>3. at[c] # "idle" => sf \in Scales
    BY DEF DataOK, CallOK
  <2>4. CASE CheckHigh(c)
    BY <2>4 DEF CheckHigh
  <2>5. CASE CheckLow(c)
    BY <2>5 DEF CheckLow
  <2>6. CASE Clamp(c, "clampHigh", VHigh * sf)
    <3>1. VHigh * sf \in Int
      BY Sizes
    <3>2. by' \in [Callers -> Asked]
      BY <2>1, <2>6, <3>1
    <3>. QED
      BY <2>6, <3>2 DEF Clamp
  <2>7. CASE Clamp(c, "clampLow", -(VLow * sf))
    <3>1. -(VLow * sf) \in Int
      BY Sizes
    <3>2. by' \in [Callers -> Asked]
      BY <2>1, <2>7, <3>1
    <3>. QED
      BY <2>7, <3>2 DEF Clamp
  <2>8. CASE Convert(c)
    <3>1. sf \in Scales
      BY <2>3, <2>8 DEF Convert
    <3>2. by' \in [Callers -> Asked]
      BY <2>8, <3>1 DEF Convert, Asked
    <3>. QED
      BY <2>8, <3>2 DEF Convert
  <2>9. CASE WriteSetpt(c)
    <3>1. setpt' \in Int /\ setBy' \in Asked
      BY <2>2, <2>9, SetptIs DEF WriteSetpt
    <3>2. by' \in [Callers -> Asked]
      BY <2>9, NothingType DEF WriteSetpt
    <3>. QED
      BY <2>9, <3>1, <3>2 DEF WriteSetpt
  <2>. QED
    BY <1>5, <2>4, <2>5, <2>6, <2>7, <2>8, <2>9 DEF Set_dac
<1>6. CASE \E c \in Callers : Set_dac(c)
  BY <1>0, <1>5, <1>6 DEF sadata
<1>7. ASSUME NEW x \in Scales, SetScale(x)
      PROVE  /\ by' \in [Callers -> Asked] /\ sf' \in Scales /\ cmds' \in 0 .. MaxCmds
             /\ UNCHANGED <<at, setpt, setBy, sadata>>
  <2>1. ASSUME NEW c \in Callers
        PROVE  [by[c] EXCEPT !.steady = @ /\ at[c] \notin Midway] \in Asked
    BY DEF Asked
  <2>2. by' \in [Callers -> Asked]
    BY <1>7, <2>1 DEF SetScale
  <2>3. cmds' \in 0 .. MaxCmds
    BY <1>7, Sizes DEF SetScale
  <2>. QED
    BY <1>7, <2>2, <2>3 DEF SetScale
<1>8. CASE \E x \in Scales : SetScale(x)
  BY <1>7, <1>8 DEF sadata
<1>9. CASE ReadSetpt
  BY <1>0, <1>9, DacIs DEF ReadSetpt, channel
<1>10. CASE SendData
  BY <1>0, <1>10, NothingType DEF SendData, channel
<1>. QED
  BY <1>4, <1>6, <1>8, <1>9, <1>10 DEF ChannelStep

LEMMA TypeInductive ==
  ASSUME IInv, [Next]_vars
  PROVE  TypeOK'
<1>. USE DEF IInv, TypeOK
<1>1. CASE PowerOn
  BY <1>1 DEF PowerOn, store, board, users, channel, sadata
<1>2. CASE Start
  <2>1. rdBuf' \in [Bytes -> Byte]
    BY <1>2 DEF Start, Blank, Byte
  <2>. QED
    BY <1>2, <2>1 DEF Start, store, board, sadata
<1>3. CASE PowerLoss
  <2>1. eeprom' \in [Bytes -> Byte]
    BY <1>3 DEF PowerLoss
  <2>2. regs' \in [Bytes -> 0 .. Other] /\ rdBuf' \in [Bytes -> Byte]
    BY <1>3 DEF PowerLoss, Blank, Byte, Other
  <2>3. at' \in [Callers -> Midway \cup {"idle", "high", "write"}]
    BY <1>3 DEF PowerLoss, Idle
  <2>4. cmds' \in 0 .. MaxCmds
    BY <1>3, Sizes DEF PowerLoss
  <2>5. by' \in [Callers -> Asked] /\ setBy' \in Asked /\ rawBy' \in Asked
    BY <1>3, NothingType DEF PowerLoss
  <2>6. /\ writing' = None /\ toBits' = 0 /\ toVolts' = 0 /\ ~pulse' /\ ~up'
        /\ ~excused' /\ pc' = "off" /\ left' = {} /\ sf' = 0 /\ setpt' = 0
        /\ spc' = "idle" /\ raw' = 0
    BY <1>3 DEF PowerLoss
  <2>7. pulse' \in BOOLEAN /\ up' \in BOOLEAN /\ excused' \in BOOLEAN
    BY <1>3 DEF PowerLoss
  <2>. QED
    BY <2>1, <2>2, <2>3, <2>4, <2>5, <2>6, <2>7
<1>4. CASE ReadHardwareFlavor
  <2>. USE DEF Goto, store, board, users, channel, sadata
  <2>1. CASE i2c_eeprom_readBytes
    BY <2>1, FlavourAssumption DEF i2c_eeprom_readBytes
  <2>2. ASSUME NEW from \in {"copied", "bandwidth"}, NEW to \in {"resolution", "polarity"},
               NEW bytes, CopyBytes(from, to, bytes)
        PROVE  TypeOK'
    <3>1. \A v \in Byte : Decode(v) \in 0 .. Other
      BY DEF Decode, Other
    <3>2. regs' \in [Bytes -> 0 .. Other]
      BY <2>2, <3>1 DEF CopyBytes
    <3>. QED
      BY <2>2, <3>2 DEF CopyBytes
  <2>3. CASE WriteResolution
    <3>1. rdBuf["resolution"] \in 0 .. Other
      BY DEF Bytes, Byte, Other
    <3>2. regs' \in [Bytes -> 0 .. Other]
      BY <2>3, <3>1 DEF WriteResolution
    <3>. QED
      BY <2>3, <3>2 DEF WriteResolution
  <2>4. CASE SetToBits
    BY <2>4 DEF SetToBits, Factor
  <2>5. CASE SetToVolts
    BY <2>5 DEF SetToVolts, Factor
  <2>6. CASE InvalidResolution
    <3>0. 2 \in 0 .. Other
      BY DEF Other
    <3>1. regs' \in [Bytes -> 0 .. Other]
      BY <2>6, <3>0 DEF InvalidResolution
    <3>. QED
      BY <2>6, <3>1 DEF InvalidResolution
  <2>7. CASE WritePolarity
    <3>0. Decode(rdBuf["polarity"]) \in 0 .. Other
      BY DEF Decode, Other
    <3>1. regs' \in [Bytes -> 0 .. Other]
      BY <2>7, <3>0 DEF WritePolarity
    <3>. QED
      BY <2>7, <3>1 DEF WritePolarity
  <2>8. CASE EnablePulse
    BY <2>8 DEF EnablePulse
  <2>9. CASE Return
    <3>1. rdBuf' \in [Bytes -> Byte]
      BY <2>9 DEF Return, Blank, Byte
    <3>. QED
      BY <2>9, <3>1 DEF Return
  <2>. QED
    BY <1>4, <2>1, <2>2, <2>3, <2>4, <2>5, <2>6, <2>7, <2>8, <2>9
    DEF ReadHardwareFlavor
<1>5. CASE OperatorStep
  <2>. USE DEF Goto, store, board, users, channel, sadata
  <2>1. ASSUME NEW b \in Bytes, NEW v \in {0, 1}, SetByte(b, v) PROVE TypeOK'
    <3>1. eeprom' \in [Bytes -> Byte] /\ writing' \in Bytes \cup {None}
      BY <2>1, WriteType DEF SetByte, Byte
    <3>. QED
      BY <2>1, <3>1 DEF SetByte
  <2>2. CASE InvalidInput
    BY <2>2 DEF InvalidInput
  <2>3. CASE BeginWipe
    BY <2>3 DEF BeginWipe
  <2>4. CASE Delay
    BY <2>4 DEF Delay
  <2>5. CASE EndWipe
    BY <2>5 DEF EndWipe
  <2>6. ASSUME NEW b \in Bytes, WipeByte(b) PROVE TypeOK'
    <3>1. eeprom' \in [Bytes -> Byte] /\ writing' \in Bytes \cup {None}
      BY <2>6, WriteType DEF WipeByte, Byte
    <3>. QED
      BY <2>6, <3>1 DEF WipeByte
  <2>. QED
    BY <1>5, <2>1, <2>2, <2>3, <2>4, <2>5, <2>6 DEF OperatorStep
<1>6. CASE ChannelStep
  <2>1. UNCHANGED <<store, board, up, rdBuf, left, excused>>
    BY <1>6, ChannelFrame
  <2>2. pc' \in {"command", "menu", pc}
    BY <1>6, ChannelPlace
  <2>. QED
    BY <1>6, <2>1, <2>2, ChannelType DEF store, board
<1>7. CASE UNCHANGED vars
  BY <1>7 DEF vars, store, board, users, channel, sadata
<1>. QED
  BY <1>1, <1>2, <1>3, <1>4, <1>5, <1>6, <1>7, NextSplit

\* The factors and the pulse follow the registers, step by step.
LEMMA BoardInductive ==
  ASSUME IInv, [Next]_vars
  PROVE  FactorsOK' /\ PulseOK'
<1>. USE DEF IInv, TypeOK, FactorsOK, PulseOK, Settled, InMenu
<1>0. /\ "resolution" \in Bytes /\ "polarity" \in Bytes
      /\ {"resolution", "polarity"} \cap (Before \cup After) = {}
  BY FlavourAssumption DEF Bytes
<1>1. CASE UNCHANGED <<board, up, pc, rdBuf>>
  BY <1>1 DEF board
<1>2. CASE PowerOn
  <2>1. pc' = "read" /\ UNCHANGED <<board, up, rdBuf>> /\ pc = "off"
    BY <1>2 DEF PowerOn
  <2>. QED
    BY <2>1 DEF board
<1>3. CASE Start
  <2>1. pc = "done" /\ pc' = "menu" /\ UNCHANGED board /\ up'
    BY <1>3 DEF Start
  <2>. QED
    BY <2>1 DEF board
<1>4. CASE PowerLoss
  <2>1. pc' = "off" /\ ~up' /\ regs' = Blank /\ toBits' = toVolts'
    BY <1>4 DEF PowerLoss
  <2>2. regs'["polarity"] = 0
    BY <1>0, <2>1 DEF Blank
  <2>. QED
    BY <2>1, <2>2
<1>5. CASE ReadHardwareFlavor
  <2>. USE DEF Goto
  <2>1. CASE i2c_eeprom_readBytes
    <3>1. pc = "read" /\ pc' = "copied" /\ UNCHANGED <<board, up>>
      BY <2>1 DEF i2c_eeprom_readBytes
    <3>. QED
      BY <3>1 DEF board
  <2>2. ASSUME NEW from, NEW to, NEW bytes, bytes \in {Before, After},
               CopyBytes(from, to, bytes),
               \/ from = "copied" /\ to = "resolution"
               \/ from = "bandwidth" /\ to = "polarity"
        PROVE  FactorsOK' /\ PulseOK'
    <3>1. /\ pc = from /\ pc' = to
          /\ UNCHANGED <<toBits, toVolts, pulse, up, rdBuf>>
          /\ regs' = [b \in Bytes |-> IF b \in bytes THEN Decode(rdBuf[b]) ELSE regs[b]]
      BY <2>2 DEF CopyBytes
    <3>2. regs'["resolution"] = regs["resolution"] /\ regs'["polarity"] = regs["polarity"]
      BY <1>0, <2>2, <3>1
    <3>. QED
      BY <2>2, <3>1, <3>2
  <2>3. CASE WriteResolution
    <3>1. /\ pc = "resolution" /\ UNCHANGED <<toBits, toVolts, pulse, up, rdBuf>>
          /\ pc' = IF rdBuf["resolution"] \in {0, 1} THEN "bits" ELSE "invalid"
          /\ regs'["resolution"] = rdBuf["resolution"]
          /\ regs'["polarity"] = regs["polarity"]
      BY <1>0, <2>3 DEF WriteResolution
    <3>. QED
      BY <3>1
  <2>4. CASE SetToBits
    BY <2>4 DEF SetToBits
  <2>5. CASE SetToVolts
    BY <2>5 DEF SetToVolts
  <2>6. CASE InvalidResolution
    <3>1. /\ pc = "invalid" /\ pc' = "bandwidth"
          /\ UNCHANGED <<toBits, toVolts, pulse, up, rdBuf>>
          /\ regs'["resolution"] = 2 /\ regs'["polarity"] = regs["polarity"]
      BY <1>0, <2>6 DEF InvalidResolution
    <3>. QED
      BY <3>1
  <2>7. CASE WritePolarity
    <3>1. /\ pc = "polarity" /\ UNCHANGED <<toBits, toVolts, pulse, up, rdBuf>>
          /\ pc' = IF rdBuf["polarity"] = 1 THEN "pulse" ELSE "done"
          /\ regs'["resolution"] = regs["resolution"]
          /\ regs'["polarity"] = Decode(rdBuf["polarity"])
      BY <1>0, <2>7 DEF WritePolarity
    <3>2. regs'["polarity"] = 1 => rdBuf["polarity"] = 1
      BY <3>1 DEF Decode
    <3>. QED
      BY <3>1, <3>2
  <2>8. CASE EnablePulse
    BY <2>8 DEF EnablePulse
  <2>9. CASE Return
    <3>1. pc = "done" /\ pc' = "menu" /\ UNCHANGED <<board, up>> /\ up
      BY <2>9 DEF Return
    <3>. QED
      BY <3>1 DEF board
  <2>. QED
    BY <1>5, <2>1, <2>2, <2>3, <2>4, <2>5, <2>6, <2>7, <2>8, <2>9
    DEF ReadHardwareFlavor
<1>6. CASE OperatorStep
  <2>1. /\ pc \in {"menu", "delay", "wipe", "wiped"}
        /\ pc' \in {"menu", "delay", "wipe", "wiped", "read"}
        /\ UNCHANGED <<board, up>>
    BY <1>6 DEF OperatorStep, SetByte, InvalidInput, BeginWipe, Delay, EndWipe,
                WipeByte, Goto
  <2>. QED
    BY <2>1 DEF board
<1>7. CASE ChannelStep
  <2>1. UNCHANGED <<board, up, rdBuf>>
    BY <1>7, ChannelFrame
  <2>2. pc' = pc \/ (pc \in {"menu", "command"} /\ pc' \in {"menu", "command"})
    BY <1>7, ChannelPlace
  <2>. QED
    BY <2>1, <2>2 DEF board
<1>. QED
  BY <1>1, <1>2, <1>3, <1>4, <1>5, <1>6, <1>7, NextSplit DEF vars

\* The registers are copied from what was read, and that from the EEPROM.
LEMMA CopyInductive ==
  ASSUME IInv, [Next]_vars
  PROVE  CopyOK'
<1>. USE DEF IInv, TypeOK, CopyOK, Reading
<1>0. /\ "resolution" \in Bytes /\ "polarity" \in Bytes
      /\ {"resolution", "polarity"} \cap (Before \cup After) = {}
      /\ Before \subseteq Bytes /\ After \subseteq Bytes /\ Before \cap After = {}
  BY FlavourAssumption DEF Bytes
<1>1. CASE UNCHANGED <<store, board, pc, rdBuf, excused>>
  BY <1>1 DEF board, store, Decode
<1>2. CASE PowerOn \/ PowerLoss
  BY <1>2 DEF PowerOn, PowerLoss
<1>3. ASSUME pc = "done", pc' = "menu", UNCHANGED <<store, board, excused>>
      PROVE  CopyOK'
  <2>1. \A b \in Bytes : regs[b] = Decode(rdBuf[b])
    BY <1>3 DEF Bytes
  <2>2. excused' \/ \A b \in Bytes : regs'[b] = Decode(eeprom'[b])
    BY <1>3, <2>1 DEF store, board, Decode
  <2>. QED
    BY <1>3, <2>2
<1>4. CASE Start
  BY <1>3, <1>4 DEF Start
<1>5. CASE ReadHardwareFlavor
  <2>. USE DEF Goto
  <2>1. CASE i2c_eeprom_readBytes
    <3>1. pc' = "copied" /\ (excused' \/ rdBuf' = eeprom') 
      BY <2>1 DEF i2c_eeprom_readBytes, store
    <3>. QED
      BY <3>1
  <2>2. ASSUME NEW from, NEW to, NEW bytes, CopyBytes(from, to, bytes)
        PROVE  /\ pc = from /\ pc' = to /\ UNCHANGED <<eeprom, rdBuf, excused>>
               /\ regs' = [b \in Bytes |-> IF b \in bytes THEN Decode(rdBuf[b])
                                          ELSE regs[b]]
    BY <2>2 DEF CopyBytes, store
  <2>a. CASE CopyBytes("copied", "resolution", Before)
    <3>1. \A b \in Before : regs'[b] = Decode(rdBuf'[b])
      BY <1>0, <2>2, <2>a DEF Decode
    <3>. QED
      BY <2>2, <2>a, <3>1
  <2>b. CASE CopyBytes("bandwidth", "polarity", After)
    <3>1. \A b \in After : regs'[b] = Decode(rdBuf'[b])
      BY <1>0, <2>2, <2>b DEF Decode
    <3>2. \A b \in Before : regs'[b] = Decode(rdBuf'[b])
      BY <1>0, <2>2, <2>b DEF Decode
    <3>3. regs'["resolution"] = Decode(rdBuf'["resolution"])
      BY <1>0, <2>2, <2>b DEF Decode
    <3>. QED
      BY <2>2, <2>b, <3>1, <3>2, <3>3
  <2>3. CASE WriteResolution
    <3>1. /\ pc = "resolution" /\ UNCHANGED <<eeprom, rdBuf, excused>>
          /\ pc' = IF rdBuf["resolution"] \in {0, 1} THEN "bits" ELSE "invalid"
          /\ regs' = [regs EXCEPT !["resolution"] = rdBuf["resolution"]]
      BY <2>3 DEF WriteResolution, store
    <3>2. \A b \in Before : regs'[b] = Decode(rdBuf'[b])
      BY <1>0, <3>1 DEF Decode
    <3>. QED
      BY <3>1, <3>2
  <2>4. CASE SetToBits
    BY <2>4 DEF SetToBits, store, Decode
  <2>5. CASE SetToVolts
    <3>1. /\ pc = "volts" /\ pc' = "bandwidth"
          /\ UNCHANGED <<eeprom, rdBuf, excused, regs>>
      BY <2>5 DEF SetToVolts, store
    <3>2. regs["resolution"] = Decode(rdBuf["resolution"])
      BY <3>1 DEF FactorsOK, Decode
    <3>3. \A b \in Before : regs'[b] = Decode(rdBuf'[b])
      BY <3>1 DEF Decode
    <3>. QED
      BY <3>1, <3>2, <3>3 DEF Decode
  <2>6. CASE InvalidResolution
    <3>1. /\ pc = "invalid" /\ pc' = "bandwidth" /\ UNCHANGED <<eeprom, rdBuf, excused>>
          /\ regs' = [regs EXCEPT !["resolution"] = 2]
      BY <2>6 DEF InvalidResolution, store
    <3>2. \A b \in Before : regs'[b] = Decode(rdBuf'[b])
      BY <1>0, <3>1 DEF Decode
    <3>3. regs'["resolution"] = Decode(rdBuf'["resolution"])
      BY <1>0, <3>1 DEF Decode
    <3>. QED
      BY <3>1, <3>2, <3>3
  <2>7. CASE WritePolarity
    <3>1. /\ pc = "polarity" /\ UNCHANGED <<eeprom, rdBuf, excused>>
          /\ pc' \in {"pulse", "done"}
          /\ regs' = [regs EXCEPT !["polarity"] = Decode(rdBuf["polarity"])]
      BY <2>7 DEF WritePolarity, store
    <3>2. \A b \in Before : regs'[b] = Decode(rdBuf'[b])
      BY <1>0, <3>1 DEF Decode
    <3>3. regs'["resolution"] = Decode(rdBuf'["resolution"])
      BY <1>0, <3>1 DEF Decode
    <3>4. regs'["polarity"] = Decode(rdBuf'["polarity"])
      BY <1>0, <3>1 DEF Decode
    <3>5. \A b \in After : regs'[b] = Decode(rdBuf'[b])
      BY <1>0, <3>1 DEF Decode
    <3>. QED
      BY <3>1, <3>2, <3>3, <3>4, <3>5
  <2>8. CASE EnablePulse
    BY <2>8 DEF EnablePulse, store, Decode
  <2>9. CASE Return
    BY <1>3, <2>9 DEF Return
  <2>. QED
    BY <1>5, <2>1, <2>a, <2>b, <2>3, <2>4, <2>5, <2>6, <2>7, <2>8, <2>9
    DEF ReadHardwareFlavor
<1>6. CASE OperatorStep
  <2>1. CASE (\E b \in Bytes, v \in {0, 1} : SetByte(b, v)) \/ InvalidInput \/ BeginWipe
    <3>1. pc' \in {"delay", "read", "wipe"}
      BY <2>1 DEF SetByte, InvalidInput, BeginWipe, Goto
    <3>. QED
      BY <3>1
  <2>2. CASE Delay
    BY <2>2 DEF Delay, Goto
  <2>3. CASE EndWipe
    BY <2>3 DEF EndWipe, Goto
  <2>4. ASSUME NEW b \in Bytes, WipeByte(b) PROVE CopyOK'
    BY <2>4 DEF WipeByte, Goto
  <2>. QED
    BY <1>6, <2>1, <2>2, <2>3, <2>4 DEF OperatorStep
<1>7. CASE ChannelStep
  <2>1. UNCHANGED <<store, board, rdBuf, excused>>
    BY <1>7, ChannelFrame
  <2>2. CASE pc' = pc
    BY <1>1, <2>1, <2>2
  <2>3. CASE pc \in {"menu", "command"} /\ pc' \in {"menu", "command"}
    BY <2>1, <2>3 DEF store, board, Decode
  <2>. QED
    BY <1>7, <2>2, <2>3, ChannelPlace
<1>. QED
  BY <1>1, <1>2, <1>4, <1>5, <1>6, <1>7, NextSplit DEF vars

\* A step of Set_dac brings its own setpoint into range and no other one out of it.
LEMMA CallInductive ==
  ASSUME IInv, NEW c \in Callers, Set_dac(c)
  PROVE  /\ \A d \in Callers : CallOK(d)'
         /\ at'["console"] # "idle" => pc' = "command"
         /\ setpt' = NewSetpt(setBy')
         /\ setBy'.steady => InRange(setBy'.amps, setBy'.sf)
<1>. USE DEF IInv, TypeOK
<1>1. ChannelStep
  BY DEF ChannelStep
<1>2. by' \in [Callers -> Asked] /\ up' = up
  BY <1>1, ChannelType, ChannelFrame
<1>3. at[c] # "idle"
  BY DEF Set_dac, CheckHigh, CheckLow, Clamp, Convert, WriteSetpt, Step
<1>4. up /\ sf \in Nat \ {0}
  BY <1>3, Factors DEF DataOK, CallOK
<1>5. by[c].amps \in Int /\ by[c].steady \in BOOLEAN
  BY DEF Asked
<1>6. PICK h \in Nat, l \in Nat : h = VHigh * sf /\ l = VLow * sf
  BY <1>4, Sizes
<1>7. UNCHANGED sf /\ \A d \in Callers \ {c} : at'[d] = at[d] /\ by'[d] = by[d]
  BY DEF Set_dac, CheckHigh, CheckLow, Clamp, Convert, WriteSetpt, Step
<1>8. \A d \in Callers \ {c} : CallOK(d)'
  BY <1>2, <1>7 DEF DataOK, CallOK, InRange
<1>9. at'["console"] # "idle" => pc' = "command"
  <2>1. pc' = IF c = "console" /\ at'[c] = "idle" THEN "menu" ELSE pc
    BY <1>3 DEF Set_dac, CheckHigh, CheckLow, Clamp, Convert, WriteSetpt, Step
  <2>2. "console" \in Callers
    BY DEF Callers
  <2>3. CASE c = "console"
    BY <1>3, <2>1, <2>3 DEF DataOK
  <2>4. CASE c # "console"
    <3>1. at'["console"] = at["console"]
      BY <1>7, <2>2, <2>4
    <3>. QED
      BY <2>1, <2>4, <3>1 DEF DataOK
  <2>. QED
    BY <2>3, <2>4
<1>10. CASE CheckHigh(c)
  <2>1. /\ at'[c] = IF by[c].amps > h THEN "clampHigh" ELSE "low"
        /\ UNCHANGED <<by, setpt, setBy>>
    BY <1>6, <1>10 DEF CheckHigh, Step
  <2>2. CallOK(c)'
    BY <1>2, <1>4, <1>5, <1>6, <1>7, <2>1 DEF CallOK
  <2>. QED
    BY <1>8, <1>9, <2>1, <2>2 DEF DataOK
<1>11. CASE CheckLow(c)
  <2>1. /\ at[c] = "low" /\ at'[c] = IF by[c].amps < -l THEN "clampLow" ELSE "convert"
        /\ UNCHANGED <<by, setpt, setBy>>
    BY <1>6, <1>11 DEF CheckLow, Step
  <2>2. by[c].steady => by[c].amps <= h
    BY <1>6, <2>1 DEF DataOK, CallOK
  <2>3. CallOK(c)'
    BY <1>2, <1>4, <1>5, <1>6, <1>7, <2>1, <2>2 DEF CallOK, InRange
  <2>. QED
    BY <1>8, <1>9, <2>1, <2>3 DEF DataOK
<1>12. ASSUME NEW w, NEW v \in -l .. h, Clamp(c, w, v)
       PROVE  /\ UNCHANGED <<setpt, setBy>> /\ CallOK(c)'
  <2>1. /\ at'[c] = "convert" /\ by'[c].amps = v
        /\ UNCHANGED <<setpt, setBy>>
    BY <1>12 DEF Clamp, Step, Asked
  <2>2. CallOK(c)'
    BY <1>2, <1>4, <1>6, <1>7, <2>1 DEF CallOK, InRange
  <2>. QED
    BY <2>1, <2>2
<1>13. CASE Clamp(c, "clampHigh", VHigh * sf) \/ Clamp(c, "clampLow", -(VLow * sf))
  <2>1. h \in -l .. h /\ -l \in -l .. h
    OBVIOUS
  <2>2. UNCHANGED <<setpt, setBy>> /\ CallOK(c)'
    BY <1>6, <1>12, <1>13, <2>1
  <2>. QED
    BY <1>8, <1>9, <2>2 DEF DataOK
<1>14. CASE Convert(c)
  <2>1. /\ at[c] = "convert" /\ at'[c] = "write" /\ by'[c].sf = sf
        /\ by'[c].amps = by[c].amps /\ by'[c].steady = by[c].steady
        /\ UNCHANGED <<setpt, setBy>>
    BY <1>14 DEF Convert, Step, Asked
  <2>2. CallOK(c)'
    BY <1>2, <1>4, <1>7, <2>1 DEF DataOK, CallOK, InRange
  <2>. QED
    BY <1>8, <1>9, <2>1, <2>2 DEF DataOK
<1>15. CASE WriteSetpt(c)
  <2>1. /\ at[c] = "write" /\ at'[c] = "idle"
        /\ setpt' = NewSetpt(by[c]) /\ setBy' = by[c]
    BY <1>15 DEF WriteSetpt, Step
  <2>2. CallOK(c)'
    BY <2>1 DEF CallOK
  <2>3. setBy'.steady => InRange(setBy'.amps, setBy'.sf)
    BY <2>1 DEF DataOK, CallOK
  <2>. QED
    BY <1>8, <1>9, <2>1, <2>2, <2>3
<1>. QED
  BY <1>10, <1>11, <1>13, <1>14, <1>15 DEF Set_dac

\* Setpoint and telemetry were computed from what they are said to be.
LEMMA DataInductive ==
  ASSUME IInv, [Next]_vars
  PROVE  DataOK'
<1>. USE DEF IInv, TypeOK
<1>1. ASSUME UNCHANGED <<users, up, regs>>, at["console"] = "idle" \/ pc' = pc
      PROVE  DataOK'
  BY <1>1 DEF DataOK, CallOK, RawOK, users, channel, sadata
<1>2. CASE UNCHANGED vars
  BY <1>1, <1>2 DEF vars, board
<1>3. CASE PowerOn
  <2>1. UNCHANGED <<users, up, regs>> /\ at["console"] = "idle"
    BY <1>3 DEF PowerOn, board, DataOK
  <2>. QED
    BY <1>1, <2>1
<1>4. CASE ReadHardwareFlavor \/ OperatorStep
  <2>1. UNCHANGED <<users, up>>
    BY <1>4, ConsoleFrame
  <2>2. spc = "idle" /\ pc # "command"
    <3>1. CASE ReadHardwareFlavor
      BY <3>1 DEF ReadHardwareFlavor, i2c_eeprom_readBytes, CopyBytes, WriteResolution,
         SetToBits, SetToVolts, InvalidResolution, WritePolarity, EnablePulse, Return,
         Goto, Runs
    <3>2. CASE OperatorStep
      BY <3>2 DEF OperatorStep, SetByte, InvalidInput, BeginWipe, Delay, EndWipe,
                  WipeByte, Goto, Runs
    <3>. QED
      BY <1>4, <3>1, <3>2
  <2>. QED
    BY <2>1, <2>2 DEF DataOK, CallOK, users, channel, sadata
<1>5. CASE Start
  <2>1. /\ UNCHANGED <<at, by, setpt, setBy, spc, raw, rawBy, regs>> /\ ~up
        /\ pc = "done"
    BY <1>5 DEF Start, sadata, board
  <2>2. \A c \in Callers : at[c] = "idle"
    BY <2>1 DEF DataOK, CallOK
  <2>3. \A c \in Callers : CallOK(c)'
    BY <2>1, <2>2 DEF CallOK
  <2>4. spc' = "scale" => RawOK'
    BY <2>1 DEF DataOK, RawOK
  <2>5. at'["console"] = "idle"
    BY <2>1, <2>2 DEF Callers
  <2>6. setpt' = NewSetpt(setBy') /\ (setBy'.steady => InRange(setBy'.amps, setBy'.sf))
    BY <2>1 DEF DataOK
  <2>. QED
    BY <2>3, <2>4, <2>5, <2>6 DEF DataOK
<1>6. CASE PowerLoss
  <2>1. setpt' = 0 /\ setBy' = NothingAsked /\ spc' = "idle" /\ at' = Idle
    BY <1>6 DEF PowerLoss
  <2>2. \A c \in Callers : at'[c] = "idle"
    BY <2>1 DEF Idle
  <2>3. \A c \in Callers : CallOK(c)'
    BY <2>2 DEF CallOK
  <2>4. setpt' = NewSetpt(setBy') /\ InRange(setBy'.amps, setBy'.sf)
    BY <2>1, NothingInRange
  <2>5. at'["console"] = "idle"
    BY <2>2 DEF Callers
  <2>. QED
    BY <2>1, <2>3, <2>4, <2>5 DEF DataOK
<1>7. CASE ChannelStep
  <2>0. UNCHANGED <<board, up>>
    BY <1>7, ChannelFrame
  <2>1. UNCHANGED <<up, regs>> /\ (UNCHANGED <<spc, raw, rawBy>> /\ spc = "scale" => RawOK')
    BY <2>0 DEF DataOK, RawOK, board
  <2>2. ASSUME NEW c \in Callers, NEW v \in Amps, Call(c, v), up,
               at' = [at EXCEPT ![c] = "high"], c = "console" => pc' = "command",
               c # "console" => pc' = pc
        PROVE  DataOK'
    <3>1. UNCHANGED <<sf, setpt, setBy, spc, raw, rawBy>>
      BY <2>2 DEF Call, sadata
    <3>2. \A d \in Callers \ {c} : at'[d] = at[d] /\ by'[d] = by[d]
      BY <2>2 DEF Call
    <3>3. \A d \in Callers : CallOK(d)'
      BY <2>1, <2>2, <3>1, <3>2 DEF DataOK, CallOK
    <3>4. at'["console"] # "idle" => pc' = "command"
      BY <2>2, <3>2 DEF DataOK, Callers
    <3>. QED
      BY <2>1, <3>1, <3>3, <3>4 DEF DataOK
  <2>3. ASSUME NEW v \in Amps, ClientCommand(v) PROVE DataOK'
    BY <2>2, <2>3 DEF ClientCommand, Step, Callers
  <2>4. ASSUME NEW v \in Amps, receive_console_cmd(v) PROVE DataOK'
    <3>1. up /\ pc' = "command"
      BY <2>4 DEF receive_console_cmd, Goto, FactorsOK, InMenu
    <3>. QED
      BY <2>2, <2>4, <3>1 DEF receive_console_cmd, Callers
  <2>5. ASSUME NEW c \in Callers, Set_dac(c) PROVE DataOK'
    <3>1. UNCHANGED <<spc, raw, rawBy>>
      BY <2>5 DEF Set_dac, CheckHigh, CheckLow, Clamp, Convert, WriteSetpt, sadata
    <3>. QED
      BY <2>1, <2>5, <3>1, CallInductive DEF DataOK
  <2>6. ASSUME NEW x \in Scales, SetScale(x) PROVE DataOK'
    <3>1. UNCHANGED <<pc, at, setpt, setBy, spc, raw, rawBy>>
      BY <2>6 DEF SetScale, sadata
    <3>2. ASSUME NEW c \in Callers
          PROVE  /\ by'[c].amps = by[c].amps /\ by'[c].sf = by[c].sf
                 /\ by'[c].steady => by[c].steady /\ at[c] \notin Midway
      BY <2>6 DEF SetScale, Asked
    <3>3. ASSUME NEW c \in Callers PROVE CallOK(c)'
      BY <2>1, <3>1, <3>2 DEF DataOK, CallOK, Midway
    <3>. QED
      BY <2>1, <3>1, <3>3 DEF DataOK
  <2>7. CASE ReadSetpt
    <3>1. /\ raw' = Dac(setpt) /\ rawBy' = setBy
          /\ UNCHANGED <<pc, sf, at, by, setpt, setBy>>
      BY <2>7 DEF ReadSetpt, channel
    <3>2. ASSUME setBy.steady, regs["resolution"] \in {0, 1},
                 setBy.bits = Factor(regs["resolution"])
          PROVE  raw' = NewSetpt(setBy)
      <4>1. PICK n \in Nat \ {0}, a \in Int, k \in Nat :
                 n = setBy.sf /\ a = setBy.amps /\ k = setBy.bits
        BY Factors
      <4>2. Trunc(a * k, n) \in -(VLow * k) .. VHigh * k
        BY <3>2, <4>1, InBits DEF DataOK
      <4>3. setpt \in -(VLow * k) .. VHigh * k
        BY <4>1, <4>2 DEF DataOK, NewSetpt
      <4>. QED
        BY <3>1, <3>2, <4>1, <4>3, DacIs DEF DataOK
    <3>3. RawOK'
      BY <2>1, <3>1, <3>2 DEF RawOK, Factor
    <3>. QED
      BY <2>1, <3>1, <3>3 DEF DataOK, CallOK
  <2>8. CASE SendData
    <3>1. spc' = "idle" /\ UNCHANGED <<pc, sf, at, by, setpt, setBy>>
      BY <2>8 DEF SendData, channel
    <3>. QED
      BY <2>1, <3>1 DEF DataOK, CallOK
  <2>. QED
    BY <1>7, <2>3, <2>4, <2>5, <2>6, <2>7, <2>8 DEF ChannelStep
<1>. QED
  BY <1>2, <1>3, <1>4, <1>5, <1>6, <1>7, NextSplit

LEMMA InitIInv ==
  Init => IInv
<1>. SUFFICES ASSUME Init PROVE IInv
  OBVIOUS
<1>1. TypeOK
  <2>1. Blank \in [Bytes -> 0 .. Other] /\ Blank \in [Bytes -> Byte]
    BY DEF Blank, Byte, Other
  <2>2. Idle \in [Callers -> Midway \cup {"idle", "high", "write"}]
    BY DEF Idle
  <2>3. cmds \in 0 .. MaxCmds
    BY Sizes DEF Init
  <2>4. /\ eeprom \in [Bytes -> Byte] /\ writing \in Bytes \cup {None}
        /\ regs \in [Bytes -> 0 .. Other] /\ rdBuf \in [Bytes -> Byte]
        /\ left \subseteq Bytes /\ by \in [Callers -> Asked]
        /\ at \in [Callers -> Midway \cup {"idle", "high", "write"}]
        /\ setBy \in Asked /\ rawBy \in Asked
    BY <2>1, <2>2, NothingType DEF Init
  <2>5. pulse \in BOOLEAN /\ up \in BOOLEAN /\ excused \in BOOLEAN /\ ~up
    BY DEF Init
  <2>6. /\ toBits = 0 /\ toVolts = 0 /\ pc = "off" /\ sf = 0 /\ setpt = 0
        /\ spc = "idle" /\ raw = 0
    BY DEF Init
  <2>. QED
    BY <2>3, <2>4, <2>5, <2>6 DEF TypeOK
<1>2. FactorsOK /\ PulseOK /\ CopyOK
  <2>1. regs["polarity"] = 0
    BY DEF Init, Blank, Bytes
  <2>. QED
    BY <2>1 DEF Init, FactorsOK, PulseOK, CopyOK, Settled, InMenu, Reading
<1>3. DataOK
  <2>1. \A c \in Callers : at[c] = "idle"
    BY DEF Init, Idle
  <2>2. at["console"] = "idle"
    BY <2>1 DEF Callers
  <2>. QED
    BY <2>1, <2>2, NothingInRange DEF Init, DataOK, CallOK
<1>. QED
  BY <1>1, <1>2, <1>3 DEF IInv

-----------------------------------------------------------------------------
(* What holds of every behaviour                                           *)

\* The invariant is inductive.
THEOREM Invariance == Spec => []IInv
<1>1. IInv /\ [Next]_vars => IInv'
  <2>. SUFFICES ASSUME IInv, [Next]_vars PROVE IInv'
    OBVIOUS
  <2>. QED
    BY TypeInductive, BoardInductive, CopyInductive, DataInductive DEF IInv
<1>. QED
  BY <1>1, InitIInv, PTL DEF Spec

\* Registers, factors, setpoints of either sign and the steps of Set_dac keep
\* their ranges.
THEOREM TypeCorrect == Spec => []TypeOK
BY Invariance, PTL DEF IInv

\* ReadHardwareFlavor: a change of the flavour is in force as a whole when the
\* menu is shown, whoever interrupted it and wherever power failed before.
THEOREM InForce == Spec => []FlavourInForce
<1>1. IInv => FlavourInForce
  BY DEF IInv, FactorsOK, PulseOK, CopyOK, FlavourInForce, Settled
<1>. QED
  BY <1>1, Invariance, PTL

\* Set_dac: whatever is asked for, of either sign, by a client or at the console,
\* the setpoint register stays in the converter's range if the scale factor was
\* the same at every use of it, although every use reads it again.
THEOREM StaysWithinScale == Spec => []SetptWithinScale
<1>1. ASSUME IInv, setBy.steady
      PROVE  setpt \in -(VLow * setBy.bits) .. VHigh * setBy.bits
  <2>1. PICK n \in Nat \ {0}, a \in Int, k \in Nat :
             n = setBy.sf /\ a = setBy.amps /\ k = setBy.bits
    BY <1>1, Factors DEF IInv, TypeOK
  <2>2. Trunc(a * k, n) \in -(VLow * k) .. VHigh * k
    BY <1>1, <2>1, InBits DEF IInv, DataOK
  <2>. QED
    BY <1>1, <2>1, <2>2 DEF IInv, DataOK, NewSetpt
<1>2. IInv => SetptWithinScale
  BY <1>1 DEF SetptWithinScale
<1>. QED
  BY <1>2, Invariance, PTL

\* sadata_push: the setpoint is reported as it was asked for, to the bit, if the
\* DAC has the resolution it was computed for and the factors are still the same.
THEOREM TelemetryIsTrue == Spec => []TelemetryTrue
<1>1. ASSUME IInv, spc = "scale", rawBy.steady, rawBy.bits = toVolts, rawBy.sf = sf,
             regs["resolution"] \in {0, 1}, toVolts = Factor(regs["resolution"])
      PROVE  rawBy.amps * toVolts - Reported(raw) \in -(sf - 1) .. sf - 1
  <2>1. PICK n \in Nat \ {0}, a \in Int, k \in Nat :
             n = sf /\ a = rawBy.amps /\ k = toVolts
    BY <1>1, Factors DEF IInv, TypeOK
  <2>2. raw = Trunc(a * k, n)
    BY <1>1, <2>1 DEF IInv, DataOK, RawOK, NewSetpt
  <2>3. PICK x \in Int : x = a * k
    BY Product
  <2>4. x - Trunc(x, n) * n \in -(n - 1) .. n - 1
    BY TruncIs
  <2>. QED
    BY <2>1, <2>2, <2>3, <2>4 DEF Reported
<1>2. IInv => TelemetryTrue
  BY <1>1 DEF TelemetryTrue
<1>. QED
  BY <1>2, Invariance, PTL

=============================================================================
