------------------------------ MODULE Snapshot ------------------------------
(***************************************************************************)
(* Waveform snapshots.  The gateware writes one sample per 10 kHz trigger  *)
(* into a ring in DDR (adc2ddr.vhd) and latches the ring address of every  *)
(* trigger signal (ps_io.vhd).  The daemon snapshot_push (snapshots.c)     *)
(* polls the latched addresses every 100 ms, waits for the samples after   *)
(* the trigger, copies the window around it and sends it to the clients.   *)
(* Nothing but time keeps the two apart.                                   *)
(*                                                                         *)
(* An address is the number of a 160 byte slot, from 0 = 0x10000000 to     *)
(* Ring = 0x11E84800; Null is the address 0 of a register after reset.     *)
(* The ring's contents need no variable: the writer's position tells which *)
(* sample each slot holds, and a copied sample is recorded by its distance *)
(* from the sample of the trigger.                                         *)
(***************************************************************************)
EXTENDS Integers, Sequences

CONSTANTS
    Ring,      \* BUFLEN in slots: 200000
    Pre, Post, \* pretrigpts and posttrigpts
    PollDiv,   \* the divisor 1000 of ProcessTrigger
    DelayPts,  \* samples that are written during vTaskDelay(100 ms), at least
    NTrig      \* trigger signals, polled in order

ASSUME SnapshotAssumption ==
    /\ Ring \in Nat /\ Pre \in Nat /\ Post \in Nat \ {0}
    /\ Pre + Post < Ring
    /\ PollDiv \in Nat \ {0} /\ DelayPts \in Nat
    /\ NTrig \in Nat \ {0}

Slots == 0 .. Ring
Null  == -1
Trigs == 1 .. NTrig

VARIABLES
    addr_base, addr_ptr, bursting,  \* adc2ddr: next slot, last slot, state # IDLE
    lap,                            \* the ring has been filled once
    level, bufptr,                  \* ps_io: trigger inputs and latched addresses
    addr, addr_last, active, postdlycnt, sendbuf,   \* TriggerInfo
    pc, cur, segs, out,             \* snapshot_push: where, which trigger, copy
    ticks,                          \* samples written since vTaskDelay was called
    age, capAge,                    \* history: samples written since the latched,
                                    \* the captured trigger, up to Ring + 1
    primed, capPrimed,              \* history: Pre samples existed at that trigger
    fresh                           \* history: latched and not yet captured

writer  == <<addr_base, addr_ptr, bursting, lap>>
latches == <<level, bufptr>>
info    == <<addr, addr_last, active, postdlycnt, sendbuf>>
daemon  == <<pc, cur, segs, out>>
history == <<age, capAge, primed, capPrimed, fresh>>

vars == <<writer, latches, info, daemon, ticks, history>>

-----------------------------------------------------------------------------
Init ==
    /\ addr_base = 0 /\ addr_ptr = Null /\ bursting = FALSE /\ lap = FALSE
    /\ level = [k \in Trigs |-> FALSE]
    /\ bufptr = [k \in Trigs |-> Null]
    /\ addr = [k \in Trigs |-> Null] /\ addr_last = [k \in Trigs |-> Null]
    /\ active = [k \in Trigs |-> FALSE] /\ sendbuf = [k \in Trigs |-> FALSE]
    /\ postdlycnt = [k \in Trigs |-> 0]
    /\ pc = "delay" /\ cur = 1 /\ segs = <<>> /\ out = <<>>
    /\ ticks = 0
    /\ age = [k \in Trigs |-> 0] /\ capAge = [k \in Trigs |-> 0]
    /\ primed = [k \in Trigs |-> FALSE] /\ capPrimed = [k \in Trigs |-> FALSE]
    /\ fresh = [k \in Trigs |-> FALSE]

-----------------------------------------------------------------------------
(* The writer                                                              *)

\* IDLE: a 10 kHz trigger publishes the address and starts the burst.
StartBurst ==
    /\ ~bursting
    /\ bursting' = TRUE
    /\ addr_ptr' = addr_base
    /\ UNCHANGED <<addr_base, lap, latches, info, daemon, ticks, history>>

\* History: the ages of the triggers in S grow by one sample.
Older(a, S) == [k \in Trigs |-> IF k \in S /\ a[k] <= Ring THEN a[k] + 1 ELSE a[k]]

Captured == {k \in Trigs : active[k] \/ (cur = k /\ pc \in {"copy", "send"})}

\* Variant: one slot too far.
NextSlot_TooFar(a) == IF a <= Ring THEN a + 1 ELSE 0

\* AWAITRESP: the address advances up to DDR_MAX_ADDR itself, then wraps.
NextSlot(a) == IF a < Ring THEN a + 1 ELSE 0

FinishBurst ==
    /\ bursting
    /\ bursting' = FALSE
    /\ addr_base' = NextSlot(addr_base)
    /\ lap' = (lap \/ addr_base = Ring)
    /\ ticks' = IF ticks < DelayPts THEN ticks + 1 ELSE ticks
    /\ age' = Older(age, {k \in Trigs : fresh[k]})
    /\ capAge' = Older(capAge, Captured)
    /\ UNCHANGED <<addr_ptr, latches, info, daemon, primed, capPrimed, fresh>>

-----------------------------------------------------------------------------
(* The trigger latches.  A trigger is the OR of register bits and hardware *)
(* signals, any of which may rise and fall; the rising edge of their OR    *)
(* latches the address.                                                    *)

Raise(k) ==
    /\ ~level[k]
    /\ level' = [level EXCEPT ![k] = TRUE]
    /\ bufptr' = [bufptr EXCEPT ![k] = addr_ptr]
    /\ age' = [age EXCEPT ![k] = IF bursting THEN 0 ELSE 1]
    /\ primed' = [primed EXCEPT ![k] = lap \/ addr_ptr >= Pre]
    /\ fresh' = [fresh EXCEPT ![k] = TRUE]
    /\ UNCHANGED <<writer, info, daemon, ticks, capAge, capPrimed>>

Lower(k) ==
    /\ level[k]
    /\ level' = [level EXCEPT ![k] = FALSE]
    /\ UNCHANGED <<writer, bufptr, info, daemon, ticks, history>>

-----------------------------------------------------------------------------
(* snapshot_push                                                           *)

Wake ==
    /\ pc = "delay"
    /\ ticks >= DelayPts
    /\ pc' = "check" /\ cur' = 1
    /\ UNCHANGED <<writer, latches, info, segs, out, ticks, history>>

\* ProcessTrigger: an idle trigger begins when its address has changed.
Begins(k) == ~active[k] /\ bufptr[k] # addr_last[k]

\* Variant: the address that was handled is not remembered.
LastSeen_Stale(k) == addr_last[k]

LastSeen(k) == IF Begins(k) THEN bufptr[k] ELSE addr_last[k]

\* Variant: the count of the previous trigger is kept.
PollCount_Kept(k) == postdlycnt[k]

PollCount(k) == IF Begins(k) THEN 0 ELSE postdlycnt[k]

\* The number of 100 ms polls that posttrigpts stands for.
Polls == Post \div PollDiv

\* Variant: the wait ends above the number of polls, where the count stops.
WaitOver_Above(k) == PollCount(k) > Polls

WaitOver(k) == PollCount(k) >= Polls

\* CheckforTriggers for one trigger: an idle one reads its register; an active
\* one counts polls, and when the wait is over asks for its waveform.
CheckTrigger(k) ==
    LET on == active[k] \/ Begins(k)
    IN  /\ pc = "check" /\ cur = k
        /\ addr' = [addr EXCEPT ![k] = IF active[k] THEN @ ELSE bufptr[k]]
        /\ addr_last' = [addr_last EXCEPT ![k] = LastSeen(k)]
        /\ active' = [active EXCEPT ![k] = on]
        /\ postdlycnt' = [postdlycnt EXCEPT ![k] =
                IF on /\ PollCount(k) < Polls
                THEN PollCount(k) + 1 ELSE PollCount(k)]
        /\ sendbuf' = [sendbuf EXCEPT ![k] = @ \/ (on /\ WaitOver(k))]
        /\ IF Begins(k)
           THEN /\ capAge' = [capAge EXCEPT ![k] = age[k]]
                /\ capPrimed' = [capPrimed EXCEPT ![k] = primed[k]]
                /\ fresh' = [fresh EXCEPT ![k] = FALSE]
                /\ age' = [age EXCEPT ![k] = 0]
                /\ primed' = [primed EXCEPT ![k] = FALSE]
           ELSE UNCHANGED history
        /\ IF k < NTrig THEN pc' = "check" /\ cur' = k + 1
                        ELSE pc' = "scan" /\ cur' = 1
        /\ UNCHANGED <<writer, latches, segs, out, ticks>>

Segment(from, len) == [from |-> from, len |-> len]

\* The copies ReadDMABuf makes: split where the window leaves the ring.
ReadDMABuf(a) ==
    IF a < Pre
    THEN <<Segment(Ring - (Pre - a), Pre - a), Segment(0, a), Segment(a, Post)>>
    ELSE IF a + Post > Ring
    THEN <<Segment(a - Pre, Pre), Segment(a, Ring - a),
           Segment(0, Post - (Ring - a))>>
    ELSE <<Segment(a - Pre, Pre + Post)>>

\* SendWfmData of a trigger that asks for it, else the next one.
SendWfmData(k) ==
    /\ pc = "scan" /\ cur = k
    /\ IF sendbuf[k]
       THEN /\ sendbuf' = [sendbuf EXCEPT ![k] = FALSE]
            /\ active' = [active EXCEPT ![k] = FALSE]
            /\ segs' = ReadDMABuf(addr[k])
            /\ out' = <<>>
            /\ pc' = "copy" /\ UNCHANGED cur
       ELSE /\ IF k < NTrig THEN cur' = k + 1 /\ UNCHANGED pc
                            ELSE pc' = "stats" /\ UNCHANGED cur
            /\ UNCHANGED <<sendbuf, active, segs, out>>
    /\ UNCHANGED <<writer, latches, addr, addr_last, postdlycnt, ticks, history>>

\* How many samples after the captured trigger the sample in a slot was taken.
Behind(x) == IF x < addr_base THEN addr_base - 1 - x ELSE addr_base + Ring - x
Offset(k, x) == capAge[k] - 1 - Behind(x)

\* CopyDataChan: one segment.  The writer does not stop for it, and the slot
\* that is being written holds parts of two samples.
Garbage == Ring + Ring

CopyDataChan(k) ==
    /\ pc = "copy" /\ cur = k /\ segs # <<>>
    /\ out' = out \o [i \in 1 .. Head(segs).len |->
                        LET x == Head(segs).from + i - 1
                        IN  IF \/ bursting /\ x = addr_base
                               \/ ~lap /\ x >= addr_base
                            THEN Garbage ELSE Offset(k, x)]
    /\ segs' = Tail(segs)
    /\ pc' = IF Len(segs) = 1 THEN "send" ELSE "copy"
    /\ UNCHANGED <<writer, latches, info, cur, ticks, history>>

\* psc_send, for as long as it takes, then the next trigger.
Send(k) ==
    /\ pc = "send" /\ cur = k
    /\ IF k < NTrig THEN pc' = "scan" /\ cur' = k + 1
                    ELSE pc' = "stats" /\ UNCHANGED cur
    /\ out' = <<>>
    /\ capAge' = [capAge EXCEPT ![k] = 0]
    /\ capPrimed' = [capPrimed EXCEPT ![k] = FALSE]
    /\ UNCHANGED <<writer, latches, info, segs, ticks, age, primed, fresh>>

\* SendSnapShotStats, then vTaskDelay.
SendSnapShotStats ==
    /\ pc = "stats"
    /\ pc' = "delay" /\ cur' = 1
    /\ ticks' = 0
    /\ UNCHANGED <<writer, latches, info, segs, out, history>>

-----------------------------------------------------------------------------
Hardware == \/ StartBurst \/ FinishBurst
            \/ \E k \in Trigs : Raise(k) \/ Lower(k)

Software == \/ Wake \/ SendSnapShotStats
            \/ \E k \in Trigs : \/ CheckTrigger(k) \/ SendWfmData(k)
                                \/ CopyDataChan(k) \/ Send(k)

Next == Hardware \/ Software

Spec == Init /\ [][Next]_vars

\* The 10 kHz trigger does not stop and the daemon is scheduled; nothing is
\* assumed of the triggers.
FairSpec == Spec /\ WF_vars(StartBurst \/ FinishBurst) /\ WF_vars(Software)

-----------------------------------------------------------------------------
(* Properties                                                              *)

\* Addresses stay in the ring, poll counts within posttrigpts/1000.
TypeOK ==
    /\ addr_base \in Slots /\ addr_ptr \in Slots \cup {Null}
    /\ bursting \in BOOLEAN /\ lap \in BOOLEAN
    /\ level \in [Trigs -> BOOLEAN]
    /\ bufptr \in [Trigs -> Slots \cup {Null}]
    /\ addr \in [Trigs -> Slots \cup {Null}]
    /\ addr_last \in [Trigs -> Slots \cup {Null}]
    /\ active \in [Trigs -> BOOLEAN] /\ sendbuf \in [Trigs -> BOOLEAN]
    /\ postdlycnt \in [Trigs -> 0 .. Polls]
    /\ pc \in {"delay", "check", "scan", "copy", "send", "stats"}
    /\ cur \in Trigs
    /\ ticks \in 0 .. DelayPts
    /\ age \in [Trigs -> 0 .. Ring + 1] /\ capAge \in [Trigs -> 0 .. Ring + 1]
    /\ primed \in [Trigs -> BOOLEAN] /\ capPrimed \in [Trigs -> BOOLEAN]
    /\ fresh \in [Trigs -> BOOLEAN]

\* The waveform about to be sent was copied before the writer came round to it,
\* from a ring that had been filled far enough.
Valid == capPrimed[cur] /\ capAge[cur] < Ring - Pre

Crosses(a) == a < Pre \/ a + Post > Ring

\* The samples from the trigger on that the polls leave time to write: fewer
\* than Post where DelayPts < PollDiv.
Due == IF Polls * DelayPts < Post THEN Polls * DelayPts ELSE Post

\* A waveform holds the Pre samples before its trigger and, of the samples from
\* the trigger on, those the polls left time for, in order; where it crosses the
\* end of the ring it may miss the one sample in the ring's last slot, and then
\* the last of these entries may be too early.
WindowExact ==
    pc = "send" /\ Valid =>
        /\ Len(out) = Pre + Post
        /\ ~Crosses(addr[cur]) => \A i \in 1 .. Pre + Due : out[i] = i - 1 - Pre
        /\ \A i, j \in 1 .. Pre + Due - 1 :
              i < j => out[j] - out[i] \in {j - i, j - i + 1}

\* "10KHz * 40beats*4bytes/beat * 20 sec": the ring is as long as BUFLEN says,
\* so that a waveform across its end is as good as any other.
WindowContiguous ==
    pc = "send" /\ Valid => \A i \in 1 .. Pre + Post : out[i] = i - 1 - Pre

\* A waveform is started for a trigger that was latched since the last one: no
\* trigger is sent twice, although the daemon only compares addresses.
CapturesFreshTriggers ==
    [][\A k \in Trigs : ~active[k] /\ active'[k] => fresh[k]]_vars

\* A latched trigger is noticed, unless a later one replaces it by the address
\* handled last, and a trigger that was noticed gets its waveform.
TriggersServed ==
    \A k \in Trigs :
        /\ (fresh[k] /\ bufptr[k] # addr_last[k])
              ~> (active[k] \/ bufptr[k] = addr_last[k])
        /\ active[k] ~> (pc = "send" /\ cur = k)

=============================================================================
