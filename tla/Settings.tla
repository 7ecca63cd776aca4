------------------------------ MODULE Settings ------------------------------
(***************************************************************************)
(* The settings of the channels and their copy in flash: chan_settings     *)
(* (control.c), called by every client's thread and by the console, and    *)
(* qspi_flash.c.  WRITE_QSPI_MSG erases the channel's sector, gathers the  *)
(* registers one by one, programs them and reads them back into the        *)
(* registers; READ_QSPI_MSG only reads; a restart reads every channel.     *)
(* No lock protects registers, scale factors or the QSPI controller.       *)
(*                                                                         *)
(* A setting is a set of one-bits: an erased word has them all, and        *)
(* programming can only remove some.  The header that the four command     *)
(* bytes overwrite is not a setting.                                       *)
(*                                                                         *)
(* The flash and XQspiPs_PolledTransfer are external: a busy flash answers *)
(* status reads only, erasing and programming need the write enable latch  *)
(* and clear it, and a transfer that starts during another thread's is     *)
(* refused with a status that the code does not look at.                   *)
(***************************************************************************)
EXTENDS Integers

CONSTANTS
    Chans,    \* channels, one sector each
    NReg,     \* settings of a channel, in the order of QspiData_t
    Bits,     \* bits of a setting
    Threads,  \* threads that call chan_settings
    None

ASSUME SettingsAssumption ==
    /\ NReg \in Nat \ {0}
    /\ None \notin Chans

Regs   == 1 .. NReg
Word   == SUBSET Bits
Image  == [Regs -> Word]
Erased == [r \in Regs |-> Bits]

VARIABLES
    on,             \* the controller runs
    regs,           \* registers and scale factors
    flash,          \* contents of the sectors
    wel,            \* write enable latch
    wip, wipdata,   \* sector that is busy, and the contents it will have
    pc, op, chan,   \* per thread: next step, "save" or "load", channel
    idx, buf,       \* per thread: next setting, qspibuf
    met,            \* history: the thread's transfers met another's
    touched,        \* history: settings written since the thread gathered them
    kept,           \* history: what the last completed save wrote
    spoiled         \* history: the sector is not known to hold kept

device  == <<flash, wel, wip, wipdata>>
threads == <<pc, op, chan, idx, buf>>
history == <<met, touched, kept, spoiled>>

vars == <<on, regs, device, threads, history>>

-----------------------------------------------------------------------------
(* XQspiPs_PolledTransfer and the flash                                    *)

Active(t) == pc[t] # "idle"

\* Another thread may be inside a transfer.
Refusable(t) == \E u \in Threads \ {t} : Active(u)

WriteEnable == /\ wel' = (wel \/ wip = None)
               /\ UNCHANGED <<flash, wip, wipdata>>

\* An erase or program command.
Command(c, image) ==
    /\ IF wel /\ wip = None THEN wip' = c /\ wipdata' = image
                            ELSE UNCHANGED <<wip, wipdata>>
    /\ UNCHANGED <<flash, wel>>

FlashDone ==
    /\ wip # None
    /\ flash' = [flash EXCEPT ![wip] = wipdata]
    /\ wip' = None /\ wipdata' = Erased /\ wel' = FALSE
    /\ UNCHANGED <<on, regs, threads, history>>

\* Programming turns ones into zeros.
Programmed(old, new) == [r \in Regs |-> old[r] \cap new[r]]

\* A transfer that is carried out, or refused.
Transfer(t, T) == T \/ (Refusable(t) /\ UNCHANGED device)

-----------------------------------------------------------------------------
Init ==
    /\ on = FALSE
    /\ regs = [c \in Chans |-> [r \in Regs |-> {}]]
    /\ flash = [c \in Chans |-> Erased]
    /\ wel = FALSE /\ wip = None /\ wipdata = Erased
    /\ pc = [t \in Threads |-> "idle"] /\ op = [t \in Threads |-> "load"]
    /\ chan = [t \in Threads |-> None]
    /\ idx = [t \in Threads |-> 1] /\ buf = [t \in Threads |-> Erased]
    /\ met = [t \in Threads |-> FALSE] /\ touched = [t \in Threads |-> {}]
    /\ kept = [c \in Chans |-> Erased] /\ spoiled = [c \in Chans |-> FALSE]

\* InitSettingsfromQspi, before any other thread exists: every sector is read
\* into the registers, whatever it holds.
InitSettingsfromQspi ==
    /\ ~on
    /\ on' = TRUE
    /\ regs' = flash
    /\ UNCHANGED <<device, threads, history>>

\* Power fails.  A busy sector may hold anything between what it had and what
\* it was to have, or anything at all if it was being erased.
PowerLoss ==
    /\ on
    /\ on' = FALSE
    /\ regs' = [c \in Chans |-> [r \in Regs |-> {}]]
    /\ IF wip = None
       THEN UNCHANGED flash
       ELSE \E image \in Image :
               /\ wipdata # Erased =>
                     \A r \in Regs : /\ wipdata[r] \subseteq image[r]
                                     /\ image[r] \subseteq flash[wip][r]
               /\ flash' = [flash EXCEPT ![wip] = image]
    /\ wel' = FALSE /\ wip' = None /\ wipdata' = Erased
    /\ pc' = [t \in Threads |-> "idle"] /\ op' = [t \in Threads |-> "load"]
    /\ chan' = [t \in Threads |-> None]
    /\ idx' = [t \in Threads |-> 1] /\ buf' = [t \in Threads |-> Erased]
    /\ met' = [t \in Threads |-> FALSE] /\ touched' = [t \in Threads |-> {}]
    /\ UNCHANGED <<kept, spoiled>>

-----------------------------------------------------------------------------
(* chan_settings                                                           *)

Touch(c, r) == [u \in Threads |->
                  IF chan[u] = c THEN touched[u] \cup {r} ELSE touched[u]]

\* A message that sets one register or scale factor.
SetRegister(t, c, r, v) ==
    /\ on /\ ~Active(t)
    /\ v # regs[c][r]
    /\ regs' = [regs EXCEPT ![c][r] = v]
    /\ touched' = Touch(c, r)
    /\ UNCHANGED <<on, device, threads, met, kept, spoiled>>

\* History: a thread that starts meets whoever is in the middle of something.
Meets(t) ==
    LET busy == Refusable(t) \/ wip # None
    IN  [u \in Threads |-> IF u = t THEN busy
                           ELSE met[u] \/ (busy /\ Active(u))]

Start(t, c, what, step) ==
    /\ on /\ ~Active(t)
    /\ pc' = [pc EXCEPT ![t] = step] /\ op' = [op EXCEPT ![t] = what]
    /\ chan' = [chan EXCEPT ![t] = c]
    /\ met' = Meets(t)
    /\ touched' = [touched EXCEPT ![t] = {}]
    /\ UNCHANGED <<on, regs, device, idx, kept>>

\* WRITE_QSPI_MSG
WriteQspi(t, c) ==
    /\ Start(t, c, "save", "eraseWren")
    /\ spoiled' = [spoiled EXCEPT ![c] = TRUE]
    /\ UNCHANGED buf

\* READ_QSPI_MSG: qspibuf is not initialized.
ReadQspi(t, c) ==
    /\ Start(t, c, "load", "read")
    /\ \E garbage \in Image : buf' = [buf EXCEPT ![t] = garbage]
    /\ UNCHANGED spoiled

Goto(t, step) == pc' = [pc EXCEPT ![t] = step]

local == <<op, chan, idx, buf>>

SendWriteEnable(t) ==
    /\ \/ pc[t] = "eraseWren" /\ Goto(t, "erase")
       \/ pc[t] = "writeWren" /\ Goto(t, "write")
    /\ Transfer(t, WriteEnable)
    /\ UNCHANGED <<on, regs, local, history>>

QspiFlashEraseSect(t) ==
    /\ pc[t] = "erase" /\ Goto(t, "eraseWait")
    /\ Transfer(t, Command(chan[t], Erased))
    /\ UNCHANGED <<on, regs, local, history>>

\* Variant: the sector is not waited for.
EraseWait_None(t) ==
    /\ pc[t] = "eraseWait"
    /\ Goto(t, "gather")
    /\ UNCHANGED <<on, regs, device, local, history>>

\* The status is polled until the flash is ready; a refused poll leaves the
\* status byte uninitialized.
EraseWait(t) ==
    /\ pc[t] = "eraseWait"
    /\ wip = None \/ Refusable(t)
    /\ Goto(t, "gather")
    /\ UNCHANGED <<on, regs, device, local, history>>

\* The loop over the settings: one register access, then the next.
Each(t, next) ==
    IF idx[t] < NReg
    THEN idx' = [idx EXCEPT ![t] = @ + 1] /\ UNCHANGED pc
    ELSE idx' = [idx EXCEPT ![t] = 1] /\ Goto(t, next)

QspiGatherData(t) ==
    /\ pc[t] = "gather"
    /\ buf' = [buf EXCEPT ![t][idx[t]] = regs[chan[t]][idx[t]]]
    /\ touched' = [touched EXCEPT ![t] = @ \ {idx[t]}]
    /\ Each(t, "writeWren")
    /\ UNCHANGED <<on, regs, device, op, chan, met, kept, spoiled>>

QspiFlashWrite(t) ==
    /\ pc[t] = "write" /\ Goto(t, "writeWait")
    /\ Transfer(t, Command(chan[t], Programmed(flash[chan[t]], buf[t])))
    /\ UNCHANGED <<on, regs, local, history>>

\* Variant: the page is not waited for.
WriteWait_None(t) ==
    /\ pc[t] = "writeWait"
    /\ Goto(t, "read")
    /\ kept' = [kept EXCEPT ![chan[t]] = buf[t]]
    /\ spoiled' = [spoiled EXCEPT ![chan[t]] = met[t]]
    /\ UNCHANGED <<on, regs, device, local, met, touched>>

WriteWait(t) ==
    /\ pc[t] = "writeWait"
    /\ wip = None \/ Refusable(t)
    /\ Goto(t, "read")
    /\ kept' = [kept EXCEPT ![chan[t]] = buf[t]]
    /\ spoiled' = [spoiled EXCEPT ![chan[t]] = met[t]]
    /\ UNCHANGED <<on, regs, device, local, met, touched>>

\* Variant: the four bytes of the command are not skipped.
QspiFlashRead_Shifted(t) ==
    /\ pc[t] = "read" /\ Goto(t, "disperse")
    /\ buf' = [buf EXCEPT ![t] = [r \in Regs |->
                  IF r = 1 THEN Bits ELSE flash[chan[t]][r - 1]]]
    /\ UNCHANGED <<on, regs, device, op, chan, idx, history>>

\* A busy flash returns anything; a refused read leaves qspibuf alone.
QspiFlashRead(t) ==
    /\ pc[t] = "read" /\ Goto(t, "disperse")
    /\ \/ /\ wip = None
          /\ buf' = [buf EXCEPT ![t] = flash[chan[t]]]
       \/ /\ wip # None
          /\ \E garbage \in Image : buf' = [buf EXCEPT ![t] = garbage]
       \/ /\ Refusable(t)
          /\ UNCHANGED buf
    /\ UNCHANGED <<on, regs, device, op, chan, idx, history>>

\* Variant: the loop does not stop at the last setting.
QspiDisperseData_PastEnd(t) ==
    /\ pc[t] = "disperse" /\ idx[t] <= NReg
    /\ regs' = [regs EXCEPT ![chan[t]][idx[t]] = buf[t][idx[t]]]
    /\ idx' = [idx EXCEPT ![t] = @ + 1]
    /\ UNCHANGED <<on, device, pc, op, chan, buf, history>>

\* The settings in qspibuf go to the registers one by one; then the call ends.
QspiDisperseData(t) ==
    /\ pc[t] = "disperse"
    /\ regs' = [regs EXCEPT ![chan[t]][idx[t]] = buf[t][idx[t]]]
    /\ Each(t, "idle")
    /\ IF idx[t] < NReg
       THEN /\ touched' = Touch(chan[t], idx[t])
            /\ UNCHANGED <<op, chan, buf, met>>
       ELSE /\ touched' = [Touch(chan[t], idx[t]) EXCEPT ![t] = {}]
            /\ op' = [op EXCEPT ![t] = "load"]
            /\ chan' = [chan EXCEPT ![t] = None]
            /\ buf' = [buf EXCEPT ![t] = Erased]
            /\ met' = [met EXCEPT ![t] = FALSE]
    /\ UNCHANGED <<on, device, kept, spoiled>>

-----------------------------------------------------------------------------
Step(t) ==
    \/ \E c \in Chans : \/ WriteQspi(t, c) \/ ReadQspi(t, c)
                        \/ \E r \in Regs, v \in Word : SetRegister(t, c, r, v)
    \/ SendWriteEnable(t) \/ QspiFlashEraseSect(t) \/ EraseWait(t)
    \/ QspiGatherData(t) \/ QspiFlashWrite(t) \/ WriteWait(t)
    \/ QspiFlashRead(t) \/ QspiDisperseData(t)

Next == \/ FlashDone \/ PowerLoss \/ InitSettingsfromQspi
        \/ \E t \in Threads : Step(t)

Spec == Init /\ [][Next]_vars

-----------------------------------------------------------------------------
(* Properties                                                              *)

Steps == {"idle", "eraseWren", "erase", "eraseWait", "gather", "writeWren",
          "write", "writeWait", "read", "disperse"}

\* Registers, flash and buffers hold words; the loops over the settings stay
\* within QspiData_t.
TypeOK ==
    /\ on \in BOOLEAN /\ wel \in BOOLEAN
    /\ regs \in [Chans -> Image] /\ flash \in [Chans -> Image]
    /\ wip \in Chans \cup {None} /\ wipdata \in Image
    /\ pc \in [Threads -> Steps] /\ op \in [Threads -> {"save", "load"}]
    /\ chan \in [Threads -> Chans \cup {None}]
    /\ idx \in [Threads -> Regs] /\ buf \in [Threads -> Image]
    /\ met \in [Threads -> BOOLEAN] /\ touched \in [Threads -> SUBSET Regs]
    /\ kept \in [Chans -> Image] /\ spoiled \in [Chans -> BOOLEAN]

\* A save that no other thread's flash access overlaps leaves in the sector
\* what it gathered, whatever the sector held before: when WRITE_QSPI_MSG comes
\* to the read-back, erase and program have both taken place.
LoneSaveSticks ==
    \A t \in Threads :
        pc[t] = "read" /\ op[t] = "save" /\ ~met[t] => flash[chan[t]] = buf[t]

\* A restart restores what the last completed save of the channel wrote, unless
\* that save met another access or power failed in the middle of a later one.
RestartRestores ==
    [][~on /\ on' => \A c \in Chans : ~spoiled[c] => regs'[c] = kept[c]]_vars

\* The read-back of a save, "just for kicks", changes no setting that nobody
\* wrote since it was gathered (it undoes the ones that somebody did).
SaveKeepsSettings ==
    [][\A t \in Threads :
          /\ pc[t] = "disperse" /\ op[t] = "save" /\ ~met[t]
          /\ idx[t] \notin touched[t]
          /\ on' /\ <<pc[t], idx[t]>>' # <<pc[t], idx[t]>>
          => regs' = regs]_vars

=============================================================================
