--------------------------- MODULE SettingsProofs ---------------------------
(***************************************************************************)
(* Proofs about Settings, for any number of channels, settings, bits and   *)
(* threads.  A thread whose transfers met nobody else's is alone with the  *)
(* flash from its first transfer to its last; what its program counter     *)
(* says about the flash is then true at every step.                        *)
(***************************************************************************)
EXTENDS Settings, TLAPS

USE SettingsAssumption

Writing == {"eraseWren", "erase", "eraseWait", "gather", "writeWren", "write",
            "writeWait"}

Lone(t) == Active(t) /\ ~met[t]

\* A thread in the middle of something knows its channel, a save has announced
\* itself, and the loops start at the first setting.
ShapeOK ==
    \A t \in Threads :
        /\ Active(t) => on /\ chan[t] \in Chans
        /\ pc[t] \in Writing => op[t] = "save" /\ spoiled[chan[t]]
        /\ pc[t] \notin {"gather", "disperse"} => idx[t] = 1

\* A thread that met nobody is the only active one.
AloneOK ==
    \A t, u \in Threads : Lone(t) /\ Active(u) => t = u

\* What the flash is doing, by the step that a lone thread is at.
FlashIs(t, c) ==
    /\ pc[t] \notin {"eraseWait", "writeWait"} => wip = None
    /\ pc[t] \in {"erase", "write"} => wel
    /\ pc[t] = "eraseWait" => \/ wip = None /\ flash[c] = Erased
                              \/ wip = c /\ wipdata = Erased
    /\ pc[t] \in {"gather", "writeWren", "write"} => flash[c] = Erased
    /\ pc[t] = "writeWait" => \/ wip = None /\ flash[c] = buf[t]
                              \/ wip = c /\ wipdata = buf[t]
    /\ pc[t] \in {"read", "disperse"} /\ op[t] = "save" => flash[c] = buf[t]

PhaseOK == \A t \in Threads : Lone(t) => FlashIs(t, chan[t])

\* A sector that is not spoiled is at rest and holds what was kept.
SpoilOK ==
    \A c \in Chans : ~spoiled[c] => wip # c /\ flash[c] = kept[c]

\* The settings that a thread has gathered.
Gathered(t) ==
    IF pc[t] = "gather" THEN {r \in Regs : r < idx[t]}
    ELSE IF pc[t] \in {"writeWren", "write", "writeWait", "read", "disperse"}
    THEN Regs ELSE {}

\* A setting that a lone save gathered and nobody wrote since is still the same.
CopyOK ==
    \A t \in Threads :
        Lone(t) /\ op[t] = "save" =>
            \A r \in Gathered(t) \ touched[t] : regs[chan[t]][r] = buf[t][r]

IInv == TypeOK /\ ShapeOK /\ AloneOK /\ PhaseOK /\ SpoilOK /\ CopyOK

-----------------------------------------------------------------------------
(* Types                                                                   *)

\* An erased sector is an image, and so is a programmed one.
LEMMA ImageFacts ==
  /\ Erased \in Image
  /\ [r \in Regs |-> {}] \in Image
  /\ \A old \in Image, new \in Image : Programmed(old, new) \in Image
  /\ \A new \in Image : Programmed(Erased, new) = new
  /\ 1 \in Regs
<1>1. Erased \in Image /\ [r \in Regs |-> {}] \in Image
  BY DEF Erased, Image, Word
<1>2. ASSUME NEW old \in Image, NEW new \in Image
      PROVE  Programmed(old, new) \in Image
  BY DEF Programmed, Image, Word
<1>3. ASSUME NEW new \in Image
      PROVE  Programmed(Erased, new) = new
  <2>1. \A r \in Regs : Bits \cap new[r] = new[r]
    BY DEF Image, Word
  <2>2. Programmed(Erased, new) = [r \in Regs |-> new[r]]
    BY <2>1 DEF Programmed, Erased
  <2>. QED
    BY <2>2 DEF Image
<1>4. 1 \in Regs
  BY DEF Regs
<1>. QED
  BY <1>1, <1>2, <1>3, <1>4

\* Replacing one setting of an image gives an image.
LEMMA ImageUpdate ==
  ASSUME NEW f, NEW S, f \in [S -> Image], NEW s \in S, NEW r \in Regs,
         NEW v \in Word
  PROVE  [f EXCEPT ![s][r] = v] \in [S -> Image]
BY DEF Image

\* The loops over the settings stay within them.
LEMMA EachType ==
  ASSUME TypeOK, NEW t \in Threads, NEW next \in Steps, Each(t, next)
  PROVE  idx' \in [Threads -> Regs] /\ pc' \in [Threads -> Steps]
<1>1. CASE idx[t] < NReg
  <2>1. idx[t] + 1 \in Regs
    BY <1>1 DEF TypeOK, Regs
  <2>. QED
    BY <1>1, <2>1 DEF TypeOK, Each
<1>2. CASE ~(idx[t] < NReg)
  BY <1>2, ImageFacts DEF TypeOK, Each, Goto
<1>. QED
  BY <1>1, <1>2

\* A transfer keeps the types of the flash.
LEMMA TransferType ==
  ASSUME TypeOK, NEW t \in Threads,
         \/ Transfer(t, WriteEnable)
         \/ \E c \in Chans, image \in Image : Transfer(t, Command(c, image))
  PROVE  /\ wel' \in BOOLEAN /\ flash' = flash
         /\ wip' \in Chans \cup {None} /\ wipdata' \in Image
<1>. USE DEF TypeOK, Transfer, device
<1>1. CASE Transfer(t, WriteEnable)
  BY <1>1 DEF WriteEnable
<1>2. ASSUME NEW c \in Chans, NEW image \in Image, Transfer(t, Command(c, image))
      PROVE  /\ wel' \in BOOLEAN /\ flash' = flash
             /\ wip' \in Chans \cup {None} /\ wipdata' \in Image
  BY <1>2 DEF Command
<1>. QED
  BY <1>1, <1>2

\* Every action keeps the types.
LEMMA TypeInductive ==
  ASSUME TypeOK, ShapeOK, [Next]_vars
  PROVE  TypeOK'
<1>. USE DEF TypeOK
<1>1. CASE FlashDone
  BY <1>1, ImageFacts DEF FlashDone, threads, history
<1>2. CASE PowerLoss
  <2>1. flash' \in [Chans -> Image]
    BY <1>2 DEF PowerLoss
  <2>2. /\ pc' \in [Threads -> Steps] /\ op' \in [Threads -> {"save", "load"}]
        /\ chan' \in [Threads -> Chans \cup {None}]
        /\ idx' \in [Threads -> Regs] /\ buf' \in [Threads -> Image]
        /\ met' \in [Threads -> BOOLEAN]
        /\ touched' \in [Threads -> SUBSET Regs]
        /\ regs' \in [Chans -> Image]
    BY <1>2, ImageFacts DEF PowerLoss, Steps
  <2>3. on' \in BOOLEAN /\ wel' \in BOOLEAN /\ wip' \in Chans \cup {None}
        /\ wipdata' \in Image
        /\ UNCHANGED <<kept, spoiled>>
    BY <1>2, ImageFacts DEF PowerLoss
  <2>. QED
    BY <2>1, <2>2, <2>3
<1>3. CASE InitSettingsfromQspi
  BY <1>3 DEF InitSettingsfromQspi, device, threads, history
<1>4. ASSUME NEW t \in Threads, NEW c \in Chans,
             WriteQspi(t, c) \/ ReadQspi(t, c)
      PROVE  TypeOK'
  <2>1. /\ pc' \in [Threads -> Steps] /\ op' \in [Threads -> {"save", "load"}]
        /\ chan' \in [Threads -> Chans \cup {None}]
        /\ UNCHANGED <<on, regs, device, idx, kept>>
    BY <1>4 DEF WriteQspi, ReadQspi, Start, Steps
  <2>2. met' \in [Threads -> BOOLEAN]
    <3>1. met' = Meets(t)
      BY <1>4 DEF WriteQspi, ReadQspi, Start
    <3>. QED
      BY <3>1, Zenon DEF Meets, Refusable, Active
  <2>3. touched' \in [Threads -> SUBSET Regs]
    BY <1>4 DEF WriteQspi, ReadQspi, Start
  <2>4. buf' \in [Threads -> Image]
    BY <1>4 DEF WriteQspi, ReadQspi
  <2>5. spoiled' \in [Chans -> BOOLEAN]
    BY <1>4, Zenon DEF WriteQspi, ReadQspi
  <2>. QED
    BY <2>1, <2>2, <2>3, <2>4, <2>5 DEF device
<1>5. ASSUME NEW t \in Threads, NEW c \in Chans, NEW r \in Regs, NEW v \in Word,
             SetRegister(t, c, r, v)
      PROVE  TypeOK'
  <2>1. regs' \in [Chans -> Image]
    BY <1>5, ImageUpdate DEF SetRegister
  <2>2. touched' \in [Threads -> SUBSET Regs]
    BY <1>5 DEF SetRegister, Touch
  <2>. QED
    BY <1>5, <2>1, <2>2 DEF SetRegister, device, threads
<1>6. ASSUME NEW t \in Threads, SendWriteEnable(t)
      PROVE  TypeOK'
  <2>1. pc' \in [Threads -> Steps]
    BY <1>6 DEF SendWriteEnable, Goto, Steps
  <2>. QED
    BY <1>6, <2>1, TransferType DEF SendWriteEnable, local, history
<1>7. ASSUME NEW t \in Threads, QspiFlashEraseSect(t)
      PROVE  TypeOK'
  <2>1. pc' \in [Threads -> Steps]
    BY <1>7 DEF QspiFlashEraseSect, Goto, Steps
  <2>2. chan[t] \in Chans
    BY <1>7 DEF QspiFlashEraseSect, ShapeOK, Active
  <2>. QED
    BY <1>7, <2>1, <2>2, TransferType, ImageFacts
    DEF QspiFlashEraseSect, local, history
<1>8. ASSUME NEW t \in Threads, EraseWait(t)
      PROVE  TypeOK'
  BY <1>8 DEF EraseWait, Goto, Steps, device, local, history
<1>9. ASSUME NEW t \in Threads, QspiGatherData(t)
      PROVE  TypeOK'
  <2>1. chan[t] \in Chans
    BY <1>9 DEF QspiGatherData, ShapeOK, Active
  <2>2. idx[t] \in Regs /\ regs[chan[t]][idx[t]] \in Word
    BY <2>1 DEF Image
  <2>3. buf' \in [Threads -> Image]
    <3>1. PICK r \in Regs, v \in Word :
               r = idx[t] /\ v = regs[chan[t]][idx[t]]
      BY <2>2
    <3>2. [buf EXCEPT ![t][r] = v] \in [Threads -> Image]
      BY ImageUpdate
    <3>. QED
      BY <1>9, <3>1, <3>2 DEF QspiGatherData
  <2>4. idx' \in [Threads -> Regs] /\ pc' \in [Threads -> Steps]
    BY <1>9, EachType DEF QspiGatherData, Steps
  <2>5. touched' \in [Threads -> SUBSET Regs]
    BY <1>9 DEF QspiGatherData
  <2>. QED
    BY <1>9, <2>3, <2>4, <2>5 DEF QspiGatherData, device
<1>10. ASSUME NEW t \in Threads, QspiFlashWrite(t)
      PROVE  TypeOK'
  <2>1. pc' \in [Threads -> Steps]
    BY <1>10 DEF QspiFlashWrite, Goto, Steps
  <2>2. chan[t] \in Chans
    BY <1>10 DEF QspiFlashWrite, ShapeOK, Active
  <2>3. Programmed(flash[chan[t]], buf[t]) \in Image
    BY <2>2, ImageFacts
  <2>. QED
    BY <1>10, <2>1, <2>2, <2>3, TransferType
    DEF QspiFlashWrite, local, history
<1>11. ASSUME NEW t \in Threads, WriteWait(t)
      PROVE  TypeOK'
  <2>1. chan[t] \in Chans
    BY <1>11 DEF WriteWait, ShapeOK, Active
  <2>2. pc' \in [Threads -> Steps]
    BY <1>11 DEF WriteWait, Goto, Steps
  <2>3. kept' \in [Chans -> Image] /\ spoiled' \in [Chans -> BOOLEAN]
    BY <1>11, <2>1 DEF WriteWait
  <2>. QED
    BY <1>11, <2>2, <2>3 DEF WriteWait, device, local
<1>12. ASSUME NEW t \in Threads, QspiFlashRead(t)
      PROVE  TypeOK'
  <2>1. chan[t] \in Chans
    BY <1>12 DEF QspiFlashRead, ShapeOK, Active
  <2>2. pc' \in [Threads -> Steps]
    BY <1>12 DEF QspiFlashRead, Goto, Steps
  <2>3. buf' \in [Threads -> Image]
    BY <1>12, <2>1 DEF QspiFlashRead
  <2>. QED
    BY <1>12, <2>2, <2>3 DEF QspiFlashRead, device, history
<1>13. ASSUME NEW t \in Threads, QspiDisperseData(t)
      PROVE  TypeOK'
  <2>1. chan[t] \in Chans
    BY <1>13 DEF QspiDisperseData, ShapeOK, Active
  <2>2. idx[t] \in Regs /\ buf[t][idx[t]] \in Word
    BY DEF Image
  <2>3. regs' \in [Chans -> Image]
    <3>1. PICK c \in Chans, r \in Regs, v \in Word :
               c = chan[t] /\ r = idx[t] /\ v = buf[t][idx[t]]
      BY <2>1, <2>2
    <3>2. [regs EXCEPT ![c][r] = v] \in [Chans -> Image]
      BY ImageUpdate
    <3>. QED
      BY <1>13, <3>1, <3>2 DEF QspiDisperseData
  <2>4. idx' \in [Threads -> Regs] /\ pc' \in [Threads -> Steps]
    BY <1>13, EachType DEF QspiDisperseData, Steps
  <2>5. touched' \in [Threads -> SUBSET Regs]
    <3>1. Touch(chan[t], idx[t]) \in [Threads -> SUBSET Regs]
      BY DEF Touch
    <3>. QED
      BY <1>13, <3>1 DEF QspiDisperseData
  <2>6. /\ op' \in [Threads -> {"save", "load"}]
        /\ chan' \in [Threads -> Chans \cup {None}]
        /\ buf' \in [Threads -> Image]
    BY <1>13, ImageFacts DEF QspiDisperseData
  <2>7. met' \in [Threads -> BOOLEAN]
    BY <1>13, Zenon DEF QspiDisperseData
  <2>. QED
    BY <1>13, <2>3, <2>4, <2>5, <2>6, <2>7 DEF QspiDisperseData, device
<1>14. CASE UNCHANGED vars
  BY <1>14 DEF vars, device, threads, history
<1>. QED
  BY <1>1, <1>2, <1>3, <1>4, <1>5, <1>6, <1>7, <1>8, <1>9, <1>10, <1>11, <1>12,
     <1>13, <1>14
  DEF Next, Step

\* Channel, announcement and loop index of every thread stay as they should:
\* the end of a save settles its sector only if no other save is under way.
LEMMA ShapeInductive ==
  ASSUME TypeOK, ShapeOK, AloneOK, [Next]_vars
  PROVE  ShapeOK'
<1>. USE DEF TypeOK, ShapeOK, Active, Writing
<1>1. CASE FlashDone
  BY <1>1 DEF FlashDone, threads, history
<1>2. CASE PowerLoss
  BY <1>2 DEF PowerLoss
<1>3. CASE InitSettingsfromQspi
  BY <1>3 DEF InitSettingsfromQspi, device, threads, history
<1>4. ASSUME NEW t \in Threads, NEW c \in Chans, WriteQspi(t, c)
      PROVE  ShapeOK'
  BY <1>4 DEF WriteQspi, Start, device
<1>5. ASSUME NEW t \in Threads, NEW c \in Chans, ReadQspi(t, c)
      PROVE  ShapeOK'
  BY <1>5 DEF ReadQspi, Start, device
<1>6. ASSUME NEW t \in Threads, NEW c \in Chans, NEW r \in Regs, NEW v \in Word, SetRegister(t, c, r, v)
      PROVE  ShapeOK'
  BY <1>6 DEF SetRegister, device, threads
<1>7. ASSUME NEW t \in Threads, SendWriteEnable(t)
      PROVE  ShapeOK'
  BY <1>7 DEF SendWriteEnable, Goto, local, history
<1>8. ASSUME NEW t \in Threads, QspiFlashEraseSect(t)
      PROVE  ShapeOK'
  BY <1>8 DEF QspiFlashEraseSect, Goto, local, history
<1>9. ASSUME NEW t \in Threads, EraseWait(t)
      PROVE  ShapeOK'
  BY <1>9 DEF EraseWait, Goto, device, local, history
<1>10. ASSUME NEW t \in Threads, QspiGatherData(t)
      PROVE  ShapeOK'
  BY <1>10 DEF QspiGatherData, Each, Goto, device
<1>11. ASSUME NEW t \in Threads, QspiFlashWrite(t)
      PROVE  ShapeOK'
  BY <1>11 DEF QspiFlashWrite, Goto, local, history
<1>12. ASSUME NEW t \in Threads, WriteWait(t)
      PROVE  ShapeOK'
  <2>1. ASSUME NEW u \in Threads, pc'[u] \in Writing
        PROVE  spoiled'[chan[u]]
    <3>1. u # t /\ pc[u] \in Writing /\ spoiled[chan[u]] /\ chan[u] \in Chans
      BY <1>12, <2>1 DEF WriteWait, Goto
    <3>2. met[t]
      BY <1>12, <3>1 DEF WriteWait, AloneOK, Lone
    <3>3. chan[t] \in Chans /\ spoiled' = [spoiled EXCEPT ![chan[t]] = met[t]]
      BY <1>12 DEF WriteWait
    <3>. QED
      BY <3>1, <3>2, <3>3, Zenon
  <2>. QED
    BY <1>12, <2>1 DEF WriteWait, Goto, device, local
<1>13. ASSUME NEW t \in Threads, QspiFlashRead(t)
      PROVE  ShapeOK'
  BY <1>13 DEF QspiFlashRead, Goto, device, history
<1>14. ASSUME NEW t \in Threads, QspiDisperseData(t)
      PROVE  ShapeOK'
  BY <1>14 DEF QspiDisperseData, Each, Goto, device
<1>15. CASE UNCHANGED vars
  BY <1>15 DEF vars, device, threads, history
<1>. QED
  BY <1>1, <1>2, <1>3, <1>4, <1>5, <1>6, <1>7, <1>8, <1>9, <1>10, <1>11,
     <1>12, <1>13, <1>14, <1>15
  DEF Next, Step

\* A thread that starts marks itself and those it meets.
LEMMA StartFacts ==
  ASSUME TypeOK, NEW t \in Threads, NEW c \in Chans, NEW what, NEW step \in Steps,
         step # "idle", Start(t, c, what, step)
  PROVE  /\ pc[t] = "idle" /\ pc' = [pc EXCEPT ![t] = step]
         /\ op' = [op EXCEPT ![t] = what] /\ chan' = [chan EXCEPT ![t] = c]
         /\ \A u \in Threads : met[u] /\ u # t => met'[u]
         /\ \A u \in Threads : u # t /\ Active(u) => met'[u] /\ met'[t]
         /\ ~met'[t] => wip = None
<1>1. met' = Meets(t)
  BY DEF Start
<1>2. met'[t] = (Refusable(t) \/ wip # None)
  BY <1>1 DEF Meets
<1>3. ASSUME NEW u \in Threads, u # t
      PROVE  met'[u] = (met[u] \/ ((Refusable(t) \/ wip # None) /\ Active(u)))
  BY <1>1, <1>3 DEF Meets
<1>4. ASSUME NEW u \in Threads, u # t, Active(u)
      PROVE  Refusable(t)
  BY <1>4 DEF Refusable
<1>5. /\ pc[t] = "idle" /\ pc' = [pc EXCEPT ![t] = step]
      /\ op' = [op EXCEPT ![t] = what] /\ chan' = [chan EXCEPT ![t] = c]
  BY DEF Start, Active
<1>6. ASSUME NEW u \in Threads, met[u], u # t
      PROVE  met'[u]
  BY <1>3, <1>6
<1>7. ASSUME NEW u \in Threads, u # t, Active(u)
      PROVE  met'[u] /\ met'[t]
  BY <1>2, <1>3, <1>4, <1>7
<1>8. ~met'[t] => wip = None
  BY <1>2
<1>. QED
  BY <1>5, <1>6, <1>7, <1>8, Zenon

\* Nobody else is active when a thread starts without meeting anyone.
LEMMA StartAlone ==
  ASSUME TypeOK, AloneOK, NEW t \in Threads, NEW c \in Chans, NEW what,
         NEW step \in Steps, step # "idle", Start(t, c, what, step)
  PROVE  AloneOK'
<1>. SUFFICES ASSUME NEW x \in Threads, NEW y \in Threads, pc'[x] # "idle",
                     ~met'[x], pc'[y] # "idle", x # y
              PROVE  FALSE
  BY DEF AloneOK, Lone, Active
<1>1. \A u \in Threads : u # t => pc'[u] = pc[u]
  BY StartFacts DEF TypeOK
<1>2. \A u \in Threads : u # t /\ Active(u) => met'[u] /\ met'[t]
  BY StartFacts
<1>3. CASE x = t
  BY <1>1, <1>2, <1>3 DEF Active
<1>4. CASE x # t
  BY <1>1, <1>2, <1>4 DEF Active
<1>. QED
  BY <1>3, <1>4

\* A thread that met nobody stays the only active one.
LEMMA AloneInductive ==
  ASSUME TypeOK, AloneOK, [Next]_vars
  PROVE  AloneOK'
<1>. USE DEF TypeOK, AloneOK, Lone, Active
<1>1. CASE FlashDone
  BY <1>1 DEF FlashDone, threads, history
<1>2. CASE PowerLoss
  BY <1>2 DEF PowerLoss
<1>3. CASE InitSettingsfromQspi
  BY <1>3 DEF InitSettingsfromQspi, device, threads, history
<1>4. ASSUME NEW t \in Threads, NEW c \in Chans, WriteQspi(t, c)
      PROVE  AloneOK'
  BY <1>4, StartAlone DEF WriteQspi, Steps
<1>5. ASSUME NEW t \in Threads, NEW c \in Chans, ReadQspi(t, c)
      PROVE  AloneOK'
  BY <1>5, StartAlone DEF ReadQspi, Steps
<1>6. ASSUME NEW t \in Threads, NEW c \in Chans, NEW r \in Regs, NEW v \in Word, SetRegister(t, c, r, v)
      PROVE  AloneOK'
  BY <1>6 DEF SetRegister, device, threads
<1>7. ASSUME NEW t \in Threads, SendWriteEnable(t)
      PROVE  AloneOK'
  BY <1>7 DEF SendWriteEnable, Goto, local, history
<1>8. ASSUME NEW t \in Threads, QspiFlashEraseSect(t)
      PROVE  AloneOK'
  BY <1>8 DEF QspiFlashEraseSect, Goto, local, history
<1>9. ASSUME NEW t \in Threads, EraseWait(t)
      PROVE  AloneOK'
  BY <1>9 DEF EraseWait, Goto, device, local, history
<1>10. ASSUME NEW t \in Threads, QspiGatherData(t)
      PROVE  AloneOK'
  BY <1>10 DEF QspiGatherData, Each, Goto, device
<1>11. ASSUME NEW t \in Threads, QspiFlashWrite(t)
      PROVE  AloneOK'
  BY <1>11 DEF QspiFlashWrite, Goto, local, history
<1>12. ASSUME NEW t \in Threads, WriteWait(t)
      PROVE  AloneOK'
  BY <1>12 DEF WriteWait, Goto, device, local
<1>13. ASSUME NEW t \in Threads, QspiFlashRead(t)
      PROVE  AloneOK'
  BY <1>13 DEF QspiFlashRead, Goto, device, history
<1>14. ASSUME NEW t \in Threads, QspiDisperseData(t)
      PROVE  AloneOK'
  BY <1>14 DEF QspiDisperseData, Each, Goto, device
<1>15. CASE UNCHANGED vars
  BY <1>15 DEF vars, device, threads, history
<1>. QED
  BY <1>1, <1>2, <1>3, <1>4, <1>5, <1>6, <1>7, <1>8, <1>9, <1>10, <1>11,
     <1>12, <1>13, <1>14, <1>15
  DEF Next, Step

\* Only a save touches its sector, and only one that met nobody settles it.
LEMMA SpoilInductive ==
  ASSUME IInv, [Next]_vars
  PROVE  SpoilOK'
<1>. USE DEF IInv, TypeOK, SpoilOK
<1>1. CASE FlashDone
  BY <1>1 DEF FlashDone, threads, history
<1>2. CASE PowerLoss
  BY <1>2 DEF PowerLoss
<1>3. CASE InitSettingsfromQspi
  BY <1>3 DEF InitSettingsfromQspi, device, threads, history
<1>4. ASSUME NEW t \in Threads, NEW c \in Chans, WriteQspi(t, c)
      PROVE  SpoilOK'
  BY <1>4 DEF WriteQspi, Start, device
<1>5. ASSUME NEW t \in Threads, NEW c \in Chans, ReadQspi(t, c)
      PROVE  SpoilOK'
  BY <1>5 DEF ReadQspi, Start, device
<1>6. ASSUME NEW t \in Threads, NEW c \in Chans, NEW r \in Regs, NEW v \in Word, SetRegister(t, c, r, v)
      PROVE  SpoilOK'
  BY <1>6 DEF SetRegister, device, threads
<1>7. ASSUME NEW t \in Threads, SendWriteEnable(t)
      PROVE  SpoilOK'
  BY <1>7 DEF SendWriteEnable, Transfer, WriteEnable, device, history
<1>8. ASSUME NEW t \in Threads, QspiFlashEraseSect(t)
      PROVE  SpoilOK'
  <2>1. chan[t] \in Chans /\ spoiled[chan[t]]
    BY <1>8 DEF QspiFlashEraseSect, ShapeOK, Active, Writing
  <2>2. flash' = flash /\ UNCHANGED <<kept, spoiled>> /\ wip' \in {wip, chan[t]}
    BY <1>8 DEF QspiFlashEraseSect, Transfer, Command, device, history
  <2>. QED
    BY <2>1, <2>2
<1>9. ASSUME NEW t \in Threads, EraseWait(t)
      PROVE  SpoilOK'
  BY <1>9 DEF EraseWait, Goto, device, local, history
<1>10. ASSUME NEW t \in Threads, QspiGatherData(t)
      PROVE  SpoilOK'
  BY <1>10 DEF QspiGatherData, Each, Goto, device
<1>11. ASSUME NEW t \in Threads, QspiFlashWrite(t)
      PROVE  SpoilOK'
  <2>1. chan[t] \in Chans /\ spoiled[chan[t]]
    BY <1>11 DEF QspiFlashWrite, ShapeOK, Active, Writing
  <2>2. flash' = flash /\ UNCHANGED <<kept, spoiled>> /\ wip' \in {wip, chan[t]}
    BY <1>11 DEF QspiFlashWrite, Transfer, Command, device, history
  <2>. QED
    BY <2>1, <2>2
<1>12. ASSUME NEW t \in Threads, WriteWait(t)
      PROVE  SpoilOK'
  <2>1. chan[t] \in Chans
    BY <1>12 DEF WriteWait, ShapeOK, Active
  <2>2. ASSUME ~met[t]
        PROVE  wip = None /\ flash[chan[t]] = buf[t]
    <3>1. ~Refusable(t) /\ Lone(t)
      BY <1>12, <2>2 DEF WriteWait, Refusable, AloneOK, Lone, Active
    <3>2. wip = None
      BY <1>12, <3>1 DEF WriteWait
    <3>. QED
      BY <1>12, <2>1, <3>1, <3>2 DEF WriteWait, PhaseOK, FlashIs
  <2>3. /\ kept' = [kept EXCEPT ![chan[t]] = buf[t]]
        /\ spoiled' = [spoiled EXCEPT ![chan[t]] = met[t]]
        /\ UNCHANGED <<flash, wip>>
    BY <1>12 DEF WriteWait, device
  <2>. SUFFICES ASSUME NEW c \in Chans, ~spoiled'[c]
                PROVE  wip' # c /\ flash'[c] = kept'[c]
    OBVIOUS
  <2>4. CASE c = chan[t]
    <3>1. ~met[t]
      BY <2>1, <2>3, <2>4, Zenon
    <3>. QED
      BY <2>1, <2>2, <2>3, <2>4, <3>1
  <2>5. CASE c # chan[t]
    <3>1. ~spoiled[c]
      BY <2>1, <2>3, <2>5, Zenon
    <3>. QED
      BY <2>1, <2>3, <2>5, <3>1
  <2>. QED
    BY <2>4, <2>5
<1>13. ASSUME NEW t \in Threads, QspiFlashRead(t)
      PROVE  SpoilOK'
  BY <1>13 DEF QspiFlashRead, Goto, device, history
<1>14. ASSUME NEW t \in Threads, QspiDisperseData(t)
      PROVE  SpoilOK'
  BY <1>14 DEF QspiDisperseData, Each, Goto, device
<1>15. CASE UNCHANGED vars
  BY <1>15 DEF vars, device, threads, history
<1>. QED
  BY <1>1, <1>2, <1>3, <1>4, <1>5, <1>6, <1>7, <1>8, <1>9, <1>10, <1>11,
     <1>12, <1>13, <1>14, <1>15
  DEF Next, Step

\* Whoever is alone after an active thread's step is that thread, and it was
\* alone before: nobody else can have refused its transfer.
LEMMA OnlyMover ==
  ASSUME TypeOK, AloneOK, NEW t \in Threads, Active(t), NEW u \in Threads,
         Lone(u)', \A v \in Threads : v # t => pc'[v] = pc[v], UNCHANGED met
  PROVE  u = t /\ Lone(t) /\ ~Refusable(t)
<1>1. u = t
  <2>. SUFFICES ASSUME u # t PROVE FALSE
    OBVIOUS
  <2>1. Lone(u)
    BY DEF Lone, Active
  <2>. QED
    BY <2>1 DEF AloneOK
<1>2. Lone(t)
  BY <1>1 DEF Lone, Active
<1>. QED
  BY <1>1, <1>2 DEF AloneOK, Refusable

\* The flash does what the lone thread's step says.
LEMMA PhaseInductive ==
  ASSUME IInv, [Next]_vars
  PROVE  PhaseOK'
<1>. USE DEF IInv, TypeOK
<1>1. CASE FlashDone
  <2>. SUFFICES ASSUME NEW u \in Threads, Lone(u)
                PROVE  FlashIs(u, chan[u])'
    BY <1>1 DEF PhaseOK, Lone, Active, FlashDone, threads, history
  <2>1. chan[u] \in Chans /\ FlashIs(u, chan[u])
    BY DEF PhaseOK, ShapeOK, Lone
  <2>. QED
    BY <1>1, <2>1 DEF FlashIs, FlashDone, threads
<1>2. CASE PowerLoss
  BY <1>2 DEF PowerLoss, PhaseOK, Lone, Active
<1>3. CASE InitSettingsfromQspi
  BY <1>3 DEF InitSettingsfromQspi, PhaseOK, FlashIs, Lone, Active, device, threads, history
<1>4. ASSUME NEW t \in Threads, NEW c \in Chans, WriteQspi(t, c)
      PROVE  PhaseOK'
  <2>. SUFFICES ASSUME NEW u \in Threads, Lone(u)'
                PROVE  FlashIs(u, chan[u])'
    BY DEF PhaseOK
  <2>1. Start(t, c, "save", "eraseWren") /\ "eraseWren" \in Steps
    BY <1>4 DEF WriteQspi, Steps
  <2>2. u = t
    <3>1. \A v \in Threads : v # t => pc'[v] = pc[v] /\ (Active(v) => met'[v])
      BY <2>1, StartFacts
    <3>. QED
      BY <3>1 DEF Lone, Active
  <2>3. wip = None
    BY <2>1, <2>2, StartFacts DEF Lone
  <2>. QED
    BY <1>4, <2>2, <2>3 DEF WriteQspi, Start, FlashIs, device
<1>5. ASSUME NEW t \in Threads, NEW c \in Chans, ReadQspi(t, c)
      PROVE  PhaseOK'
  <2>. SUFFICES ASSUME NEW u \in Threads, Lone(u)'
                PROVE  FlashIs(u, chan[u])'
    BY DEF PhaseOK
  <2>1. Start(t, c, "load", "read") /\ "read" \in Steps
    BY <1>5 DEF ReadQspi, Steps
  <2>2. u = t
    <3>1. \A v \in Threads : v # t => pc'[v] = pc[v] /\ (Active(v) => met'[v])
      BY <2>1, StartFacts
    <3>. QED
      BY <3>1 DEF Lone, Active
  <2>3. wip = None
    BY <2>1, <2>2, StartFacts DEF Lone
  <2>. QED
    BY <1>5, <2>2, <2>3 DEF ReadQspi, Start, FlashIs, device
<1>6. ASSUME NEW t \in Threads, NEW c \in Chans, NEW r \in Regs, NEW v \in Word, SetRegister(t, c, r, v)
      PROVE  PhaseOK'
  BY <1>6 DEF SetRegister, PhaseOK, FlashIs, Lone, Active, device, threads
<1>7. ASSUME NEW t \in Threads, SendWriteEnable(t)
      PROVE  PhaseOK'
  <2>. SUFFICES ASSUME NEW u \in Threads, Lone(u)'
                PROVE  FlashIs(u, chan[u])'
    BY DEF PhaseOK
  <2>1. u = t /\ Lone(t) /\ ~Refusable(t)
    BY <1>7, OnlyMover DEF SendWriteEnable, Goto, Active, history
  <2>2. chan[t] \in Chans /\ FlashIs(t, chan[t])
    BY <2>1 DEF PhaseOK, ShapeOK, Lone
  <2>3. WriteEnable
    BY <1>7, <2>1 DEF SendWriteEnable, Transfer
  <2>. QED
    BY <1>7, <2>1, <2>2, <2>3 DEF SendWriteEnable, Goto, local, WriteEnable, FlashIs
<1>8. ASSUME NEW t \in Threads, QspiFlashEraseSect(t)
      PROVE  PhaseOK'
  <2>. SUFFICES ASSUME NEW u \in Threads, Lone(u)'
                PROVE  FlashIs(u, chan[u])'
    BY DEF PhaseOK
  <2>1. u = t /\ Lone(t) /\ ~Refusable(t)
    BY <1>8, OnlyMover DEF QspiFlashEraseSect, Goto, Active, history
  <2>2. chan[t] \in Chans /\ FlashIs(t, chan[t])
    BY <2>1 DEF PhaseOK, ShapeOK, Lone
  <2>3. Command(chan[t], Erased)
    BY <1>8, <2>1 DEF QspiFlashEraseSect, Transfer
  <2>. QED
    BY <1>8, <2>1, <2>2, <2>3 DEF QspiFlashEraseSect, Goto, local, Command, FlashIs
<1>9. ASSUME NEW t \in Threads, EraseWait(t)
      PROVE  PhaseOK'
  <2>. SUFFICES ASSUME NEW u \in Threads, Lone(u)'
                PROVE  FlashIs(u, chan[u])'
    BY DEF PhaseOK
  <2>1. u = t /\ Lone(t) /\ ~Refusable(t)
    BY <1>9, OnlyMover DEF EraseWait, Goto, Active, history
  <2>2. chan[t] \in Chans /\ FlashIs(t, chan[t])
    BY <2>1 DEF PhaseOK, ShapeOK, Lone
  <2>. QED
    BY <1>9, <2>1, <2>2 DEF EraseWait, Goto, local, device, FlashIs
<1>10. ASSUME NEW t \in Threads, QspiGatherData(t)
      PROVE  PhaseOK'
  <2>. SUFFICES ASSUME NEW u \in Threads, Lone(u)'
                PROVE  FlashIs(u, chan[u])'
    BY DEF PhaseOK
  <2>1. u = t /\ Lone(t) /\ ~Refusable(t)
    BY <1>10, OnlyMover DEF QspiGatherData, Each, Goto, Active
  <2>2. chan[t] \in Chans /\ FlashIs(t, chan[t])
    BY <2>1 DEF PhaseOK, ShapeOK, Lone
  <2>. QED
    BY <1>10, <2>1, <2>2 DEF QspiGatherData, Each, Goto, device, FlashIs
<1>11. ASSUME NEW t \in Threads, QspiFlashWrite(t)
      PROVE  PhaseOK'
  <2>. SUFFICES ASSUME NEW u \in Threads, Lone(u)'
                PROVE  FlashIs(u, chan[u])'
    BY DEF PhaseOK
  <2>1. u = t /\ Lone(t) /\ ~Refusable(t)
    BY <1>11, OnlyMover DEF QspiFlashWrite, Goto, Active, history
  <2>2. chan[t] \in Chans /\ FlashIs(t, chan[t])
    BY <2>1 DEF PhaseOK, ShapeOK, Lone
  <2>3. Command(chan[t], buf[t])
    BY <1>11, <2>1, <2>2, ImageFacts DEF QspiFlashWrite, Transfer, FlashIs
  <2>. QED
    BY <1>11, <2>1, <2>2, <2>3 DEF QspiFlashWrite, Goto, local, Command, FlashIs
<1>12. ASSUME NEW t \in Threads, WriteWait(t)
      PROVE  PhaseOK'
  <2>. SUFFICES ASSUME NEW u \in Threads, Lone(u)'
                PROVE  FlashIs(u, chan[u])'
    BY DEF PhaseOK
  <2>1. u = t /\ Lone(t) /\ ~Refusable(t)
    BY <1>12, OnlyMover DEF WriteWait, Goto, Active
  <2>2. chan[t] \in Chans /\ FlashIs(t, chan[t])
    BY <2>1 DEF PhaseOK, ShapeOK, Lone
  <2>. QED
    BY <1>12, <2>1, <2>2 DEF WriteWait, Goto, local, device, FlashIs
<1>13. ASSUME NEW t \in Threads, QspiFlashRead(t)
      PROVE  PhaseOK'
  <2>. SUFFICES ASSUME NEW u \in Threads, Lone(u)'
                PROVE  FlashIs(u, chan[u])'
    BY DEF PhaseOK
  <2>1. u = t /\ Lone(t) /\ ~Refusable(t)
    BY <1>13, OnlyMover DEF QspiFlashRead, Goto, Active, history
  <2>2. chan[t] \in Chans /\ FlashIs(t, chan[t])
    BY <2>1 DEF PhaseOK, ShapeOK, Lone
  <2>. QED
    BY <1>13, <2>1, <2>2 DEF QspiFlashRead, Goto, device, FlashIs
<1>14. ASSUME NEW t \in Threads, QspiDisperseData(t)
      PROVE  PhaseOK'
  <2>. SUFFICES ASSUME NEW u \in Threads, Lone(u)'
                PROVE  FlashIs(u, chan[u])'
    BY DEF PhaseOK
  <2>1. \A v \in Threads : v # t => pc'[v] = pc[v] /\ met'[v] = met[v]
    BY <1>14 DEF QspiDisperseData, Each, Goto
  <2>2. u = t /\ idx[t] < NReg
    <3>1. Active(t)
      BY <1>14 DEF QspiDisperseData, Active
    <3>2. u = t
      BY <2>1, <3>1 DEF AloneOK, Lone, Active
    <3>. QED
      BY <1>14, <3>2 DEF QspiDisperseData, Each, Goto, Lone, Active
  <2>3. UNCHANGED <<pc, op, chan, buf, met, device>>
    BY <1>14, <2>2 DEF QspiDisperseData, Each
  <2>. QED
    BY <2>2, <2>3 DEF PhaseOK, FlashIs, Lone, Active, device
<1>15. CASE UNCHANGED vars
  BY <1>15 DEF PhaseOK, FlashIs, Lone, Active, vars, device, threads, history
<1>. QED
  BY <1>1, <1>2, <1>3, <1>4, <1>5, <1>6, <1>7, <1>8, <1>9, <1>10, <1>11,
     <1>12, <1>13, <1>14, <1>15
  DEF Next, Step

\* Whoever writes a setting marks it for those who gathered it.
LEMMA CopyInductive ==
  ASSUME IInv, [Next]_vars
  PROVE  CopyOK'
<1>. USE DEF IInv, TypeOK
<1>1. CASE FlashDone
  BY <1>1 DEF FlashDone, threads, history, CopyOK, Gathered, Lone, Active
<1>2. CASE PowerLoss
  BY <1>2 DEF PowerLoss, CopyOK, Lone, Active
<1>3. CASE InitSettingsfromQspi
  BY <1>3 DEF InitSettingsfromQspi, ShapeOK, CopyOK, Lone, Active, threads
<1>4. ASSUME NEW t \in Threads, NEW c \in Chans, WriteQspi(t, c)
      PROVE  CopyOK'
  <2>. SUFFICES ASSUME NEW u \in Threads, Lone(u)', op'[u] = "save"
                PROVE  Gathered(u)' = {}
    BY DEF CopyOK
  <2>1. Start(t, c, "save", "eraseWren") /\ "eraseWren" \in Steps
    BY <1>4 DEF WriteQspi, Steps
  <2>2. u = t
    <3>1. \A v \in Threads : v # t => pc'[v] = pc[v] /\ (Active(v) => met'[v])
      BY <2>1, StartFacts
    <3>. QED
      BY <3>1 DEF Lone, Active
  <2>. QED
    BY <2>1, <2>2, StartFacts DEF Gathered
<1>5. ASSUME NEW t \in Threads, NEW c \in Chans, ReadQspi(t, c)
      PROVE  CopyOK'
  <2>. SUFFICES ASSUME NEW u \in Threads, Lone(u)', op'[u] = "save"
                PROVE  Gathered(u)' = {}
    BY DEF CopyOK
  <2>1. Start(t, c, "load", "read") /\ "read" \in Steps
    BY <1>5 DEF ReadQspi, Steps
  <2>2. u = t
    <3>1. \A v \in Threads : v # t => pc'[v] = pc[v] /\ (Active(v) => met'[v])
      BY <2>1, StartFacts
    <3>. QED
      BY <3>1 DEF Lone, Active
  <2>. QED
    BY <2>1, <2>2, StartFacts DEF Gathered
<1>6. ASSUME NEW t \in Threads, NEW c \in Chans, NEW r \in Regs, NEW v \in Word, SetRegister(t, c, r, v)
      PROVE  CopyOK'
  <2>. SUFFICES ASSUME NEW u \in Threads, Lone(u)', op'[u] = "save",
                       NEW q \in Gathered(u)' \ touched'[u]
                PROVE  regs'[chan'[u]][q] = buf'[u][q]
    BY DEF CopyOK
  <2>1. Lone(u) /\ op[u] = "save" /\ q \in Gathered(u) /\ UNCHANGED <<chan, buf>>
    BY <1>6 DEF SetRegister, threads, Lone, Active, Gathered
  <2>2. chan[u] \in Chans /\ q \in Regs
    BY <2>1 DEF ShapeOK, Lone, Gathered
  <2>3. touched'[u] = IF chan[u] = c THEN touched[u] \cup {r} ELSE touched[u]
    BY <1>6 DEF SetRegister, Touch
  <2>4. regs'[chan[u]][q] = regs[chan[u]][q]
    BY <1>6, <2>2, <2>3 DEF SetRegister, Image
  <2>. QED
    BY <2>1, <2>3, <2>4 DEF CopyOK
<1>7. ASSUME NEW t \in Threads, SendWriteEnable(t)
      PROVE  CopyOK'
  <2>. SUFFICES ASSUME NEW u \in Threads, Lone(u)', op'[u] = "save",
                       NEW r \in Gathered(u)' \ touched'[u]
                PROVE  regs'[chan'[u]][r] = buf'[u][r]
    BY DEF CopyOK
  <2>1. u = t /\ Lone(t) /\ ~Refusable(t)
    BY <1>7, OnlyMover DEF SendWriteEnable, Goto, Active, history
  <2>2. UNCHANGED <<regs, op, chan, buf, touched>>
    BY <1>7 DEF SendWriteEnable, local, history
  <2>3. r \in Gathered(t)
    BY <1>7, <2>1, <2>2 DEF SendWriteEnable, Goto, local, Gathered
  <2>. QED
    BY <2>1, <2>2, <2>3 DEF CopyOK
<1>8. ASSUME NEW t \in Threads, QspiFlashEraseSect(t)
      PROVE  CopyOK'
  <2>. SUFFICES ASSUME NEW u \in Threads, Lone(u)', op'[u] = "save",
                       NEW r \in Gathered(u)' \ touched'[u]
                PROVE  regs'[chan'[u]][r] = buf'[u][r]
    BY DEF CopyOK
  <2>1. u = t /\ Lone(t) /\ ~Refusable(t)
    BY <1>8, OnlyMover DEF QspiFlashEraseSect, Goto, Active, history
  <2>. QED
    BY <1>8, <2>1 DEF QspiFlashEraseSect, Goto, local, history, Gathered, CopyOK
<1>9. ASSUME NEW t \in Threads, EraseWait(t)
      PROVE  CopyOK'
  <2>. SUFFICES ASSUME NEW u \in Threads, Lone(u)', op'[u] = "save",
                       NEW r \in Gathered(u)' \ touched'[u]
                PROVE  regs'[chan'[u]][r] = buf'[u][r]
    BY DEF CopyOK
  <2>1. u = t /\ Lone(t) /\ ~Refusable(t)
    BY <1>9, OnlyMover DEF EraseWait, Goto, Active, history
  <2>1a. idx'[t] = 1 /\ pc'[t] = "gather"
    BY <1>9 DEF EraseWait, Goto, local, ShapeOK
  <2>. QED
    BY <2>1, <2>1a DEF Gathered, Regs
<1>10. ASSUME NEW t \in Threads, QspiGatherData(t)
      PROVE  CopyOK'
  <2>. SUFFICES ASSUME NEW u \in Threads, Lone(u)', op'[u] = "save",
                       NEW r \in Gathered(u)' \ touched'[u]
                PROVE  regs'[chan'[u]][r] = buf'[u][r]
    BY DEF CopyOK
  <2>1. u = t /\ Lone(t) /\ ~Refusable(t)
    BY <1>10, OnlyMover DEF QspiGatherData, Each, Goto, Active
  <2>2. /\ chan[t] \in Chans /\ idx[t] \in Regs /\ op[t] = "save"
        /\ UNCHANGED <<regs, chan>>
    BY <1>10, <2>1 DEF QspiGatherData, ShapeOK, Lone, Writing
  <2>3. r \in Regs /\ (r = idx[t] \/ r < idx[t])
    BY <1>10, <2>1 DEF QspiGatherData, Each, Goto, Gathered, Regs
  <2>4. buf'[t] = [buf[t] EXCEPT ![idx[t]] = regs[chan[t]][idx[t]]]
        /\ touched'[t] = touched[t] \ {idx[t]}
    BY <1>10 DEF QspiGatherData
  <2>5. CASE r = idx[t]
    BY <2>1, <2>2, <2>4, <2>5 DEF Image
  <2>6. CASE r # idx[t]
    <3>1. r \in Gathered(t) \ touched[t]
      BY <1>10, <2>1, <2>3, <2>4, <2>6 DEF QspiGatherData, Gathered
    <3>2. buf'[t][r] = buf[t][r]
      BY <2>2, <2>3, <2>4, <2>6 DEF Image
    <3>. QED
      BY <2>1, <2>2, <3>1, <3>2 DEF CopyOK
  <2>. QED
    BY <2>5, <2>6
<1>11. ASSUME NEW t \in Threads, QspiFlashWrite(t)
      PROVE  CopyOK'
  <2>. SUFFICES ASSUME NEW u \in Threads, Lone(u)', op'[u] = "save",
                       NEW r \in Gathered(u)' \ touched'[u]
                PROVE  regs'[chan'[u]][r] = buf'[u][r]
    BY DEF CopyOK
  <2>1. u = t /\ Lone(t) /\ ~Refusable(t)
    BY <1>11, OnlyMover DEF QspiFlashWrite, Goto, Active, history
  <2>. QED
    BY <1>11, <2>1 DEF QspiFlashWrite, Goto, local, history, Gathered, CopyOK
<1>12. ASSUME NEW t \in Threads, WriteWait(t)
      PROVE  CopyOK'
  <2>. SUFFICES ASSUME NEW u \in Threads, Lone(u)', op'[u] = "save",
                       NEW r \in Gathered(u)' \ touched'[u]
                PROVE  regs'[chan'[u]][r] = buf'[u][r]
    BY DEF CopyOK
  <2>1. u = t /\ Lone(t) /\ ~Refusable(t)
    BY <1>12, OnlyMover DEF WriteWait, Goto, Active
  <2>. QED
    BY <1>12, <2>1 DEF WriteWait, Goto, local, Gathered, CopyOK
<1>13. ASSUME NEW t \in Threads, QspiFlashRead(t)
      PROVE  CopyOK'
  <2>. SUFFICES ASSUME NEW u \in Threads, Lone(u)', op'[u] = "save",
                       NEW r \in Gathered(u)' \ touched'[u]
                PROVE  regs'[chan'[u]][r] = buf'[u][r]
    BY DEF CopyOK
  <2>1. u = t /\ Lone(t) /\ ~Refusable(t)
    BY <1>13, OnlyMover DEF QspiFlashRead, Goto, Active, history
  <2>2. /\ op[t] = "save" /\ chan[t] \in Chans /\ r \in Gathered(t) \ touched[t]
        /\ UNCHANGED <<regs, chan>>
    BY <1>13, <2>1 DEF QspiFlashRead, Goto, history, Gathered, ShapeOK, Lone
  <2>3. wip = None /\ flash[chan[t]] = buf[t]
    BY <1>13, <2>1, <2>2 DEF QspiFlashRead, PhaseOK, FlashIs
  <2>4. buf'[t] = buf[t]
    BY <1>13, <2>1, <2>3 DEF QspiFlashRead
  <2>. QED
    BY <2>1, <2>2, <2>4 DEF CopyOK
<1>14. ASSUME NEW t \in Threads, QspiDisperseData(t)
      PROVE  CopyOK'
  <2>. SUFFICES ASSUME NEW u \in Threads, Lone(u)', op'[u] = "save",
                       NEW r \in Gathered(u)' \ touched'[u]
                PROVE  regs'[chan'[u]][r] = buf'[u][r]
    BY DEF CopyOK
  <2>1. \A v \in Threads : v # t => pc'[v] = pc[v] /\ met'[v] = met[v]
    BY <1>14 DEF QspiDisperseData, Each, Goto
  <2>2. u = t /\ idx[t] < NReg
    <3>1. Active(t)
      BY <1>14 DEF QspiDisperseData, Active
    <3>2. u = t
      BY <2>1, <3>1 DEF AloneOK, Lone, Active
    <3>. QED
      BY <1>14, <3>2 DEF QspiDisperseData, Each, Goto, Lone, Active
  <2>3. UNCHANGED <<pc, op, chan, buf, met>> /\ chan[t] \in Chans
    BY <1>14, <2>2 DEF QspiDisperseData, Each, ShapeOK, Active
  <2>4. Lone(t) /\ r \in Gathered(t) /\ r \in Regs /\ idx[t] \in Regs
    BY <1>14, <2>2, <2>3 DEF QspiDisperseData, Lone, Active, Gathered
  <2>5. touched'[t] = touched[t] \cup {idx[t]}
    BY <1>14, <2>2 DEF QspiDisperseData, Touch
  <2>6. regs'[chan[t]][r] = regs[chan[t]][r]
    BY <1>14, <2>2, <2>3, <2>4, <2>5 DEF QspiDisperseData, Image
  <2>. QED
    BY <2>2, <2>3, <2>4, <2>5, <2>6 DEF CopyOK
<1>15. CASE UNCHANGED vars
  BY <1>15 DEF CopyOK, Gathered, Lone, Active, vars, device, threads, history
<1>. QED
  BY <1>1, <1>2, <1>3, <1>4, <1>5, <1>6, <1>7, <1>8, <1>9, <1>10, <1>11,
     <1>12, <1>13, <1>14, <1>15
  DEF Next, Step

-----------------------------------------------------------------------------
(* Theorems                                                                *)

\* Before the first start nothing is under way and every sector is erased.
LEMMA InitIInv == Init => IInv
<1>. SUFFICES ASSUME Init PROVE IInv
  OBVIOUS
<1>. USE DEF Init
<1>1. TypeOK
  BY ImageFacts DEF TypeOK, Steps
<1>2. ShapeOK
  BY DEF ShapeOK, Active, Writing
<1>3. AloneOK /\ PhaseOK /\ CopyOK
  BY DEF AloneOK, PhaseOK, CopyOK, Lone, Active
<1>4. SpoilOK
  BY DEF SpoilOK
<1>. QED
  BY <1>1, <1>2, <1>3, <1>4 DEF IInv

\* The strengthened invariant of chan_settings and qspi_flash.c holds.
THEOREM Invariance == Spec => []IInv
<1>1. Init => IInv
  BY InitIInv
<1>2. IInv /\ [Next]_vars => IInv'
  <2>. SUFFICES ASSUME IInv, [Next]_vars PROVE IInv'
    OBVIOUS
  <2>1. TypeOK' /\ ShapeOK' /\ AloneOK'
    BY TypeInductive, ShapeInductive, AloneInductive DEF IInv
  <2>2. PhaseOK' /\ SpoilOK' /\ CopyOK'
    BY PhaseInductive, SpoilInductive, CopyInductive
  <2>. QED
    BY <2>1, <2>2 DEF IInv
<1>. QED
  BY <1>1, <1>2, PTL DEF Spec

\* The loops over QspiData_t stay within it and the flash holds images.
THEOREM TypeCorrect == Spec => []TypeOK
<1>1. IInv => TypeOK
  BY DEF IInv
<1>. QED
  BY <1>1, Invariance, PTL

\* A WRITE_QSPI_MSG that meets no other flash access has erased and programmed
\* the sector with what it gathered when it comes to the read-back.
THEOREM LoneSaveComplete == Spec => []LoneSaveSticks
<1>1. IInv => LoneSaveSticks
  BY DEF IInv, LoneSaveSticks, PhaseOK, FlashIs, Lone, Active
<1>. QED
  BY <1>1, Invariance, PTL

\* A restart puts into the registers what the last completed save of a channel
\* wrote, unless its sector was spoiled since.
THEOREM RestartRestoresKept == Spec => RestartRestores
<1>1. IInv /\ [Next]_vars =>
        [~on /\ on' => \A c \in Chans : ~spoiled[c] => regs'[c] = kept[c]]_vars
  <2>. SUFFICES ASSUME IInv, Next, ~on, on'
                PROVE  \A c \in Chans : ~spoiled[c] => regs'[c] = kept[c]
    OBVIOUS
  <2>1. ~FlashDone /\ ~PowerLoss
    BY DEF FlashDone, PowerLoss
  <2>2. ASSUME NEW t \in Threads
        PROVE  ~Step(t)
    <3>1. on' # on /\ pc[t] = "idle"
      BY DEF IInv, TypeOK, ShapeOK, Active
    <3>. QED
      BY <3>1 DEF Step, WriteQspi, ReadQspi, SetRegister, Start,
         SendWriteEnable, QspiFlashEraseSect, EraseWait, QspiGatherData,
         QspiFlashWrite, WriteWait, QspiFlashRead, QspiDisperseData
  <2>3. InitSettingsfromQspi
    BY <2>1, <2>2 DEF Next
  <2>. QED
    BY <2>3 DEF InitSettingsfromQspi, IInv, SpoilOK
<1>. QED
  BY <1>1, Invariance, PTL DEF Spec, RestartRestores

\* Writing a register with the value it has leaves the registers as they are.
LEMMA SameUpdate ==
  ASSUME NEW f \in [Chans -> Image], NEW c \in Chans, NEW r \in Regs
  PROVE  [f EXCEPT ![c][r] = f[c][r]] = f
BY DEF Image

\* The read-back of a lone save moves a thread through its loop without
\* changing a setting that nobody wrote since it was gathered.
THEOREM ReadBackHarmless == Spec => SaveKeepsSettings
<1>1. ASSUME IInv, Next, NEW t \in Threads, pc[t] = "disperse",
             op[t] = "save", ~met[t], idx[t] \notin touched[t], on',
             <<pc[t], idx[t]>>' # <<pc[t], idx[t]>>
      PROVE  regs' = regs
  <2>. USE DEF IInv, TypeOK
  <2>1. /\ Lone(t) /\ on /\ chan[t] \in Chans /\ idx[t] \in Regs
        /\ ~(pc'[t] = pc[t] /\ idx'[t] = idx[t])
    BY <1>1 DEF Lone, Active, ShapeOK
  <2>2. ~FlashDone /\ ~PowerLoss /\ ~InitSettingsfromQspi
    BY <1>1, <2>1 DEF FlashDone, PowerLoss, InitSettingsfromQspi, threads
  <2>3. PICK u \in Threads : Step(u)
    BY <1>1, <2>2 DEF Next
  <2>4. ASSUME u # t PROVE FALSE
    <3>1. ASSUME NEW c \in Chans, \/ WriteQspi(u, c) \/ ReadQspi(u, c)
                                 \/ \E r \in Regs, v \in Word : SetRegister(u, c, r, v)
          PROVE  FALSE
      BY <1>1, <2>1, <2>4, <3>1 DEF WriteQspi, ReadQspi, SetRegister, Start, threads
    <3>2. CASE SendWriteEnable(u) \/ QspiFlashEraseSect(u) \/ EraseWait(u)
               \/ QspiFlashWrite(u) \/ WriteWait(u) \/ QspiFlashRead(u)
      BY <1>1, <2>1, <2>4, <3>2 DEF SendWriteEnable, QspiFlashEraseSect, EraseWait,
         QspiFlashWrite, WriteWait, QspiFlashRead, Goto, local
    <3>3. CASE QspiGatherData(u) \/ QspiDisperseData(u)
      BY <1>1, <2>1, <2>4, <3>3 DEF QspiGatherData, QspiDisperseData, Each, Goto
    <3>. QED
      BY <2>3, <3>1, <3>2, <3>3 DEF Step
  <2>5. QspiDisperseData(t)
    BY <1>1, <2>3, <2>4 DEF Step, WriteQspi, ReadQspi, SetRegister, Start,
       Active, SendWriteEnable, QspiFlashEraseSect, EraseWait, QspiGatherData,
       QspiFlashWrite, WriteWait, QspiFlashRead
  <2>6. regs[chan[t]][idx[t]] = buf[t][idx[t]]
    BY <1>1, <2>1 DEF CopyOK, Gathered
  <2>. HIDE DEF IInv, TypeOK
  <2>7. regs' = [regs EXCEPT ![chan[t]][idx[t]] = buf[t][idx[t]]]
    BY <2>5 DEF QspiDisperseData
  <2>8. regs' = [regs EXCEPT ![chan[t]][idx[t]] = regs[chan[t]][idx[t]]]
    BY <2>6, <2>7
  <2>9. regs \in [Chans -> Image]
    BY <1>1 DEF IInv, TypeOK
  <2>10. chan[t] \in Chans /\ idx[t] \in Regs
    BY <2>1
  <2>11. [regs EXCEPT ![chan[t]][idx[t]] = regs[chan[t]][idx[t]]] = regs
    BY <2>9, <2>10, SameUpdate
  <2>. QED
    BY <2>8, <2>11
<1>2. IInv /\ [Next]_vars =>
        [\A t \in Threads :
           /\ pc[t] = "disperse" /\ op[t] = "save" /\ ~met[t]
           /\ idx[t] \notin touched[t]
           /\ on' /\ <<pc[t], idx[t]>>' # <<pc[t], idx[t]>>
           => regs' = regs]_vars
  BY <1>1
<1>. QED
  BY <1>2, Invariance, PTL DEF Spec, SaveKeepsSettings

=============================================================================
