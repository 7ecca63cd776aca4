--------------------------- MODULE SnapshotProofs ---------------------------
(***************************************************************************)
(* Proofs about Snapshot for every ring length, window, number of triggers *)
(* and rate of the writer.                                                 *)
(***************************************************************************)
EXTENDS Snapshot, SequenceTheorems, TLAPS

USE SnapshotAssumption

\* The number of polls that posttrigpts stands for is a natural number.
LEMMA PollsAreNatural == Polls \in Nat
BY DEF Polls

\* History and cursor stay typed: the two facts that need arithmetic.
LEMMA OlderType ==
  ASSUME NEW a \in [Trigs -> 0 .. Ring + 1], NEW S
  PROVE  Older(a, S) \in [Trigs -> 0 .. Ring + 1]
<1>. SUFFICES ASSUME NEW k \in Trigs
              PROVE  (IF k \in S /\ a[k] <= Ring THEN a[k] + 1 ELSE a[k])
                        \in 0 .. Ring + 1
  BY DEF Older
<1>1. a[k] \in 0 .. Ring + 1
  OBVIOUS
<1>. QED
  BY <1>1

\* The trigger after one that is not the last exists.
LEMMA NextTrigger ==
  ASSUME NEW k \in Trigs
  PROVE  1 \in Trigs /\ (k < NTrig => k + 1 \in Trigs)
BY DEF Trigs

\* Every action keeps the types.
LEMMA TypeInductive ==
  ASSUME TypeOK, [Next]_vars
  PROVE  TypeOK'
<1>. USE DEF TypeOK
<1>1. CASE StartBurst
  BY <1>1 DEF StartBurst, latches, info, daemon, history
<1>2. CASE FinishBurst
  <2>1. addr_base' \in Slots
    BY <1>2 DEF FinishBurst, NextSlot, Slots
  <2>2. ticks' \in 0 .. DelayPts
    BY <1>2 DEF FinishBurst
  <2>3. age' \in [Trigs -> 0 .. Ring + 1] /\ capAge' \in [Trigs -> 0 .. Ring + 1]
    BY <1>2, OlderType DEF FinishBurst
  <2>4. lap' \in BOOLEAN
    BY <1>2 DEF FinishBurst
  <2>. QED
    BY <1>2, <2>1, <2>2, <2>3, <2>4 DEF FinishBurst, latches, info, daemon
<1>3. ASSUME NEW k \in Trigs, Raise(k)
      PROVE  TypeOK'
  <2>1. /\ level' \in [Trigs -> BOOLEAN] /\ fresh' \in [Trigs -> BOOLEAN]
        /\ bufptr' \in [Trigs -> Slots \cup {Null}]
    BY <1>3 DEF Raise
  <2>2. (lap \/ addr_ptr >= Pre) \in BOOLEAN
    OBVIOUS
  <2>3. primed' \in [Trigs -> BOOLEAN]
    BY <1>3, <2>2, Zenon DEF Raise
  <2>4. age' \in [Trigs -> 0 .. Ring + 1]
    BY <1>3 DEF Raise
  <2>. QED
    BY <1>3, <2>1, <2>3, <2>4 DEF Raise, writer, info, daemon
<1>4. ASSUME NEW k \in Trigs, Lower(k)
      PROVE  TypeOK'
  BY <1>4 DEF Lower, writer, info, daemon, history
<1>5. CASE Wake
  BY <1>5, NextTrigger DEF Wake, writer, latches, info, history
<1>6. CASE SendSnapShotStats
  BY <1>6, NextTrigger DEF SendSnapShotStats, writer, latches, info, history
<1>7. ASSUME NEW k \in Trigs, CheckTrigger(k)
      PROVE  TypeOK'
  <2>1. addr' \in [Trigs -> Slots \cup {Null}]
    BY <1>7 DEF CheckTrigger
  <2>2. LastSeen(k) \in Slots \cup {Null}
    BY DEF LastSeen
  <2>3. addr_last' \in [Trigs -> Slots \cup {Null}]
    BY <1>7, <2>2 DEF CheckTrigger
  <2>4. (active[k] \/ Begins(k)) \in BOOLEAN
    BY DEF Begins
  <2>5. active' \in [Trigs -> BOOLEAN]
    BY <1>7, <2>4, Zenon DEF CheckTrigger
  <2>6. (sendbuf[k] \/ ((active[k] \/ Begins(k)) /\ WaitOver(k))) \in BOOLEAN
    BY DEF Begins, WaitOver
  <2>7. sendbuf' \in [Trigs -> BOOLEAN]
    BY <1>7, <2>6, Zenon DEF CheckTrigger
  <2>8. PollCount(k) \in 0 .. Polls
    BY PollsAreNatural DEF PollCount
  <2>9. postdlycnt' \in [Trigs -> 0 .. Polls]
    BY <1>7, <2>8, PollsAreNatural DEF CheckTrigger
  <2>10. /\ age' \in [Trigs -> 0 .. Ring + 1]
         /\ capAge' \in [Trigs -> 0 .. Ring + 1]
    BY <1>7 DEF CheckTrigger, history
  <2>11. /\ primed' \in [Trigs -> BOOLEAN] /\ capPrimed' \in [Trigs -> BOOLEAN]
         /\ fresh' \in [Trigs -> BOOLEAN]
    <3>1. CASE Begins(k)
      <4>1. /\ capPrimed' = [capPrimed EXCEPT ![k] = primed[k]]
            /\ primed' = [primed EXCEPT ![k] = FALSE]
            /\ fresh' = [fresh EXCEPT ![k] = FALSE]
        BY <1>7, <3>1 DEF CheckTrigger
      <4>2. primed[k] \in BOOLEAN
        OBVIOUS
      <4>. QED
        BY <4>1, <4>2, Zenon
    <3>2. CASE ~Begins(k)
      BY <1>7, <3>2 DEF CheckTrigger, history
    <3>. QED
      BY <3>1, <3>2
  <2>12. /\ pc' \in {"delay", "check", "scan", "copy", "send", "stats"}
         /\ cur' \in Trigs
    BY <1>7, NextTrigger DEF CheckTrigger
  <2>. QED
    BY <1>7, <2>1, <2>3, <2>5, <2>7, <2>9, <2>10, <2>11, <2>12
       DEF CheckTrigger, writer, latches
<1>8. ASSUME NEW k \in Trigs, SendWfmData(k)
      PROVE  TypeOK'
  <2>1. /\ pc' \in {"delay", "check", "scan", "copy", "send", "stats"}
        /\ cur' \in Trigs
    BY <1>8, NextTrigger DEF SendWfmData
  <2>2. sendbuf' \in [Trigs -> BOOLEAN] /\ active' \in [Trigs -> BOOLEAN]
    BY <1>8 DEF SendWfmData
  <2>. QED
    BY <1>8, <2>1, <2>2 DEF SendWfmData, writer, latches, history
<1>9. ASSUME NEW k \in Trigs, CopyDataChan(k)
      PROVE  TypeOK'
  <2>1. pc' \in {"delay", "check", "scan", "copy", "send", "stats"}
    BY <1>9 DEF CopyDataChan
  <2>. HIDE DEF TypeOK
  <2>2. UNCHANGED <<writer, latches, info, cur, ticks, history>>
    BY <1>9 DEF CopyDataChan
  <2>. QED
    BY <2>1, <2>2 DEF TypeOK, writer, latches, info, history
<1>10. ASSUME NEW k \in Trigs, Send(k)
       PROVE  TypeOK'
  <2>1. /\ pc' \in {"delay", "check", "scan", "copy", "send", "stats"}
        /\ cur' \in Trigs
    BY <1>10, NextTrigger DEF Send
  <2>2. capAge' \in [Trigs -> 0 .. Ring + 1]
    BY <1>10 DEF Send
  <2>3. capPrimed' \in [Trigs -> BOOLEAN]
    BY <1>10 DEF Send
  <2>. QED
    BY <1>10, <2>1, <2>2, <2>3 DEF Send, writer, latches, info
<1>11. CASE UNCHANGED vars
  BY <1>11 DEF vars, writer, latches, info, daemon, history
<1>. QED
  BY <1>1, <1>2, <1>3, <1>4, <1>5, <1>6, <1>7, <1>8, <1>9, <1>10, <1>11
     DEF Next, Hardware, Software

\* Every register, counter and index stays in its range: the ring address does
\* not pass DDR_MAX_ADDR and the poll count does not pass posttrigpts/1000.
THEOREM TypeCorrect == Spec => []TypeOK
<1>1. Init => TypeOK
  <2>. SUFFICES ASSUME Init PROVE TypeOK
    OBVIOUS
  <2>1. /\ addr_base \in Slots /\ cur \in Trigs /\ ticks \in 0 .. DelayPts
    BY DEF Init, Slots, Trigs
  <2>2. /\ postdlycnt \in [Trigs -> 0 .. Polls]
        /\ age \in [Trigs -> 0 .. Ring + 1]
        /\ capAge \in [Trigs -> 0 .. Ring + 1]
    BY PollsAreNatural DEF Init
  <2>3. /\ level \in [Trigs -> BOOLEAN] /\ active \in [Trigs -> BOOLEAN]
        /\ sendbuf \in [Trigs -> BOOLEAN] /\ fresh \in [Trigs -> BOOLEAN]
        /\ primed \in [Trigs -> BOOLEAN] /\ capPrimed \in [Trigs -> BOOLEAN]
    BY Zenon DEF Init
  <2>4. /\ bufptr \in [Trigs -> Slots \cup {Null}]
        /\ addr \in [Trigs -> Slots \cup {Null}]
        /\ addr_last \in [Trigs -> Slots \cup {Null}]
    BY DEF Init
  <2>. QED
    BY <2>1, <2>2, <2>3, <2>4 DEF Init, TypeOK
<1>2. TypeOK /\ [Next]_vars => TypeOK'
  BY TypeInductive
<1>. QED
  BY <1>1, <1>2, PTL DEF Spec
-----------------------------------------------------------------------------
\* A register that has latched nothing since the last capture still holds the
\* address of that capture: comparing addresses cannot mistake it for new.
FreshOK == \A k \in Trigs : ~fresh[k] => bufptr[k] = addr_last[k]

\* Raising a trigger makes it fresh, and only its capture ends that.
LEMMA FreshInductive ==
  ASSUME TypeOK, FreshOK, [Next]_vars
  PROVE  FreshOK'
<1>. USE DEF TypeOK, FreshOK
<1>1. ASSUME NEW k \in Trigs, Raise(k)
      PROVE  FreshOK'
  BY <1>1 DEF Raise, info
<1>2. ASSUME NEW k \in Trigs, CheckTrigger(k)
      PROVE  FreshOK'
  <2>1. bufptr' = bufptr
    BY <1>2 DEF CheckTrigger, latches
  <2>2. CASE Begins(k)
    BY <1>2, <2>1, <2>2 DEF CheckTrigger, LastSeen
  <2>3. CASE ~Begins(k)
    BY <1>2, <2>1, <2>3 DEF CheckTrigger, LastSeen, history
  <2>. QED
    BY <2>2, <2>3
<1>3. CASE UNCHANGED <<fresh, bufptr, addr_last>>
  BY <1>3
<1>. QED
  BY <1>1, <1>2, <1>3
     DEF Next, Hardware, Software, StartBurst, FinishBurst, Lower, Wake,
         SendSnapShotStats, SendWfmData, CopyDataChan, Send, vars, writer,
         latches, info, daemon, history

\* The invariant behind NoDoubleCapture holds in every behaviour.
THEOREM FreshInvariance == Spec => [](TypeOK /\ FreshOK)
<1>1. Init => FreshOK
  BY DEF Init, FreshOK
<1>2. TypeOK /\ FreshOK /\ [Next]_vars => FreshOK'
  BY FreshInductive
<1>. QED
  BY <1>1, <1>2, TypeCorrect, PTL DEF Spec

\* No trigger is captured twice, however many trigger signals there are and
\* however the latches, the writer and the daemon interleave.
THEOREM NoDoubleCapture == Spec => CapturesFreshTriggers
<1>1. ASSUME TypeOK, FreshOK, [Next]_vars, NEW k \in Trigs,
             ~active[k], active'[k]
      PROVE  fresh[k]
  <2>1. CASE CheckTrigger(k)
    BY <1>1, <2>1 DEF CheckTrigger, Begins, TypeOK, FreshOK
  <2>2. ASSUME NEW j \in Trigs, CheckTrigger(j), j # k
        PROVE  active'[k] = active[k]
    BY <2>2 DEF CheckTrigger, TypeOK
  <2>3. ASSUME NEW j \in Trigs, SendWfmData(j)
        PROVE  active'[k] => active[k]
    <3>1. CASE sendbuf[j]
      <4>1. active' = [active EXCEPT ![j] = FALSE]
        BY <2>3, <3>1 DEF SendWfmData
      <4>2. active \in [Trigs -> BOOLEAN]
        BY <1>1 DEF TypeOK
      <4>. QED
        BY <4>1, <4>2
    <3>2. CASE ~sendbuf[j]
      BY <2>3, <3>2 DEF SendWfmData
    <3>. QED
      BY <3>1, <3>2
  <2>. QED
    BY <1>1, <2>1, <2>2, <2>3
       DEF Next, Hardware, Software, StartBurst, FinishBurst, Raise, Lower,
           Wake, SendSnapShotStats, CopyDataChan, Send, vars, info
<1>2. ASSUME TypeOK, FreshOK, [Next]_vars
      PROVE  [\A k \in Trigs : ~active[k] /\ active'[k] => fresh[k]]_vars
  BY <1>1, <1>2
<1>. QED
  BY <1>2, FreshInvariance, PTL DEF Spec, CapturesFreshTriggers
-----------------------------------------------------------------------------
(* What a waveform holds.  The invariant has five parts: where the writer  *)
(* is, which slot a latched and which a captured trigger stands for, how   *)
(* long a captured one has waited, and how far its copy has come.          *)

\* Slot a holds the sample that is g samples old, with the ring full behind
\* the writer once it has come round.
LiesBack(a, g) == a + g = addr_base \/ (lap /\ a + g = addr_base + Ring + 1)

\* The Pre slots before slot a have been written.
Filled(a) == a \in Slots /\ (lap \/ a >= Pre)

\* The published address is the slot being written, or else the one before.
WriterOK ==
    /\ bursting => addr_ptr = addr_base
    /\ ~bursting => \/ addr_ptr + 1 = addr_base
                    \/ lap /\ addr_ptr = Ring /\ addr_base = 0
    /\ lap => addr_ptr # Null

\* A latched address is as many slots back as samples were written since.
LatchOK == \A k \in Trigs :
    /\ fresh[k] /\ age[k] <= Ring => LiesBack(bufptr[k], age[k])
    /\ primed[k] => Filled(bufptr[k])

\* So is a captured one, which its new triggers do not disturb.
CaptureOK ==
    /\ \A k \in Captured :
          /\ capAge[k] <= Ring => LiesBack(addr[k], capAge[k])
          /\ capPrimed[k] => Filled(addr[k])
    /\ \A k \in Trigs : sendbuf[k] => active[k]
    /\ pc \in {"copy", "send"} => ~active[cur]

\* The samples that c delays of 100 ms leave time for.
Need(c) == DelayPts * c

\* The samples written, at least, since an active trigger was captured.
Waited(k) ==
    IF sendbuf[k] THEN Need(Polls)
    ELSE IF pc = "check" /\ cur <= k THEN Need(postdlycnt[k])
    ELSE IF pc = "delay" THEN Need(postdlycnt[k] - 1) + ticks
    ELSE Need(postdlycnt[k] - 1)

\* A waveform is read when posttrigpts/1000 delays have passed since its
\* trigger was captured, or the ring was overwritten since.
WaitsAllPolls ==
    pc \in {"copy", "send"} =>
        capAge[cur] = Ring + 1 \/ capAge[cur] >= DelayPts * Polls

WaitOK ==
    /\ \A k \in Trigs : active[k] =>
          /\ ~sendbuf[k] => postdlycnt[k] >= 1
          /\ capAge[k] = Ring + 1 \/ capAge[k] >= Waited(k)
    /\ pc \in {"copy", "send"} =>
          capAge[cur] = Ring + 1 \/ capAge[cur] >= Need(Polls)

\* The segments of ReadDMABuf; a window inside the ring has only the first.
Segment1(a) == IF a < Pre THEN Segment(Ring - (Pre - a), Pre - a)
               ELSE IF a + Post > Ring THEN Segment(a - Pre, Pre)
               ELSE Segment(a - Pre, Pre + Post)
Segment2(a) == IF a < Pre THEN Segment(0, a) ELSE Segment(a, Ring - a)
Segment3(a) == IF a < Pre THEN Segment(a, Post)
               ELSE Segment(0, Post - (Ring - a))

\* The segments that are left and the entries copied already.
Stage(a) ==
    \/ pc = "copy" /\ Len(out) = 0 /\ segs = ReadDMABuf(a)
    \/ /\ pc = "copy" /\ Crosses(a) /\ Len(out) = Segment1(a).len
       /\ segs = <<Segment2(a), Segment3(a)>>
    \/ /\ pc = "copy" /\ Crosses(a)
       /\ Len(out) = Segment1(a).len + Segment2(a).len
       /\ segs = <<Segment3(a)>>
    \/ pc = "send" /\ Len(out) = Pre + Post

\* The sample in entry i of a waveform: the last slot of the ring is left out.
Expected(a, i) ==
    IF a < Pre /\ i <= Pre - a THEN i - 2 - Pre
    ELSE IF a >= Pre /\ a + Post > Ring /\ i > Pre + Ring - a THEN i - Pre
    ELSE i - 1 - Pre

\* What the polls leave no time for is not promised, nor, in a waveform across
\* the end of the ring, the last entry before it.
Promised(a, i) == i < Pre + Due \/ (~Crosses(a) /\ i <= Pre + Due)

CopyOK ==
    pc \in {"copy", "send"} /\ capPrimed[cur] =>
        /\ out \in Seq(Int)
        /\ Stage(addr[cur])
        /\ capAge[cur] < Ring - Pre =>
              \A i \in 1 .. Len(out) :
                  Promised(addr[cur], i) => out[i] = Expected(addr[cur], i)

\* The writer's step adds one sample to the age of every slot it does not reach.
LEMMA WriterAdvances ==
  ASSUME TypeOK, FinishBurst, NEW a \in Slots \cup {Null}, NEW g \in 0 .. Ring,
         LiesBack(a, g)
  PROVE  \/ a + (g + 1) = addr_base'
         \/ lap' /\ a + (g + 1) = addr_base' + Ring + 1
<1>1. addr_base \in 0 .. Ring /\ a \in -1 .. Ring
  BY DEF TypeOK, Slots, Null
<1>2. addr_base' = IF addr_base < Ring THEN addr_base + 1 ELSE 0
  BY DEF FinishBurst, NextSlot
<1>3. lap \/ addr_base = Ring => lap'
  BY DEF FinishBurst
<1>. QED
  BY <1>1, <1>2, <1>3 DEF LiesBack

\* A burst leaves the published address one slot behind the next.
LEMMA WriterInductive ==
  ASSUME TypeOK, WriterOK, [Next]_vars
  PROVE  WriterOK'
<1>. USE DEF TypeOK, WriterOK
<1>1. CASE StartBurst
  BY <1>1 DEF StartBurst, Slots, Null
<1>2. CASE FinishBurst
  <2>1. addr_ptr = addr_base /\ addr_base \in 0 .. Ring
    BY <1>2 DEF FinishBurst, Slots
  <2>2. /\ ~bursting' /\ addr_ptr' = addr_ptr
        /\ addr_base' = IF addr_base < Ring THEN addr_base + 1 ELSE 0
    BY <1>2 DEF FinishBurst, NextSlot
  <2>3. addr_base = Ring => lap'
    BY <1>2 DEF FinishBurst
  <2>. QED
    BY <2>1, <2>2, <2>3 DEF Null
<1>3. CASE UNCHANGED writer
  BY <1>3 DEF writer
<1>. QED
  BY <1>1, <1>2, <1>3
     DEF Next, Hardware, Software, Raise, Lower, Wake, SendSnapShotStats,
         CheckTrigger, SendWfmData, CopyDataChan, Send, vars

\* A latched address and its age move together.
LEMMA LatchInductive ==
  ASSUME TypeOK, WriterOK, LatchOK, [Next]_vars
  PROVE  LatchOK'
<1>. USE DEF TypeOK, LatchOK
<1>1. CASE FinishBurst
  <2>. SUFFICES ASSUME NEW k \in Trigs
                PROVE  /\ (fresh[k] /\ age[k] <= Ring => LiesBack(bufptr[k], age[k]))'
                       /\ (primed[k] => Filled(bufptr[k]))'
    OBVIOUS
  <2>1. UNCHANGED <<fresh, primed, bufptr>>
    BY <1>1 DEF FinishBurst, latches
  <2>2. lap => lap'
    BY <1>1 DEF FinishBurst
  <2>3. (primed[k] => Filled(bufptr[k]))'
    BY <2>1, <2>2 DEF Filled
  <2>4. ASSUME fresh[k], age'[k] <= Ring
        PROVE  LiesBack(bufptr[k], age[k])'
    <3>1. age'[k] = IF age[k] <= Ring THEN age[k] + 1 ELSE age[k]
      BY <1>1, <2>4 DEF FinishBurst, Older
    <3>2. age[k] \in 0 .. Ring /\ age'[k] = age[k] + 1
      BY <3>1, <2>4
    <3>3. LiesBack(bufptr[k], age[k])
      BY <3>2, <2>4
    <3>4. \/ bufptr[k] + age'[k] = addr_base'
          \/ lap' /\ bufptr[k] + age'[k] = addr_base' + Ring + 1
      BY <1>1, <3>2, <3>3, WriterAdvances
    <3>. QED
      BY <2>1, <3>4 DEF LiesBack
  <2>. QED
    BY <2>1, <2>3, <2>4
<1>2. ASSUME NEW k \in Trigs, Raise(k)
      PROVE  LatchOK'
  <2>. SUFFICES ASSUME NEW j \in Trigs
                PROVE  /\ (fresh[j] /\ age[j] <= Ring => LiesBack(bufptr[j], age[j]))'
                       /\ (primed[j] => Filled(bufptr[j]))'
    OBVIOUS
  <2>1. UNCHANGED <<addr_base, lap, bursting>>
    BY <1>2 DEF Raise, writer
  <2>2. CASE j = k
    <3>1. bufptr'[j] = addr_ptr /\ age'[j] = IF bursting THEN 0 ELSE 1
      BY <1>2, <2>2 DEF Raise
    <3>2. LiesBack(bufptr[j], age[j])'
      BY <2>1, <3>1 DEF WriterOK, LiesBack, Slots, Null
    <3>3. (lap \/ addr_ptr >= Pre) \in BOOLEAN
      OBVIOUS
    <3>4. primed'[j] = (lap \/ addr_ptr >= Pre)
      BY <1>2, <2>2, Zenon DEF Raise
    <3>5. (primed[j] => Filled(bufptr[j]))'
      BY <2>1, <3>1, <3>4 DEF WriterOK, Filled, Slots, Null
    <3>. QED
      BY <3>2, <3>5
  <2>3. CASE j # k
    <3>1. /\ bufptr'[j] = bufptr[j] /\ age'[j] = age[j]
          /\ fresh'[j] = fresh[j] /\ primed'[j] = primed[j]
      BY <1>2, <2>3 DEF Raise
    <3>. QED
      BY <2>1, <3>1 DEF LiesBack, Filled
  <2>. QED
    BY <2>2, <2>3
<1>3. ASSUME NEW k \in Trigs, CheckTrigger(k)
      PROVE  LatchOK'
  <2>1. UNCHANGED <<addr_base, lap, bufptr>>
    BY <1>3 DEF CheckTrigger, writer, latches
  <2>2. CASE Begins(k)
    BY <1>3, <2>1, <2>2 DEF CheckTrigger, LiesBack, Filled
  <2>3. CASE ~Begins(k)
    BY <1>3, <2>1, <2>3 DEF CheckTrigger, history, LiesBack, Filled
  <2>. QED
    BY <2>2, <2>3
<1>4. CASE UNCHANGED <<addr_base, lap, bufptr, age, primed, fresh>>
  BY <1>4 DEF LiesBack, Filled
<1>. QED
  BY <1>1, <1>2, <1>3, <1>4
     DEF Next, Hardware, Software, StartBurst, Lower, Wake, SendSnapShotStats,
         SendWfmData, CopyDataChan, Send, vars, writer, latches, history

\* A captured address and its age move together until it has been sent.
LEMMA CaptureInductive ==
  ASSUME TypeOK, FreshOK, LatchOK, CaptureOK, [Next]_vars
  PROVE  CaptureOK'
<1>. USE DEF TypeOK, CaptureOK
<1>1. CASE FinishBurst
  <2>1. UNCHANGED <<addr, active, sendbuf, pc, cur, capPrimed>>
    BY <1>1 DEF FinishBurst, info, daemon
  <2>2. lap => lap'
    BY <1>1 DEF FinishBurst
  <2>3. Captured' = Captured
    BY <2>1 DEF Captured
  <2>. SUFFICES ASSUME NEW k \in Captured
                PROVE  /\ (capAge[k] <= Ring => LiesBack(addr[k], capAge[k]))'
                       /\ (capPrimed[k] => Filled(addr[k]))'
    BY <2>1, <2>3
  <2>4. k \in Trigs
    BY DEF Captured
  <2>5. (capPrimed[k] => Filled(addr[k]))'
    BY <2>1, <2>2, <2>4 DEF Filled
  <2>6. ASSUME capAge'[k] <= Ring
        PROVE  LiesBack(addr[k], capAge[k])'
    <3>1. capAge'[k] = IF capAge[k] <= Ring THEN capAge[k] + 1 ELSE capAge[k]
      BY <1>1, <2>4 DEF FinishBurst, Older
    <3>2. capAge[k] \in 0 .. Ring /\ capAge'[k] = capAge[k] + 1
      BY <3>1, <2>4, <2>6
    <3>3. LiesBack(addr[k], capAge[k]) /\ addr[k] \in Slots \cup {Null}
      BY <3>2, <2>4
    <3>4. \/ addr[k] + capAge'[k] = addr_base'
          \/ lap' /\ addr[k] + capAge'[k] = addr_base' + Ring + 1
      BY <1>1, <3>2, <3>3, WriterAdvances
    <3>. QED
      BY <2>1, <3>4 DEF LiesBack
  <2>. QED
    BY <2>5, <2>6
<1>2. ASSUME NEW k \in Trigs, CheckTrigger(k)
      PROVE  CaptureOK'
  <2>1. UNCHANGED <<addr_base, lap>> /\ pc = "check" /\ pc' \in {"check", "scan"}
    BY <1>2 DEF CheckTrigger, writer
  <2>2. Captured = {j \in Trigs : active[j]} /\ Captured' = {j \in Trigs : active'[j]}
    BY <2>1 DEF Captured
  <2>3. \A j \in Trigs : j # k =>
          /\ addr'[j] = addr[j] /\ active'[j] = active[j] /\ sendbuf'[j] = sendbuf[j]
          /\ capAge'[j] = capAge[j] /\ capPrimed'[j] = capPrimed[j]
    BY <1>2 DEF CheckTrigger, history
  <2>4. (active[k] \/ Begins(k)) \in BOOLEAN
    BY DEF Begins
  <2>5. active'[k] = (active[k] \/ Begins(k))
    BY <1>2, <2>4, Zenon DEF CheckTrigger
  <2>6. (sendbuf[k] \/ ((active[k] \/ Begins(k)) /\ WaitOver(k))) \in BOOLEAN
    BY DEF Begins, WaitOver
  <2>7. sendbuf'[k] = (sendbuf[k] \/ ((active[k] \/ Begins(k)) /\ WaitOver(k)))
    BY <1>2, <2>6, Zenon DEF CheckTrigger
  <2>8. \A j \in Trigs : sendbuf'[j] => active'[j]
    BY <2>3, <2>5, <2>7
  <2>9. CASE active[k]
    <3>1. ~Begins(k)
      BY <2>9 DEF Begins
    <3>2. addr'[k] = addr[k] /\ capAge' = capAge /\ capPrimed' = capPrimed
      BY <1>2, <2>9, <3>1 DEF CheckTrigger, history
    <3>. QED
      BY <2>1, <2>2, <2>3, <2>5, <2>8, <2>9, <3>2 DEF LiesBack, Filled
  <2>10. CASE Begins(k)
    <3>1. fresh[k] /\ ~active[k]
      BY <2>10 DEF Begins, FreshOK
    <3>2. addr'[k] = bufptr[k] /\ capAge'[k] = age[k] /\ capPrimed'[k] = primed[k]
      BY <1>2, <2>10, <3>1 DEF CheckTrigger
    <3>3. /\ capAge'[k] <= Ring => LiesBack(addr'[k], capAge'[k])
          /\ capPrimed'[k] => Filled(addr'[k])
      BY <3>1, <3>2 DEF LatchOK
    <3>. QED
      BY <2>1, <2>2, <2>3, <2>5, <2>8, <3>3 DEF LiesBack, Filled
  <2>11. CASE ~active[k] /\ ~Begins(k)
    BY <2>1, <2>2, <2>3, <2>5, <2>8, <2>11 DEF LiesBack, Filled
  <2>. QED
    BY <2>9, <2>10, <2>11
<1>3. ASSUME NEW k \in Trigs, SendWfmData(k)
      PROVE  CaptureOK'
  <2>1. UNCHANGED <<addr_base, lap, addr, capAge, capPrimed>>
    BY <1>3 DEF SendWfmData, writer, history
  <2>2. CASE sendbuf[k]
    <3>1. /\ active' = [active EXCEPT ![k] = FALSE] /\ pc' = "copy" /\ cur' = k
          /\ sendbuf' = [sendbuf EXCEPT ![k] = FALSE] /\ pc = "scan"
      BY <1>3, <2>2 DEF SendWfmData
    <3>2. Captured' \subseteq Captured
      BY <2>2, <3>1 DEF Captured
    <3>. QED
      BY <2>1, <3>1, <3>2 DEF LiesBack, Filled
  <2>3. CASE ~sendbuf[k]
    <3>1. /\ UNCHANGED <<active, sendbuf>> /\ pc = "scan"
          /\ pc' \in {"scan", "stats"}
      BY <1>3, <2>3 DEF SendWfmData
    <3>2. Captured' = Captured
      BY <3>1 DEF Captured
    <3>. QED
      BY <2>1, <3>1, <3>2 DEF LiesBack, Filled
  <2>. QED
    BY <2>2, <2>3
<1>4. ASSUME NEW k \in Trigs, CopyDataChan(k)
      PROVE  CaptureOK'
  <2>1. /\ UNCHANGED <<addr_base, lap, addr, active, sendbuf, capAge, capPrimed, cur>>
        /\ pc = "copy" /\ pc' \in {"copy", "send"}
    BY <1>4 DEF CopyDataChan, writer, info, history
  <2>2. Captured' = Captured
    BY <2>1 DEF Captured
  <2>. QED
    BY <2>1, <2>2 DEF LiesBack, Filled
<1>5. ASSUME NEW k \in Trigs, Send(k)
      PROVE  CaptureOK'
  <2>1. /\ UNCHANGED <<addr_base, lap, addr, active, sendbuf>>
        /\ pc = "send" /\ pc' \in {"scan", "stats"} /\ cur = k
        /\ \A j \in Trigs : j # k => capAge'[j] = capAge[j] /\ capPrimed'[j] = capPrimed[j]
    BY <1>5 DEF Send, writer, info
  <2>2. Captured' = {j \in Trigs : active[j]} /\ k \notin Captured'
    BY <2>1 DEF Captured
  <2>3. Captured' \subseteq Captured
    BY <2>2 DEF Captured
  <2>. QED
    BY <2>1, <2>2, <2>3 DEF LiesBack, Filled, Captured
<1>6. ASSUME UNCHANGED <<addr_base, lap, addr, active, sendbuf, capAge, capPrimed>>,
             \/ UNCHANGED <<pc, cur>>
             \/ pc \notin {"copy", "send"} /\ pc' \notin {"copy", "send"}
      PROVE  CaptureOK'
  <2>1. Captured' = Captured
    BY <1>6 DEF Captured
  <2>. QED
    BY <1>6, <2>1 DEF LiesBack, Filled
<1>. QED
  BY <1>1, <1>2, <1>3, <1>4, <1>5, <1>6
     DEF Next, Hardware, Software, StartBurst, Raise, Lower, Wake,
         SendSnapShotStats, vars, writer, latches, info, daemon, history

\* Each further delay adds DelayPts samples.
LEMMA NeedGrows ==
  ASSUME NEW c \in Nat
  PROVE  /\ Need(0) = 0
         /\ Need(c) \in Nat
         /\ Need(c + 1) = Need(c) + DelayPts
BY DEF Need

\* The same, counted from the delay before.
LEMMA NeedBefore ==
  ASSUME NEW c \in Nat, c >= 1
  PROVE  Need(c - 1) \in Nat /\ Need(c) = Need(c - 1) + DelayPts
<1>1. c - 1 \in Nat /\ (c - 1) + 1 = c
  OBVIOUS
<1>2. Need(c - 1) \in Nat /\ Need((c - 1) + 1) = Need(c - 1) + DelayPts
  BY <1>1, NeedGrows
<1>. QED
  BY <1>1, <1>2

\* A trigger counts one poll for each delay that has passed.
LEMMA WaitInductive ==
  ASSUME TypeOK, CaptureOK, WaitOK, [Next]_vars
  PROVE  WaitOK'
<1>. USE DEF TypeOK, WaitOK
<1>0. Polls \in Nat /\ Need(Polls) \in Nat
  BY PollsAreNatural, NeedGrows
<1>1. CASE FinishBurst
  <2>1. UNCHANGED <<active, sendbuf, postdlycnt, pc, cur>>
    BY <1>1 DEF FinishBurst, info, daemon
  <2>2. \A k \in Captured :
          capAge'[k] = IF capAge[k] <= Ring THEN capAge[k] + 1 ELSE capAge[k]
    BY <1>1 DEF FinishBurst, Older, Captured
  <2>3. ticks' <= ticks + 1 /\ ticks' \in Nat /\ ticks \in Nat
    BY <1>1 DEF FinishBurst
  <2>4. pc \in {"copy", "send"} => cur \in Captured
    BY DEF Captured
  <2>5. (pc \in {"copy", "send"} =>
            capAge[cur] = Ring + 1 \/ capAge[cur] >= Need(Polls))'
    <3>. SUFFICES ASSUME pc \in {"copy", "send"}
                  PROVE  capAge'[cur] = Ring + 1 \/ capAge'[cur] >= Need(Polls)
      BY <2>1
    <3>1. capAge[cur] \in 0 .. Ring + 1
      OBVIOUS
    <3>. QED
      BY <1>0, <2>2, <2>4, <3>1
  <2>6. ASSUME NEW k \in Trigs, active[k]
        PROVE  capAge'[k] = Ring + 1 \/ capAge'[k] >= Waited(k)'
    <3>1. k \in Captured /\ capAge[k] \in 0 .. Ring + 1
      BY <2>6 DEF Captured
    <3>2. capAge[k] = Ring + 1 \/ capAge[k] >= Waited(k)
      BY <2>6
    <3>3. CASE sendbuf[k]
      BY <1>0, <2>1, <2>2, <3>1, <3>2, <3>3 DEF Waited
    <3>4. CASE ~sendbuf[k]
      <4>1. postdlycnt[k] \in Nat /\ postdlycnt[k] >= 1
        BY <2>6, <3>4, <1>0
      <4>2. Need(postdlycnt[k]) \in Nat /\ Need(postdlycnt[k] - 1) \in Nat
        BY <4>1, NeedGrows, NeedBefore
      <4>3. Waited(k)' <= Waited(k) + 1 /\ Waited(k) \in Nat /\ Waited(k)' \in Nat
        BY <2>1, <2>3, <3>4, <4>2 DEF Waited
      <4>. QED
        BY <2>2, <3>1, <3>2, <4>3
    <3>. QED
      BY <3>3, <3>4
  <2>. QED
    BY <2>1, <2>5, <2>6
<1>2. CASE Wake
  <2>1. /\ UNCHANGED <<active, sendbuf, postdlycnt, capAge>>
        /\ pc = "delay" /\ pc' = "check" /\ cur' = 1 /\ ticks >= DelayPts
    BY <1>2 DEF Wake, info, history
  <2>2. ASSUME NEW k \in Trigs, active[k]
        PROVE  capAge[k] = Ring + 1 \/ capAge[k] >= Waited(k)'
    <3>1. CASE sendbuf[k]
      BY <2>1, <2>2, <3>1 DEF Waited
    <3>2. CASE ~sendbuf[k]
      <4>1. postdlycnt[k] \in Nat /\ postdlycnt[k] >= 1 /\ k >= 1
        BY <2>2, <3>2, <1>0 DEF Trigs
      <4>2. /\ Need(postdlycnt[k] - 1) \in Nat
            /\ Need(postdlycnt[k]) = Need(postdlycnt[k] - 1) + DelayPts
        BY <4>1, NeedBefore
      <4>3. capAge[k] = Ring + 1 \/ capAge[k] >= Need(postdlycnt[k] - 1) + ticks
        BY <2>1, <2>2, <3>2 DEF Waited
      <4>4. Waited(k)' = Need(postdlycnt[k])
        BY <2>1, <3>2, <4>1 DEF Waited
      <4>5. capAge[k] \in Nat /\ ticks \in Nat
        OBVIOUS
      <4>. QED
        BY <2>1, <4>2, <4>3, <4>4, <4>5
    <3>. QED
      BY <3>1, <3>2
  <2>. QED
    BY <2>1, <2>2
<1>3. CASE SendSnapShotStats
  <2>1. /\ UNCHANGED <<active, sendbuf, postdlycnt, capAge>>
        /\ pc = "stats" /\ pc' = "delay" /\ ticks' = 0
    BY <1>3 DEF SendSnapShotStats, info, history
  <2>2. ASSUME NEW k \in Trigs, active[k]
        PROVE  capAge[k] = Ring + 1 \/ capAge[k] >= Waited(k)'
    <3>1. CASE sendbuf[k]
      BY <2>1, <2>2, <3>1 DEF Waited
    <3>2. CASE ~sendbuf[k]
      <4>1. postdlycnt[k] \in Nat /\ postdlycnt[k] >= 1
        BY <2>2, <3>2, <1>0
      <4>2. Need(postdlycnt[k] - 1) \in Nat
        BY <4>1, NeedBefore
      <4>. QED
        BY <2>1, <2>2, <3>2, <4>2 DEF Waited
    <3>. QED
      BY <3>1, <3>2
  <2>. QED
    BY <2>1, <2>2
<1>4. ASSUME NEW k \in Trigs, CheckTrigger(k)
      PROVE  WaitOK'
  <2>1. /\ pc = "check" /\ cur = k
        /\ \/ k < NTrig /\ pc' = "check" /\ cur' = k + 1
           \/ ~(k < NTrig) /\ pc' = "scan" /\ cur' = 1
    BY <1>4 DEF CheckTrigger
  <2>2. \A j \in Trigs : j # k =>
          /\ active'[j] = active[j] /\ sendbuf'[j] = sendbuf[j]
          /\ postdlycnt'[j] = postdlycnt[j] /\ capAge'[j] = capAge[j]
    BY <1>4 DEF CheckTrigger, history
  <2>3. ASSUME NEW j \in Trigs, j # k, active'[j]
        PROVE  /\ ~sendbuf'[j] => postdlycnt'[j] >= 1
               /\ capAge'[j] = Ring + 1 \/ capAge'[j] >= Waited(j)'
    <3>1. /\ active[j] /\ j \in Int /\ k \in Int
          /\ j <= NTrig /\ k <= NTrig /\ NTrig \in Int
      BY <2>2, <2>3 DEF Trigs
    <3>2. (pc' = "check" /\ cur' <= j) <=> (pc = "check" /\ cur <= j)
      BY <2>1, <2>3, <3>1
    <3>3. pc # "delay" /\ pc' # "delay"
      BY <2>1
    <3>4. Waited(j)' = Waited(j)
      BY <2>2, <2>3, <3>2, <3>3 DEF Waited
    <3>. QED
      BY <2>2, <2>3, <3>1, <3>4
  <2>4. ASSUME active'[k]
        PROVE  /\ ~sendbuf'[k] => postdlycnt'[k] >= 1
               /\ capAge'[k] = Ring + 1 \/ capAge'[k] >= Waited(k)'
    <3>1. active[k] \/ Begins(k)
      BY <1>4, <2>4 DEF CheckTrigger
    <3>2. (sendbuf[k] \/ ((active[k] \/ Begins(k)) /\ WaitOver(k))) \in BOOLEAN
      BY DEF Begins, WaitOver
    <3>3. sendbuf'[k] = (sendbuf[k] \/ ((active[k] \/ Begins(k)) /\ WaitOver(k)))
      BY <1>4, <3>2, Zenon DEF CheckTrigger
    <3>4. PollCount(k) \in 0 .. Polls
      BY <1>0 DEF PollCount
    <3>5. postdlycnt'[k] = IF PollCount(k) < Polls THEN PollCount(k) + 1
                                                   ELSE PollCount(k)
      BY <1>4, <3>1 DEF CheckTrigger
    <3>6. /\ capAge'[k] \in Nat
          /\ \/ sendbuf[k] /\ (capAge'[k] = Ring + 1 \/ capAge'[k] >= Need(Polls))
             \/ ~sendbuf[k] /\ (capAge'[k] = Ring + 1 \/ capAge'[k] >= Need(PollCount(k)))
      <4>1. CASE Begins(k)
        <5>1. PollCount(k) = 0 /\ capAge'[k] = age[k] /\ ~active[k]
          BY <1>4, <4>1 DEF CheckTrigger, PollCount, Begins
        <5>2. ~sendbuf[k] /\ age[k] \in Nat /\ Need(0) = 0
          BY <5>1, NeedGrows DEF CaptureOK
        <5>. QED
          BY <5>1, <5>2
      <4>2. CASE ~Begins(k)
        <5>1. PollCount(k) = postdlycnt[k] /\ capAge'[k] = capAge[k] /\ active[k]
          BY <1>4, <3>1, <4>2 DEF CheckTrigger, PollCount, history
        <5>2. capAge[k] \in Nat /\ k \in Int
          BY DEF Trigs
        <5>3. Waited(k) = IF sendbuf[k] THEN Need(Polls) ELSE Need(postdlycnt[k])
          BY <2>1, <5>2 DEF Waited
        <5>. QED
          BY <5>1, <5>2, <5>3
      <4>. QED
        BY <4>1, <4>2
    <3>7. CASE sendbuf'[k]
      <4>1. Waited(k)' = Need(Polls)
        BY <3>7 DEF Waited
      <4>2. ~sendbuf[k] => PollCount(k) = Polls
        BY <1>0, <3>1, <3>3, <3>4, <3>7 DEF WaitOver
      <4>. QED
        BY <3>6, <3>7, <4>1, <4>2
    <3>8. CASE ~sendbuf'[k]
      <4>0. ~sendbuf[k] /\ ~WaitOver(k)
        BY <3>1, <3>3, <3>8, Zenon
      <4>1. ~sendbuf[k] /\ PollCount(k) < Polls
        BY <1>0, <3>4, <4>0 DEF WaitOver
      <4>2. postdlycnt'[k] = PollCount(k) + 1 /\ postdlycnt'[k] >= 1
            /\ postdlycnt'[k] - 1 = PollCount(k)
        BY <1>0, <3>4, <3>5, <4>1
      <4>3. ~(pc' = "check" /\ cur' <= k) /\ pc' # "delay"
        BY <2>1 DEF Trigs
      <4>4. Waited(k)' = Need(PollCount(k))
        BY <3>8, <4>2, <4>3 DEF Waited
      <4>. QED
        BY <3>6, <4>1, <4>2, <4>4
    <3>. QED
      BY <3>7, <3>8
  <2>. QED
    BY <2>1, <2>3, <2>4
<1>5. ASSUME NEW k \in Trigs, SendWfmData(k)
      PROVE  WaitOK'
  <2>1. UNCHANGED <<postdlycnt, ticks, capAge>> /\ pc = "scan" /\ cur = k
    BY <1>5 DEF SendWfmData, history
  <2>2. /\ pc' \in {"copy", "scan", "stats"}
        /\ \A j \in Trigs : active'[j] => active[j] /\ sendbuf'[j] = sendbuf[j]
        /\ pc' = "copy" => sendbuf[k] /\ cur' = k
    <3>1. CASE sendbuf[k]
      BY <1>5, <3>1 DEF SendWfmData
    <3>2. CASE ~sendbuf[k]
      BY <1>5, <3>2 DEF SendWfmData
    <3>. QED
      BY <3>1, <3>2
  <2>3. \A j \in Trigs : active'[j] => Waited(j)' = Waited(j)
    BY <2>1, <2>2 DEF Waited
  <2>4. pc' = "copy" => capAge[k] = Ring + 1 \/ capAge[k] >= Need(Polls)
    BY <2>2 DEF CaptureOK, Waited
  <2>. QED
    BY <2>1, <2>2, <2>3, <2>4
<1>6. ASSUME NEW k \in Trigs, CopyDataChan(k)
      PROVE  WaitOK'
  <2>1. /\ UNCHANGED <<active, sendbuf, postdlycnt, capAge, cur>>
        /\ pc = "copy" /\ pc' \in {"copy", "send"}
    BY <1>6 DEF CopyDataChan, info, history
  <2>2. \A j \in Trigs : Waited(j)' = Waited(j)
    BY <2>1 DEF Waited
  <2>. QED
    BY <2>1, <2>2
<1>7. ASSUME NEW k \in Trigs, Send(k)
      PROVE  WaitOK'
  <2>1. /\ UNCHANGED <<active, sendbuf, postdlycnt>>
        /\ pc = "send" /\ pc' \in {"scan", "stats"} /\ cur = k
        /\ \A j \in Trigs : j # k => capAge'[j] = capAge[j]
    BY <1>7 DEF Send, info
  <2>2. \A j \in Trigs : Waited(j)' = Waited(j)
    BY <2>1 DEF Waited
  <2>3. ~active[k]
    BY <2>1 DEF CaptureOK
  <2>. QED
    BY <2>1, <2>2, <2>3
<1>8. CASE UNCHANGED <<active, sendbuf, postdlycnt, capAge, pc, cur, ticks>>
  BY <1>8 DEF Waited
<1>. QED
  BY <1>1, <1>2, <1>3, <1>4, <1>5, <1>6, <1>7, <1>8
     DEF Next, Hardware, Software, StartBurst, Raise, Lower, vars, info, daemon,
         history

\* The samples the polls leave time for: no more than the window has, and no
\* more than are written meanwhile.
LEMMA DueRange == Due \in 0 .. Post /\ Due <= Need(Polls) /\ Need(Polls) \in Nat
<1>1. Polls * DelayPts \in Nat /\ DelayPts * Polls = Polls * DelayPts
  BY PollsAreNatural
<1>. QED
  BY <1>1 DEF Due, Need

\* ReadDMABuf in terms of its segments.
LEMMA SegmentsOf ==
  ASSUME NEW a \in Slots
  PROVE  ReadDMABuf(a) = IF Crosses(a)
                         THEN <<Segment1(a), Segment2(a), Segment3(a)>>
                         ELSE <<Segment1(a)>>
BY DEF ReadDMABuf, Crosses, Segment1, Segment2, Segment3, Slots

\* The segments are as long as the window, and entry i of the waveform is
\* copied from the slot of sample Expected(a, i), which was in the ring at the
\* trigger or is promised to have been written since.
LEMMA SegmentSlots ==
  ASSUME NEW a \in Slots, NEW n \in Nat, NEW s,
         \/ n = 0 /\ s = Segment1(a)
         \/ Crosses(a) /\ n = Segment1(a).len /\ s = Segment2(a)
         \/ Crosses(a) /\ n = Segment1(a).len + Segment2(a).len /\ s = Segment3(a)
  PROVE  /\ s.len \in Nat /\ s.from \in Int
         /\ \A j \in 1 .. s.len :
              LET x == s.from + j - 1
                  o == Expected(a, n + j)
              IN  /\ x \in Slots /\ o \in Int /\ o >= -Pre - 1
                  /\ \/ x = a + o
                     \/ x = a + o + Ring + 1 /\ a < Pre
                     \/ x = a + o - (Ring + 1)
                  /\ Promised(a, n + j) => o < Due
<1>0. Due \in 0 .. Post
  BY DueRange
<1>. USE DEF Segment1, Segment2, Segment3, Segment, Expected, Crosses, Promised, Slots
<1>1. CASE n = 0 /\ s = Segment1(a)
  BY <1>0, <1>1
<1>2. CASE Crosses(a) /\ n = Segment1(a).len /\ s = Segment2(a)
  BY <1>0, <1>2
<1>3. CASE Crosses(a) /\ n = Segment1(a).len + Segment2(a).len /\ s = Segment3(a)
  BY <1>0, <1>3
<1>. QED
  BY <1>1, <1>2, <1>3

\* A crossing window is as long as its three segments, any other as its first.
LEMMA SegmentLengths ==
  ASSUME NEW a \in Slots
  PROVE  /\ Segment1(a).len \in Nat
         /\ Crosses(a) => /\ Segment2(a).len \in Nat /\ Segment3(a).len \in Nat
                          /\ Segment1(a).len + Segment2(a).len + Segment3(a).len
                                = Pre + Post
         /\ ~Crosses(a) => Segment1(a).len = Pre + Post
BY DEF Segment1, Segment2, Segment3, Segment, Crosses, Slots

\* A slot of the window holds the sample it is read for: the writer has passed
\* it since the trigger and has not come round to it again.
LEMMA SlotHolds ==
  ASSUME TypeOK, NEW a \in Slots, NEW g \in 0 .. Ring, LiesBack(a, g), Filled(a),
         Due <= g, g < Ring - Pre,
         NEW x \in Slots, NEW o \in Int, o >= -Pre - 1, o < Due,
         \/ x = a + o
         \/ x = a + o + Ring + 1 /\ a < Pre
         \/ x = a + o - (Ring + 1)
  PROVE  /\ x # addr_base
         /\ lap \/ x < addr_base
         /\ g - 1 - Behind(x) = o
<1>1. addr_base \in 0 .. Ring
  BY DEF TypeOK, Slots
<1>2. lap \/ a >= Pre
  BY DEF Filled
<1>3. o < g
  BY DueRange
<1>. QED
  BY <1>1, <1>2, <1>3 DEF LiesBack, Behind, Slots

\* What appending n entries does to a waveform.
LEMMA Appended ==
  ASSUME NEW s \in Seq(Int), NEW n \in Nat, NEW f \in [1 .. n -> Int]
  PROVE  /\ s \o f \in Seq(Int)
         /\ Len(s \o f) = Len(s) + n
         /\ \A i \in 1 .. Len(s) : (s \o f)[i] = s[i]
         /\ \A j \in 1 .. n : (s \o f)[Len(s) + j] = f[j]
<1>1. f \in Seq(Int) /\ Len(f) = n /\ Len(s) \in Nat
  BY LenProperties
<1>2. /\ s \o f \in Seq(Int) /\ Len(s \o f) = Len(s) + Len(f)
      /\ \A i \in 1 .. Len(s) + Len(f) :
            (s \o f)[i] = IF i <= Len(s) THEN s[i] ELSE f[i - Len(s)]
  BY <1>1, ConcatProperties
<1>3. ASSUME NEW j \in 1 .. n
      PROVE  (s \o f)[Len(s) + j] = f[j]
  <2>1. /\ Len(s) + j \in 1 .. Len(s) + n /\ ~(Len(s) + j <= Len(s))
        /\ (Len(s) + j) - Len(s) = j
    BY <1>1
  <2>. QED
    BY <1>1, <1>2, <2>1
<1>4. ASSUME NEW i \in 1 .. Len(s)
      PROVE  (s \o f)[i] = s[i]
  <2>1. i \in 1 .. Len(s) + n /\ i <= Len(s)
    BY <1>1
  <2>. QED
    BY <1>1, <1>2, <2>1
<1>. QED
  BY <1>1, <1>2, <1>3, <1>4

\* One segment is copied: the entries it adds are the samples expected there.
LEMMA SegmentCopied ==
  ASSUME TypeOK, CaptureOK, WaitOK, CopyOK,
         NEW k \in Trigs, CopyDataChan(k), capPrimed[k]
  PROVE  CopyOK'
<1>. DEFINE a == addr[k]
            s == Head(segs)
            n == Len(out)
            cell(x) == IF \/ bursting /\ x = addr_base
                          \/ ~lap /\ x >= addr_base
                       THEN Garbage ELSE Offset(k, x)
            f == [i \in 1 .. s.len |-> cell(s.from + i - 1)]
<1>1. /\ pc = "copy" /\ cur = k /\ cur' = k /\ addr' = addr
      /\ capAge' = capAge /\ capPrimed' = capPrimed
      /\ segs' = Tail(segs) /\ out' = out \o f
      /\ pc' = IF Len(segs) = 1 THEN "send" ELSE "copy"
  BY DEF CopyDataChan, info, history
<1>2. out \in Seq(Int) /\ n \in Nat /\ Stage(a)
  BY <1>1 DEF CopyOK
<1>3. k \in Captured /\ a \in Slots /\ Filled(a)
  BY <1>1 DEF Captured, CaptureOK, Filled
<1>4. /\ \/ n = 0 /\ s = Segment1(a)
         \/ Crosses(a) /\ n = Segment1(a).len /\ s = Segment2(a)
         \/ Crosses(a) /\ n = Segment1(a).len + Segment2(a).len /\ s = Segment3(a)
      /\ (n + s.len = Len(out') => Stage(a)')
  <2>. HIDE DEF f, a
  <2>0. a \in Slots /\ a' = a
    BY <1>1, <1>3 DEF a
  <2>1. CASE n = 0 /\ segs = ReadDMABuf(a) /\ Crosses(a)
    <3>1. segs = <<Segment1(a), Segment2(a), Segment3(a)>>
      BY <2>1, <2>0, SegmentsOf
    <3>2. Len(segs) = 3 /\ s = Segment1(a) /\ Tail(segs) = <<Segment2(a), Segment3(a)>>
      BY <3>1
    <3>3. n + s.len = Segment1(a).len
      BY <2>1, <3>2, <2>0, SegmentLengths
    <3>. QED
      BY <1>1, <2>0, <2>1, <3>2, <3>3 DEF Stage, Crosses, Segment1, Segment2, Segment3
  <2>2. CASE n = 0 /\ segs = ReadDMABuf(a) /\ ~Crosses(a)
    <3>1. segs = <<Segment1(a)>>
      BY <2>2, <2>0, SegmentsOf
    <3>2. Len(segs) = 1 /\ s = Segment1(a)
      BY <3>1
    <3>3. n + s.len = Pre + Post
      BY <2>2, <3>2, <2>0, SegmentLengths
    <3>. QED
      BY <1>1, <2>0, <2>2, <3>2, <3>3 DEF Stage
  <2>3. CASE /\ Crosses(a) /\ n = Segment1(a).len
             /\ segs = <<Segment2(a), Segment3(a)>>
    <3>2. Len(segs) = 2 /\ s = Segment2(a) /\ Tail(segs) = <<Segment3(a)>>
      BY <2>3
    <3>. QED
      BY <1>1, <2>0, <2>3, <3>2 DEF Stage, Crosses, Segment1, Segment2, Segment3
  <2>4. CASE /\ Crosses(a) /\ n = Segment1(a).len + Segment2(a).len
             /\ segs = <<Segment3(a)>>
    <3>2. Len(segs) = 1 /\ s = Segment3(a)
      BY <2>4
    <3>3. n + s.len = Pre + Post
      BY <2>4, <3>2, <2>0, SegmentLengths
    <3>. QED
      BY <1>1, <2>0, <2>4, <3>2, <3>3 DEF Stage
  <2>. QED
    BY <1>1, <1>2, <2>1, <2>2, <2>3, <2>4 DEF Stage
<1>5. /\ s.len \in Nat /\ s.from \in Int
      /\ \A j \in 1 .. s.len :
            /\ s.from + j - 1 \in Slots
            /\ Expected(a, n + j) \in Int /\ Expected(a, n + j) >= -Pre - 1
            /\ \/ s.from + j - 1 = a + Expected(a, n + j)
               \/ s.from + j - 1 = a + Expected(a, n + j) + Ring + 1 /\ a < Pre
               \/ s.from + j - 1 = a + Expected(a, n + j) - (Ring + 1)
            /\ Promised(a, n + j) => Expected(a, n + j) < Due
  <2>1. \/ n = 0 /\ s = Segment1(a)
        \/ Crosses(a) /\ n = Segment1(a).len /\ s = Segment2(a)
        \/ Crosses(a) /\ n = Segment1(a).len + Segment2(a).len /\ s = Segment3(a)
    BY <1>4
  <2>2. n \in Nat /\ a \in Slots
    BY <1>2, <1>3
  <2>. HIDE DEF a, n, s
  <2>. QED
    BY <2>1, <2>2, SegmentSlots
<1>6. capAge[k] \in 0 .. Ring + 1 /\ addr_base \in 0 .. Ring
  BY DEF TypeOK, Slots
<1>7. f \in [1 .. s.len -> Int]
  <2>1. ASSUME NEW x \in Int
        PROVE  cell(x) \in Int
    BY <1>6 DEF Garbage, Offset, Behind
  <2>2. s.len \in Nat /\ s.from \in Int
    BY <1>5
  <2>3. \A i \in 1 .. s.len : s.from + i - 1 \in Int
    BY <2>2
  <2>. HIDE DEF cell, s
  <2>4. \A i \in 1 .. s.len : cell(s.from + i - 1) \in Int
    BY <2>1, <2>3
  <2>. QED
    BY <2>4
<1>8. /\ out' \in Seq(Int) /\ Len(out') = n + s.len
      /\ \A i \in 1 .. n : out'[i] = out[i]
      /\ \A j \in 1 .. s.len : out'[n + j] = f[j]
  <2>1. out' = out \o f /\ out \in Seq(Int) /\ s.len \in Nat
    BY <1>1, <1>2, <1>5
  <2>. HIDE DEF f, s
  <2>2. /\ out \o f \in Seq(Int) /\ Len(out \o f) = Len(out) + s.len
        /\ \A i \in 1 .. Len(out) : (out \o f)[i] = out[i]
        /\ \A j \in 1 .. s.len : (out \o f)[Len(out) + j] = f[j]
    BY <2>1, <1>7, Appended
  <2>. QED
    BY <2>1, <2>2, Zenon
<1>9. ASSUME capAge[k] < Ring - Pre,
             NEW i \in 1 .. Len(out'), Promised(a, i)
      PROVE  out'[i] = Expected(a, i)
  <2>1. CASE i <= n
    <3>1. i \in 1 .. n
      BY <1>2, <1>8, <2>1
    <3>. QED
      BY <1>1, <1>8, <1>9, <3>1 DEF CopyOK
  <2>2. CASE ~(i <= n)
    <3>. DEFINE j == i - n
                x == s.from + j - 1
                o == Expected(a, n + j)
    <3>. HIDE DEF s, n, a
    <3>1. j \in 1 .. s.len /\ n + j = i
      BY <1>2, <1>5, <1>8, <2>2
    <3>2. /\ x \in Slots /\ o \in Int /\ o >= -Pre - 1 /\ o < Due
          /\ \/ x = a + o
             \/ x = a + o + Ring + 1 /\ a < Pre
             \/ x = a + o - (Ring + 1)
      <4>. HIDE DEF j
      <4>. QED
        BY <1>5, <1>9, <3>1
    <3>3. capAge[k] \in 0 .. Ring /\ LiesBack(a, capAge[k])
      BY <1>3, <1>6, <1>9 DEF CaptureOK, a
    <3>4. Due <= capAge[k]
      <4>1. capAge[k] >= Need(Polls)
        BY <1>1, <1>6, <1>9 DEF WaitOK
      <4>. QED
        BY <1>6, <4>1, DueRange
    <3>5. x # addr_base /\ (lap \/ x < addr_base) /\ capAge[k] - 1 - Behind(x) = o
      <4>. HIDE DEF x, o
      <4>. QED
        BY <1>3, <1>9, <3>2, <3>3, <3>4, SlotHolds
    <3>6. f[j] = cell(x)
      BY <3>1
    <3>7. cell(x) = Offset(k, x)
      <4>. HIDE DEF x
      <4>. QED
        BY <1>6, <3>2, <3>5 DEF Slots
    <3>8. out'[i] = f[j]
      BY <1>8, <3>1
    <3>. HIDE DEF x, f, cell
    <3>. QED
      BY <3>1, <3>5, <3>6, <3>7, <3>8 DEF Offset
  <2>. QED
    BY <2>1, <2>2
<1>10. Stage(a)'
  BY <1>4, <1>8
<1>. HIDE DEF f, s, n, cell
<1>. QED
  BY <1>1, <1>8, <1>9, <1>10 DEF CopyOK

\* The copy makes progress by whole segments and stays exact.
LEMMA CopyInductive ==
  ASSUME TypeOK, CaptureOK, WaitOK, CopyOK, [Next]_vars
  PROVE  CopyOK'
<1>1. CASE FinishBurst
  <2>1. UNCHANGED <<addr, pc, cur, segs, out, capPrimed>>
    BY <1>1 DEF FinishBurst, info, daemon
  <2>2. pc \in {"copy", "send"} => capAge[cur] <= capAge'[cur]
    BY <1>1 DEF FinishBurst, Older, TypeOK
  <2>3. capAge[cur] \in Int /\ capAge'[cur] \in Int
    BY <1>1, OlderType DEF FinishBurst, TypeOK
  <2>. QED
    BY <2>1, <2>2, <2>3 DEF CopyOK, Stage
<1>2. ASSUME NEW k \in Trigs, CopyDataChan(k)
      PROVE  CopyOK'
  <2>1. CASE capPrimed[k]
    BY <1>2, <2>1, SegmentCopied
  <2>2. CASE ~capPrimed[k]
    BY <1>2, <2>2 DEF CopyDataChan, CopyOK, history
  <2>. QED
    BY <2>1, <2>2
<1>3. ASSUME NEW k \in Trigs, SendWfmData(k)
      PROVE  CopyOK'
  <2>1. CASE sendbuf[k]
    <3>1. /\ pc' = "copy" /\ cur' = k /\ out' = <<>> /\ addr' = addr
          /\ segs' = ReadDMABuf(addr[k])
      BY <1>3, <2>1 DEF SendWfmData
    <3>2. Len(out') = 0 /\ out' \in Seq(Int)
      BY <3>1
    <3>3. Stage(addr[cur])'
      BY <3>1, <3>2 DEF Stage, ReadDMABuf
    <3>. QED
      BY <3>2, <3>3 DEF CopyOK
  <2>2. CASE ~sendbuf[k]
    BY <1>3, <2>2 DEF SendWfmData, CopyOK
  <2>. QED
    BY <2>1, <2>2
<1>4. CASE pc' \notin {"copy", "send"}
  BY <1>4 DEF CopyOK
<1>5. CASE UNCHANGED <<addr, pc, cur, segs, out, capPrimed, capAge>>
  BY <1>5 DEF CopyOK, Stage
<1>. QED
  BY <1>1, <1>2, <1>3, <1>4, <1>5
     DEF Next, Hardware, Software, StartBurst, Raise, Lower, Wake, CheckTrigger,
         Send, SendSnapShotStats, vars, info, daemon, history

\* Latched and captured triggers stand for the slots they name, and every
\* captured one waits for its polls, in every behaviour.
THEOREM CaptureInvariance ==
  Spec => [](TypeOK /\ WriterOK /\ LatchOK /\ CaptureOK /\ WaitOK)
<1>1. Init => WriterOK /\ LatchOK /\ CaptureOK /\ WaitOK
  BY DEF Init, WriterOK, LatchOK, CaptureOK, WaitOK, Captured, Null
<1>2. TypeOK /\ WriterOK /\ [Next]_vars => WriterOK'
  BY WriterInductive
<1>3. TypeOK /\ WriterOK /\ LatchOK /\ [Next]_vars => LatchOK'
  BY LatchInductive
<1>4. TypeOK /\ FreshOK /\ LatchOK /\ CaptureOK /\ [Next]_vars => CaptureOK'
  BY CaptureInductive
<1>5. TypeOK /\ CaptureOK /\ WaitOK /\ [Next]_vars => WaitOK'
  BY WaitInductive
<1>. QED
  BY <1>1, <1>2, <1>3, <1>4, <1>5, FreshInvariance, PTL DEF Spec

\* A waveform is read no earlier than posttrigpts/1000 delays after its trigger
\* was noticed, however long the daemon, its copies and its clients take.
THEOREM WaitsForPolls == Spec => []WaitsAllPolls
<1>1. WaitOK => WaitsAllPolls
  BY DEF WaitOK, WaitsAllPolls, Need
<1>. QED
  BY <1>1, CaptureInvariance, PTL

\* Two entries as far apart as their samples, or one sample less where the last
\* slot of the ring is skipped between them.
LEMMA ExpectedSpacing ==
  ASSUME NEW a \in Slots, NEW i \in 1 .. Pre + Post, NEW j \in 1 .. Pre + Post,
         i < j
  PROVE  Expected(a, j) - Expected(a, i) \in {j - i, j - i + 1}
BY DEF Expected, Slots

\* A waveform that was copied before the writer came round to it holds the
\* window around its trigger, as far as the polls left time to write it: for
\* every ring, window, number of triggers, ratio of the delay to the divisor of
\* posttrigpts, and interleaving of writer, latches and daemon.
THEOREM ExactWindows == Spec => []WindowExact
<1>1. Init => CopyOK
  BY DEF Init, CopyOK
<1>2. TypeOK /\ CaptureOK /\ WaitOK /\ CopyOK /\ [Next]_vars => CopyOK'
  BY CopyInductive
<1>3. ASSUME TypeOK, CaptureOK, CopyOK, pc = "send", Valid
      PROVE  /\ Len(out) = Pre + Post
             /\ ~Crosses(addr[cur]) =>
                   \A i \in 1 .. Pre + Due : out[i] = i - 1 - Pre
             /\ \A i, j \in 1 .. Pre + Due - 1 :
                   i < j => out[j] - out[i] \in {j - i, j - i + 1}
  <2>. DEFINE a == addr[cur]
  <2>1. cur \in Captured /\ a \in Slots
    BY <1>3 DEF TypeOK, Captured, CaptureOK, Filled, Valid
  <2>2. Len(out) = Pre + Post
    BY <1>3 DEF CopyOK, Stage, Valid
  <2>3. \A i \in 1 .. Pre + Post : Promised(a, i) => out[i] = Expected(a, i)
    BY <1>3, <2>2 DEF CopyOK, Valid
  <2>. HIDE DEF a
  <2>4. ASSUME ~Crosses(a), NEW i \in 1 .. Pre + Due
        PROVE  out[i] = i - 1 - Pre
    <3>1. out[i] = Expected(a, i)
      BY <2>3, <2>4, DueRange DEF Promised
    <3>. QED
      BY <2>1, <2>4, <3>1, DueRange DEF Expected, Crosses, Slots
  <2>5. ASSUME NEW i \in 1 .. Pre + Due - 1, NEW j \in 1 .. Pre + Due - 1, i < j
        PROVE  out[j] - out[i] \in {j - i, j - i + 1}
    <3>1. /\ i \in 1 .. Pre + Post /\ j \in 1 .. Pre + Post
          /\ i < Pre + Due /\ j < Pre + Due
      BY DueRange
    <3>2. out[i] = Expected(a, i) /\ out[j] = Expected(a, j)
      BY <2>3, <3>1 DEF Promised
    <3>. QED
      BY <2>1, <2>5, <3>1, <3>2, ExpectedSpacing
  <2>. QED
    BY <2>2, <2>4, <2>5 DEF a
<1>4. TypeOK /\ CaptureOK /\ CopyOK => WindowExact
  BY <1>3 DEF WindowExact
<1>. QED
  BY <1>1, <1>2, <1>4, CaptureInvariance, PTL DEF Spec
=============================================================================
