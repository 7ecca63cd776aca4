-------------------------- MODULE RampTableProofs --------------------------
(***************************************************************************)
(* Proofs about RampTable for any table size, word width, limit of the     *)
(* saturation check and number of clients.                                 *)
(*                                                                         *)
(* What a load leaves depends on who else wrote the shared registers, so   *)
(* the invariant says what a load that met nobody has stored so far        *)
(* (LoadOK), and what a run has played of the table in place (PlayOK).     *)
(***************************************************************************)
EXTENDS RampTable, SequenceTheorems, TLAPS

USE RampTableAssumption DEF board

-----------------------------------------------------------------------------
(* The registers                                                           *)

\* The remainder lies below the divisor, and is its argument if that does.
LEMMA Remainder ==
  ASSUME NEW x \in Int, NEW n \in Nat \ {0}
  PROVE  /\ x % n \in 0 .. n - 1
         /\ x \in 0 .. n - 1 => x % n = x
OBVIOUS

\* The data register holds a word, and a point within its range as it is.
LEMMA RegisterKeeps ==
  ASSUME TypeOK, NEW v \in Int
  PROVE  /\ Register(Saturated(v)) \in Words
         /\ InRange(v) => Register(Saturated(v)) = v
<1>1. limit \in Nat
  BY DEF TypeOK
<1>2. Saturated(v) \in Int /\ (InRange(v) => Saturated(v) = v)
  BY <1>1 DEF Saturated, InRange
<1>3. \A x \in Int : Register(x) \in Words
  <2>. TAKE x \in Int
  <2>1. 2 * Half \in Nat \ {0} /\ x + Half \in Int
    OBVIOUS
  <2>2. (x + Half) % (2 * Half) \in 0 .. 2 * Half - 1
    BY <2>1, Remainder
  <2>. QED
    BY <2>2 DEF Register, Words
<1>4. InRange(v) => Register(v) = v
  <2>. SUFFICES ASSUME InRange(v) PROVE Register(v) = v
    OBVIOUS
  <2>1. PICK n \in Nat \ {0} : n = 2 * Half
    OBVIOUS
  <2>2. PICK x \in Int : x = v + Half /\ x \in 0 .. n - 1
    BY <2>1 DEF InRange, Words
  <2>3. x % n = x
    BY <2>2, Remainder
  <2>. QED
    BY <2>1, <2>2, <2>3 DEF Register
<1>. QED
  BY <1>2, <1>3, <1>4

\* The resolution of a board does not change.
LEMMA LimitFixed ==
  ASSUME [Next]_vars PROVE limit' = limit
BY DEF Next, Step, Commands, write_ramptable, WriteAddr, WriteData, Return,
   SetLength, Set_dacOpmode, RunRamp, FirstWord, Tick, vars

\* The next address is an address, and the next one below the last.
LEMMA NextAddrIs ==
  ASSUME TypeOK
  PROVE  /\ NextAddr \in Addrs
         /\ dac_rdaddr < LastAddr => NextAddr = dac_rdaddr + 1
<1>1. PICK n \in Nat \ {0} : n = LastAddr + 1
  OBVIOUS
<1>2. PICK x \in Int : x = dac_rdaddr + 1 /\ x > 0
  BY DEF TypeOK, Addrs
<1>3. x % n \in 0 .. n - 1 /\ (x \in 0 .. n - 1 => x % n = x)
  BY Remainder
<1>4. NextAddr = x % n
  BY <1>1, <1>2 DEF NextAddr
<1>. QED
  BY <1>1, <1>2, <1>3, <1>4 DEF Addrs, TypeOK

-----------------------------------------------------------------------------
(* The inductive invariant                                                 *)

\* Each load is somewhere in its table.  One that met nobody is the only one,
\* its length and its address are in force, and its points so far are stored.
LoadOK ==
    \A t \in Threads :
        /\ pc[t] # "idle" => /\ i[t] <= Len(points[t]) /\ Len(points[t]) <= Depth
                             /\ pc[t] = "data" => i[t] < Len(points[t])
        /\ alone[t] =>
              /\ pc[t] # "idle" /\ \A u \in Threads : pc[u] # "idle" => u = t
              /\ ramplen = Len(points[t])
              /\ pc[t] = "data" => rampaddr = i[t]
              /\ \A k \in 1 .. i[t] :
                    InRange(points[t][k]) => table[k - 1] = points[t][k]

\* While a table is in place nobody loads one.
PlaceOK == loaded # None => /\ Len(loaded) <= Depth
                            /\ \A t \in Threads : pc[t] = "idle"

\* An idle player has been reset, the memory is late at the first address only,
\* and the output is the last point played.
PlayOK ==
    /\ state = "IDLE" => dac_rdaddr = 0 /\ since = 0 /\ ~lag
    /\ state = "IDLE" \/ loaded = None => played = <<>>
    /\ lag => dac_rdaddr = 0
    /\ played # <<>> => ramp_dac_setpt = played[Len(played)]

IInv == TypeOK /\ LoadOK /\ PlaceOK /\ PlayOK /\ LoneLoadSticks /\ RunPlaysTable

-----------------------------------------------------------------------------
\* The types of the player and of its history.
PlayerTypeOK ==
    /\ state \in {"IDLE", "RUN_RAMP"} /\ dac_rdaddr \in Addrs
    /\ dac_rddata \in Words /\ lag \in BOOLEAN /\ ramp_dac_setpt \in Words
    /\ played \in Seq(Words) /\ since \in Addrs /\ late \in BOOLEAN

\* Every action keeps the types.
LEMMA TypeInductive ==
  ASSUME IInv, [Next]_vars
  PROVE  TypeOK'
<1>. USE DEF IInv, TypeOK
<1>1. ASSUME NEW t \in Threads, NEW s \in Tables, write_ramptable(t, s)
      PROVE  TypeOK'
  <2>1. s \in Seq(Int) /\ Len(s) \in Addrs
    BY <1>1 DEF write_ramptable, Addrs
  <2>2. ramplen' \in Addrs /\ points' \in [Threads -> Seq(Int)]
    BY <1>1, <2>1 DEF write_ramptable
  <2>3. /\ pc' \in [Threads -> {"idle", "addr", "data"}]
        /\ i' \in [Threads -> 0 .. Depth]
        /\ alone' \in [Threads -> BOOLEAN]
    BY <1>1 DEF write_ramptable
  <2>4. loaded' = None /\ played' \in Seq(Words) /\ since' \in Addrs
    BY <1>1 DEF write_ramptable, Addrs
  <2>. QED
    BY <1>1, <2>2, <2>3, <2>4 DEF write_ramptable, player
<1>2. ASSUME NEW t \in Threads, WriteAddr(t) PROVE TypeOK'
  <2>1. rampaddr' \in 0 .. Depth - 1
    <3>1. i[t] \in 0 .. Depth /\ points[t] \in Seq(Int)
      OBVIOUS
    <3>2. i[t] < Len(points[t]) /\ Len(points[t]) <= Depth
      BY <1>2 DEF WriteAddr, LoadOK
    <3>. QED
      BY <1>2, <3>1, <3>2 DEF WriteAddr
  <2>2. pc' \in [Threads -> {"idle", "addr", "data"}]
    BY <1>2 DEF WriteAddr
  <2>. QED
    BY <1>2, <2>1, <2>2 DEF WriteAddr, player, history
<1>3. ASSUME NEW t \in Threads, WriteData(t) PROVE TypeOK'
  <2>1. i[t] + 1 \in 1 .. Len(points[t]) /\ i[t] + 1 \in 0 .. Depth
    <3>1. i[t] \in 0 .. Depth /\ points[t] \in Seq(Int)
      OBVIOUS
    <3>2. i[t] < Len(points[t]) /\ Len(points[t]) <= Depth
      BY <1>3 DEF WriteData, LoadOK
    <3>. QED
      BY <3>1, <3>2
  <2>2. points[t][i[t] + 1] \in Int
    BY <2>1
  <2>3. Register(Saturated(points[t][i[t] + 1])) \in Words
    BY <2>2, RegisterKeeps
  <2>4. table' \in [0 .. Depth - 1 -> Words]
    BY <1>3, <2>3 DEF WriteData
  <2>5. /\ pc' \in [Threads -> {"idle", "addr", "data"}]
        /\ i' \in [Threads -> 0 .. Depth]
    BY <1>3, <2>1 DEF WriteData
  <2>. QED
    BY <1>3, <2>4, <2>5 DEF WriteData, player, history
<1>4. ASSUME NEW t \in Threads, Return(t) PROVE TypeOK'
  <2>1. /\ pc' \in [Threads -> {"idle", "addr", "data"}]
        /\ points' \in [Threads -> Seq(Int)] /\ i' \in [Threads -> 0 .. Depth]
        /\ alone' \in [Threads -> BOOLEAN]
    BY <1>4 DEF Return
  <2>2. /\ loaded' \in Seq(Int) \cup {None} /\ played' \in Seq(Words)
        /\ since' \in Addrs
    <3>1. CASE alone[t]
      BY <1>4, <3>1 DEF Return
    <3>2. CASE ~alone[t]
      BY <1>4, <3>2 DEF Return
    <3>. QED
      BY <3>1, <3>2
  <2>. QED
    BY <1>4, <2>1, <2>2 DEF Return, player
<1>5. ASSUME NEW n \in Lens, SetLength(n) PROVE TypeOK'
  <2>1. ramplen' \in Addrs
    <3>1. n \in Int /\ LastAddr + 1 \in Nat \ {0}
      OBVIOUS
    <3>2. n % (LastAddr + 1) \in 0 .. LastAddr
      BY <3>1, Remainder
    <3>. QED
      BY <1>5, <3>2 DEF SetLength, Addrs
  <2>2. loaded' \in Seq(Int) \cup {None}
    <3>1. ASSUME loaded \in Seq(Int), ramplen' <= Len(loaded)
          PROVE  SubSeq(loaded, 1, ramplen') \in Seq(Int)
      BY <2>1, <3>1 DEF Addrs
    <3>. QED
      BY <1>5, <3>1 DEF SetLength
  <2>3. played' \in Seq(Words) /\ since' \in Addrs /\ alone' \in [Threads -> BOOLEAN]
    BY <1>5 DEF SetLength
  <2>. QED
    BY <1>5, <2>1, <2>2, <2>3 DEF SetLength, player
<1>6. ASSUME NEW m \in {"ramp", "other"}, Set_dacOpmode(m) PROVE TypeOK'
  BY <1>6 DEF Set_dacOpmode, player, loaders, history
<1>7. CASE RunRamp
  BY <1>7 DEF RunRamp, loaders, history
<1>8. CASE FirstWord
  BY <1>8 DEF FirstWord, loaders, history
<1>9. CASE Tick
  <2>1. Answer \subseteq Words
    BY DEF Answer, Addrs
  <2>2. PlayerTypeOK'
    <3>. USE DEF PlayerTypeOK
    <3>1. CASE state = "IDLE"
      BY <1>9, <3>1 DEF Tick, RunPoint, player
    <3>2. ASSUME state = "RUN_RAMP", NEW w \in Answer, LastPoint(w) \/ NextPoint(w),
                 lag' = FALSE /\ late' = (state' = "RUN_RAMP" /\ (late \/ lag))
          PROVE  PlayerTypeOK'
      <4>1. w \in Words /\ NextAddr \in Addrs /\ 0 \in Addrs
        BY <2>1, <3>2, NextAddrIs DEF Addrs
      <4>2. lag' \in BOOLEAN /\ late' \in BOOLEAN
        BY <3>2
      <4>3. CASE LastPoint(w)
        BY <4>1, <4>2, <4>3 DEF LastPoint
      <4>4. CASE NextPoint(w)
        <5>1. played' \in Seq(Words)
          BY <4>1, <4>4 DEF NextPoint
        <5>. QED
          BY <4>1, <4>2, <4>4, <5>1, <3>2 DEF NextPoint
      <4>. QED
        BY <3>2, <4>3, <4>4
    <3>. QED
      BY <1>9, <3>1, <3>2 DEF Tick, RunPoint
  <2>3. dac_setpt_raw' \in Words \cup {None}
    BY <1>9 DEF Tick, RunPoint
  <2>. QED
    BY <1>9, <2>2, <2>3 DEF Tick, RunPoint, loaders, PlayerTypeOK
<1>10. CASE UNCHANGED vars
  BY <1>10 DEF vars, player, loaders, history
<1>. QED
  BY <1>1, <1>2, <1>3, <1>4, <1>5, <1>6, <1>7, <1>8, <1>9, <1>10
  DEF Next, Step, Commands

\* A load that met nobody has stored its points so far; whoever writes a shared
\* register during it ends that.
LEMMA LoadInductive ==
  ASSUME IInv, [Next]_vars
  PROVE  LoadOK'
<1>. limit' = limit
  BY LimitFixed
<1>. USE DEF IInv, TypeOK
<1>1. ASSUME NEW t \in Threads, NEW s \in Tables, write_ramptable(t, s)
      PROVE  LoadOK'
  <2>. SUFFICES ASSUME NEW u \in Threads
                PROVE  /\ pc'[u] # "idle" =>
                             /\ i'[u] <= Len(points'[u]) /\ Len(points'[u]) <= Depth
                             /\ pc'[u] = "data" => i'[u] < Len(points'[u])
                       /\ alone'[u] =>
                             /\ pc'[u] # "idle"
                             /\ \A v \in Threads : pc'[v] # "idle" => v = u
                             /\ ramplen' = Len(points'[u])
                             /\ pc'[u] = "data" => rampaddr' = i'[u]
                             /\ \A k \in 1 .. i'[u] :
                                   InRange(points'[u][k]) => table'[k - 1] = points'[u][k]
    BY DEF LoadOK, InRange
  <2>1. s \in Seq(Int) /\ Len(s) \in Nat /\ Len(s) <= Depth
    BY <1>1 DEF write_ramptable
  <2>2. /\ pc'[t] = "addr" /\ i'[t] = 0 /\ points'[t] = s /\ ramplen' = Len(s)
        /\ \A v \in Threads \ {t} :
              pc'[v] = pc[v] /\ i'[v] = i[v] /\ points'[v] = points[v] /\ ~alone'[v]
        /\ alone'[t] => Loading = {}
    BY <1>1 DEF write_ramptable
  <2>3. CASE u = t
    <3>1. alone'[t] => \A v \in Threads \ {t} : pc[v] = "idle"
      BY <2>2 DEF Loading
    <3>. QED
      BY <2>1, <2>2, <2>3, <3>1
  <2>4. CASE u # t
    BY <2>2, <2>4 DEF LoadOK
  <2>. QED
    BY <2>3, <2>4
<1>2. ASSUME NEW t \in Threads, WriteAddr(t) PROVE LoadOK'
  <2>1. /\ pc[t] = "addr" /\ pc'[t] = "data" /\ rampaddr' = i[t]
        /\ i[t] < Len(points[t])
        /\ \A v \in Threads \ {t} : pc'[v] = pc[v]
        /\ UNCHANGED <<ramplen, table, points, i, alone>>
    BY <1>2 DEF WriteAddr
  <2>2. \A v \in Threads : alone[v] => v = t
    BY <2>1 DEF LoadOK
  <2>. QED
    BY <2>1, <2>2 DEF LoadOK, InRange
<1>3. ASSUME NEW t \in Threads, WriteData(t) PROVE LoadOK'
  <2>1. /\ pc[t] = "data" /\ pc'[t] = "addr" /\ i'[t] = i[t] + 1
        /\ \A v \in Threads \ {t} : pc'[v] = pc[v] /\ i'[v] = i[v]
        /\ UNCHANGED <<ramplen, rampaddr, points, alone>>
    BY <1>3 DEF WriteData
  <2>2. i[t] \in Nat /\ points[t] \in Seq(Int) /\ i[t] < Len(points[t])
    BY <2>1 DEF LoadOK
  <2>3. \A v \in Threads : alone[v] => v = t
    BY <2>1 DEF LoadOK
  <2>4. ASSUME alone[t], NEW k \in 1 .. i[t] + 1, InRange(points[t][k])
        PROVE  table'[k - 1] = points[t][k]
    <3>1. rampaddr = i[t]
      BY <2>1, <2>4 DEF LoadOK
    <3>2. points[t][i[t] + 1] \in Int
      BY <2>2
    <3>3. table' = [table EXCEPT ![i[t]] = Register(Saturated(points[t][i[t] + 1]))]
      BY <1>3, <3>1 DEF WriteData
    <3>4. CASE k = i[t] + 1
      <4>1. Register(Saturated(points[t][i[t] + 1])) = points[t][k]
        BY <2>4, <3>2, <3>4, RegisterKeeps
      <4>2. k - 1 = i[t] /\ k - 1 \in 0 .. Depth - 1
        BY <3>1, <3>4, <2>2
      <4>. QED
        BY <3>3, <4>1, <4>2
    <3>5. CASE k # i[t] + 1
      <4>1. k \in 1 .. i[t]
        BY <3>5, <2>2
      <4>2. table[k - 1] = points[t][k]
        BY <4>1, <2>4 DEF LoadOK
      <4>3. k - 1 # i[t]
        BY <4>1, <2>2
      <4>4. k - 1 \in 0 .. Depth - 1
        BY <4>1, <2>2, <3>1
      <4>. QED
        BY <3>3, <4>2, <4>3, <4>4
    <3>. QED
      BY <3>4, <3>5
  <2>5. \A v \in Threads :
           /\ pc'[v] # "idle" => /\ i'[v] <= Len(points[v]) /\ Len(points[v]) <= Depth
                                 /\ pc'[v] = "data" => i'[v] < Len(points[v])
           /\ alone[v] => /\ pc'[v] # "idle"
                          /\ \A u \in Threads : pc'[u] # "idle" => u = v
                          /\ ramplen = Len(points[v])
                          /\ pc'[v] = "data" => rampaddr = i'[v]
    BY <2>1, <2>2, <2>3 DEF LoadOK
  <2>6. \A v \in Threads : alone[v] =>
           \A k \in 1 .. i'[v] : InRange(points[v][k]) => table'[k - 1] = points[v][k]
    BY <2>1, <2>3, <2>4
  <2>. QED
    BY <2>1, <2>5, <2>6 DEF LoadOK, InRange
<1>4. ASSUME NEW t \in Threads, Return(t) PROVE LoadOK'
  <2>1. /\ pc'[t] = "idle" /\ ~alone'[t]
        /\ \A v \in Threads \ {t} : /\ pc'[v] = pc[v] /\ i'[v] = i[v]
                                     /\ points'[v] = points[v] /\ alone'[v] = alone[v]
        /\ UNCHANGED <<ramplen, rampaddr, table>>
    BY <1>4 DEF Return
  <2>2. \A v \in Threads \ {t} :
           /\ pc[v] # "idle" => /\ i[v] <= Len(points[v]) /\ Len(points[v]) <= Depth
                                /\ pc[v] = "data" => i[v] < Len(points[v])
           /\ alone[v] => /\ pc[v] # "idle" /\ \A u \in Threads : pc[u] # "idle" => u = v
                          /\ ramplen = Len(points[v])
                          /\ pc[v] = "data" => rampaddr = i[v]
    BY DEF LoadOK
  <2>3. \A v \in Threads \ {t} : alone[v] =>
           \A k \in 1 .. i[v] : InRange(points[v][k]) => table[k - 1] = points[v][k]
    BY DEF LoadOK
  <2>. SUFFICES ASSUME NEW v \in Threads
                PROVE  /\ pc'[v] # "idle" =>
                             /\ i'[v] <= Len(points'[v]) /\ Len(points'[v]) <= Depth
                             /\ pc'[v] = "data" => i'[v] < Len(points'[v])
                       /\ alone'[v] =>
                             /\ pc'[v] # "idle"
                             /\ \A u \in Threads : pc'[u] # "idle" => u = v
                             /\ ramplen' = Len(points'[v])
                             /\ pc'[v] = "data" => rampaddr' = i'[v]
                             /\ \A k \in 1 .. i'[v] :
                                   InRange(points'[v][k]) => table'[k - 1] = points'[v][k]
    BY DEF LoadOK, InRange
  <2>4. CASE v = t
    BY <2>1, <2>4
  <2>5. CASE v # t
    <3>1. /\ pc'[v] = pc[v] /\ i'[v] = i[v] /\ points'[v] = points[v]
          /\ alone'[v] = alone[v]
      BY <2>1, <2>5
    <3>2. alone[v] => \A u \in Threads : pc'[u] # "idle" => u = v
      BY <2>1, <2>2, <2>5
    <3>3. alone[v] => \A k \in 1 .. i[v] :
             InRange(points'[v][k]) => table'[k - 1] = points'[v][k]
      BY <2>1, <2>3, <2>5, <3>1
    <3>. QED
      BY <2>1, <2>2, <2>5, <3>1, <3>2, <3>3
  <2>. QED
    BY <2>4, <2>5
<1>5. ASSUME NEW n \in Lens, SetLength(n) PROVE LoadOK'
  BY <1>5 DEF SetLength, LoadOK
<1>6. CASE (\E m \in {"ramp", "other"} : Set_dacOpmode(m)) \/ RunRamp
           \/ FirstWord \/ Tick \/ UNCHANGED vars
  <2>1. UNCHANGED <<ramplen, rampaddr, table, pc, points, i, alone>>
    BY <1>6 DEF Set_dacOpmode, RunRamp, FirstWord, Tick, RunPoint, vars, loaders
  <2>. QED
    BY <2>1 DEF LoadOK, InRange
<1>. QED
  BY <1>1, <1>2, <1>3, <1>4, <1>5, <1>6 DEF Next, Step, Commands

\* The table in place is there, and nobody is about to change it.
LEMMA PlaceInductive ==
  ASSUME IInv, [Next]_vars
  PROVE  PlaceOK' /\ LoneLoadSticks'
<1>. limit' = limit
  BY LimitFixed
<1>. USE DEF IInv, TypeOK
<1>1. CASE UNCHANGED <<ramplen, table, pc, loaded>>
  BY <1>1 DEF PlaceOK, LoneLoadSticks, InRange
<1>2. ASSUME NEW t \in Threads, NEW s \in Tables, write_ramptable(t, s)
      PROVE  PlaceOK' /\ LoneLoadSticks'
  BY <1>2 DEF write_ramptable, PlaceOK, LoneLoadSticks
<1>3. ASSUME NEW t \in Threads, WriteAddr(t) \/ WriteData(t)
      PROVE  PlaceOK' /\ LoneLoadSticks'
  <2>1. loaded = None /\ loaded' = None
    BY <1>3 DEF WriteAddr, WriteData, PlaceOK, history
  <2>. QED
    BY <2>1 DEF PlaceOK, LoneLoadSticks
<1>4. ASSUME NEW t \in Threads, Return(t) PROVE PlaceOK' /\ LoneLoadSticks'
  <2>1. CASE alone[t]
    <3>1. /\ loaded' = points[t] /\ i[t] = Len(points[t]) /\ pc'[t] = "idle"
          /\ \A u \in Threads \ {t} : pc'[u] = pc[u]
          /\ UNCHANGED <<ramplen, table>>
      BY <1>4, <2>1 DEF Return
    <3>2. /\ ramplen = Len(points[t]) /\ Len(points[t]) <= Depth
          /\ \A u \in Threads \ {t} : pc[u] = "idle"
          /\ \A k \in 1 .. i[t] : InRange(points[t][k]) => table[k - 1] = points[t][k]
      BY <2>1, <1>4 DEF LoadOK, Return
    <3>. QED
      BY <3>1, <3>2 DEF PlaceOK, LoneLoadSticks, InRange
  <2>2. CASE ~alone[t]
    <3>1. loaded = None /\ loaded' = None
      BY <1>4, <2>2 DEF Return, PlaceOK
    <3>. QED
      BY <3>1 DEF PlaceOK, LoneLoadSticks
  <2>. QED
    BY <2>1, <2>2
<1>5. ASSUME NEW n \in Lens, SetLength(n) PROVE PlaceOK' /\ LoneLoadSticks'
  <2>1. UNCHANGED <<table, pc>> /\ ramplen' \in Nat
    <3>1. TypeOK'
      BY <1>5, TypeInductive DEF Next, Commands
    <3>. QED
      BY <1>5, <3>1 DEF SetLength, Addrs
  <2>2. CASE loaded # None /\ ramplen' <= Len(loaded)
    <3>1. loaded \in Seq(Int) /\ loaded' = SubSeq(loaded, 1, ramplen')
      BY <1>5, <2>2 DEF SetLength
    <3>2. /\ Len(loaded') = ramplen'
          /\ \A k \in 1 .. ramplen' : loaded'[k] = loaded[k] /\ k \in 1 .. Len(loaded)
      <4>1. PICK m \in Nat : m = ramplen' /\ m <= Len(loaded)
        BY <2>1, <2>2
      <4>2. \A k \in 1 .. m : loaded[k] \in Int
        BY <3>1, <4>1
      <4>3. /\ Len(SubSeq(loaded, 1, m)) = IF 1 <= m THEN m - 1 + 1 ELSE 0
            /\ \A k \in 1 .. m - 1 + 1 : SubSeq(loaded, 1, m)[k] = loaded[1 + k - 1]
        BY <4>2, SubSeqProperties
      <4>4. loaded' = SubSeq(loaded, 1, m)
        BY <3>1, <4>1
      <4>5. Len(loaded') = m
        BY <4>3, <4>4
      <4>6. \A k \in 1 .. m : loaded'[k] = loaded[k]
        <5>. TAKE k \in 1 .. m
        <5>1. k \in 1 .. m - 1 + 1 /\ 1 + k - 1 = k
          OBVIOUS
        <5>. QED
          BY <4>3, <4>4, <5>1
      <4>7. \A k \in 1 .. m : k \in 1 .. Len(loaded)
        BY <3>1, <4>1
      <4>. QED
        BY <4>1, <4>5, <4>6, <4>7
    <3>3. ASSUME NEW k \in 1 .. Len(loaded'), InRange(loaded'[k])
          PROVE  table'[k - 1] = loaded'[k]
      <4>1. k \in 1 .. Len(loaded) /\ loaded'[k] = loaded[k]
        BY <3>2
      <4>2. table[k - 1] = loaded[k]
        BY <2>2, <3>3, <4>1 DEF LoneLoadSticks
      <4>. QED
        BY <2>1, <4>1, <4>2
    <3>4. LoneLoadSticks'
      BY <3>2, <3>3 DEF LoneLoadSticks, InRange
    <3>5. PlaceOK'
      BY <2>1, <2>2, <3>2 DEF PlaceOK
    <3>. QED
      BY <3>4, <3>5
  <2>3. CASE ~(loaded # None /\ ramplen' <= Len(loaded))
    <3>1. loaded' = None
      BY <1>5, <2>3 DEF SetLength
    <3>. QED
      BY <3>1 DEF PlaceOK, LoneLoadSticks
  <2>. QED
    BY <2>2, <2>3
<1>. QED
  BY <1>1, <1>2, <1>3, <1>4, <1>5
  DEF Next, Step, Commands, Set_dacOpmode, RunRamp, FirstWord, Tick, RunPoint, vars, loaders, history

\* The player keeps its place in the table, and what it has played is the table.
LEMMA PlayInductive ==
  ASSUME IInv, [Next]_vars
  PROVE  PlayOK' /\ RunPlaysTable'
<1>. limit' = limit
  BY LimitFixed
<1>. USE DEF IInv, TypeOK
<1>1. CASE UNCHANGED <<player, history>>
  BY <1>1 DEF player, history, PlayOK, RunPlaysTable, InRange
<1>2. ASSUME NEW t \in Threads, NEW s \in Tables, write_ramptable(t, s)
      PROVE  PlayOK' /\ RunPlaysTable'
  BY <1>2 DEF write_ramptable, player, PlayOK, RunPlaysTable
<1>3. ASSUME NEW t \in Threads, Return(t) PROVE PlayOK' /\ RunPlaysTable'
  <2>1. CASE alone[t]
    <3>1. /\ loaded' = points[t] /\ played' = <<>> /\ since' = dac_rdaddr
          /\ UNCHANGED player
      BY <1>3, <2>1 DEF Return
    <3>. QED
      BY <3>1 DEF player, PlayOK, RunPlaysTable, Addrs
  <2>2. CASE ~alone[t]
    <3>1. UNCHANGED <<player, history>>
      BY <1>3, <2>2 DEF Return, history
    <3>. QED
      BY <1>1, <3>1
  <2>. QED
    BY <2>1, <2>2
<1>4. ASSUME NEW n \in Lens, SetLength(n) PROVE PlayOK' /\ RunPlaysTable'
  <2>1. played' = <<>> /\ since' = dac_rdaddr /\ UNCHANGED player
    BY <1>4 DEF SetLength
  <2>. QED
    BY <2>1 DEF player, PlayOK, RunPlaysTable, Addrs
<1>5. CASE RunRamp
  <2>1. /\ state = "IDLE" /\ dac_rdaddr = 0 /\ since = 0 /\ played = <<>>
        /\ UNCHANGED <<dac_rdaddr, ramp_dac_setpt, history>>
    BY <1>5 DEF RunRamp, PlayOK
  <2>2. PlayOK'
    BY <2>1, <1>5 DEF RunRamp, history, PlayOK
  <2>3. loaded # None => loaded \in Seq(Int)
    OBVIOUS
  <2>. QED
    BY <2>1, <2>2, <2>3 DEF history, RunPlaysTable
<1>6. CASE FirstWord
  <2>1. state' = state /\ ~lag' /\ UNCHANGED <<dac_rdaddr, ramp_dac_setpt, history>>
    BY <1>6 DEF FirstWord
  <2>. QED
    BY <2>1 DEF history, PlayOK, RunPlaysTable, InRange
<1>7. CASE Tick
  <2>1. CASE state = "IDLE"
    <3>1. UNCHANGED <<player, history>>
      BY <1>7, <2>1 DEF Tick, RunPoint, history
    <3>. QED
      BY <1>1, <3>1
  <2>2. CASE state = "RUN_RAMP"
    <3>1. PICK w \in Answer :
             /\ LastPoint(w) \/ NextPoint(w)
             /\ lag' = FALSE /\ late' = (state' = "RUN_RAMP" /\ (late \/ lag))
             /\ loaded' = loaded
      BY <1>7, <2>2 DEF Tick, RunPoint
    <3>2. CASE LastPoint(w)
      BY <3>1, <3>2 DEF LastPoint, PlayOK, RunPlaysTable
    <3>3. CASE NextPoint(w)
      <4>1. /\ NextAddr <= ramplen /\ dac_rdaddr' = NextAddr /\ ramp_dac_setpt' = w
            /\ since' = since /\ state' = "RUN_RAMP" /\ late' = (late \/ lag)
        BY <2>2, <3>1, <3>3 DEF NextPoint
      <4>2. CASE loaded = None
        <5>1. played' = <<>>
          BY <3>3, <4>2 DEF NextPoint, PlayOK
        <5>. QED
          BY <3>1, <4>1, <4>2, <5>1 DEF PlayOK, RunPlaysTable
      <4>3. CASE loaded # None
        <5>1. w \in Words
          BY DEF Answer, Addrs
        <5>2. PICK n \in Nat : n = Len(played)
          OBVIOUS
        <5>3. /\ played' = Append(played, w) /\ Len(played') = n + 1
              /\ \A k \in 1 .. n : played'[k] = played[k]
              /\ played'[n + 1] = w /\ played' # <<>>
          <6>1. played' = Append(played, w)
            BY <3>3, <4>3 DEF NextPoint
          <6>. QED
            BY <5>1, <5>2, <6>1, AppendProperties
        <5>4. PlayOK'
          BY <3>1, <4>1, <4>3, <5>2, <5>3 DEF PlayOK
        <5>5. ASSUME since <= Len(loaded)
              PROVE  /\ dac_rdaddr' = since + Len(played')
                     /\ dac_rdaddr' <= Len(loaded)
                     /\ \A k \in 1 .. Len(played') :
                           \/ played'[k] = loaded[since + k]
                           \/ ~InRange(loaded[since + k])
                           \/ late' /\ since + k = 1
          <6>1. /\ dac_rdaddr = since + n
                /\ \A k \in 1 .. n : \/ played[k] = loaded[since + k]
                                     \/ ~InRange(loaded[since + k])
                                     \/ late /\ since + k = 1
            BY <2>2, <4>3, <5>2, <5>5 DEF RunPlaysTable
          <6>2. /\ loaded \in Seq(Int) /\ dac_rdaddr <= Len(loaded)
                /\ Len(loaded) <= Depth /\ Len(loaded) = ramplen
            BY <2>2, <4>3, <5>5 DEF RunPlaysTable, PlaceOK, LoneLoadSticks
          <6>3. NextAddr = dac_rdaddr + 1
            <7>1. dac_rdaddr < LastAddr
              BY <6>2 DEF Addrs
            <7>. QED
              BY <7>1, NextAddrIs
          <6>4. since + n + 1 \in 1 .. Len(loaded) /\ dac_rdaddr < Depth
            BY <4>1, <5>2, <6>1, <6>2, <6>3 DEF Addrs
          <6>5. CASE lag
            <7>1. since + n = 0 /\ late'
              BY <4>1, <6>1, <6>5 DEF PlayOK
            <7>2. n = 0 /\ since = 0
              BY <5>2, <7>1 DEF Addrs
            <7>. QED
              BY <4>1, <5>3, <6>3, <6>4, <6>1, <7>1, <7>2
          <6>6. CASE ~lag
            <7>1. w = table[dac_rdaddr]
              BY <3>1, <6>4, <6>6 DEF Answer
            <7>2. InRange(loaded[since + n + 1]) => w = loaded[since + n + 1]
              <8>1. PICK k \in 1 .. Len(loaded) : k = since + n + 1
                BY <6>4
              <8>2. k - 1 = dac_rdaddr
                BY <6>1, <8>1, <5>2 DEF Addrs
              <8>. QED
                BY <4>3, <7>1, <8>1, <8>2 DEF LoneLoadSticks
            <7>3. ASSUME NEW k \in 1 .. n + 1
                  PROVE  \/ played'[k] = loaded[since + k]
                         \/ ~InRange(loaded[since + k])
                         \/ late' /\ since + k = 1
              <8>1. CASE k = n + 1
                <9>1. since + k = since + n + 1
                  BY <8>1 DEF Addrs
                <9>. QED
                  BY <5>3, <7>2, <8>1, <9>1
              <8>2. CASE k # n + 1
                <9>1. k \in 1 .. n
                  BY <8>2
                <9>. QED
                  BY <4>1, <5>3, <6>1, <9>1
              <8>. QED
                BY <8>1, <8>2
            <7>4. /\ dac_rdaddr' = since + Len(played')
                  /\ dac_rdaddr' <= Len(loaded)
              BY <4>1, <5>2, <5>3, <6>1, <6>3, <6>4 DEF Addrs
            <7>. QED
              BY <5>3, <7>3, <7>4
          <6>. QED
            BY <6>5, <6>6
        <5>. QED
          BY <3>1, <4>1, <5>4, <5>5 DEF RunPlaysTable, InRange
      <4>. QED
        BY <4>2, <4>3
    <3>. QED
      BY <3>1, <3>2, <3>3
  <2>. QED
    BY <2>1, <2>2
<1>. QED
  BY <1>1, <1>2, <1>3, <1>4, <1>5, <1>6, <1>7
  DEF Next, Step, Commands, WriteAddr, WriteData, Set_dacOpmode, vars

LEMMA InitIInv ==
  Init => IInv
<1>. SUFFICES ASSUME Init PROVE IInv
  OBVIOUS
<1>1. TypeOK
  <2>1. 0 \in Addrs /\ 0 \in Words /\ 0 \in 0 .. Depth - 1 /\ 0 \in 0 .. Depth
    BY DEF Addrs, Words
  <2>2. ramplen \in Addrs /\ rampaddr \in 0 .. Depth - 1
    BY <2>1 DEF Init
  <2>3. table \in [0 .. Depth - 1 -> Words]
    BY <2>1 DEF Init
  <2>4. /\ pc \in [Threads -> {"idle", "addr", "data"}]
        /\ points \in [Threads -> Seq(Int)] /\ i \in [Threads -> 0 .. Depth]
        /\ alone \in [Threads -> BOOLEAN]
    BY <2>1 DEF Init
  <2>5. loaded \in Seq(Int) /\ played \in Seq(Words)
    BY DEF Init
  <2>. QED
    BY <2>1, <2>2, <2>3, <2>4, <2>5 DEF Init, TypeOK
<1>2. LoadOK /\ PlaceOK /\ PlayOK
  BY DEF Init, LoadOK, PlaceOK, PlayOK
<1>3. LoneLoadSticks /\ RunPlaysTable
  BY DEF Init, LoneLoadSticks, RunPlaysTable
<1>. QED
  BY <1>1, <1>2, <1>3 DEF IInv

-----------------------------------------------------------------------------
(* What holds of every behaviour                                           *)

\* The invariant is inductive.
THEOREM Invariance == Spec => []IInv
<1>1. IInv /\ [Next]_vars => IInv'
  <2>. SUFFICES ASSUME IInv, [Next]_vars PROVE IInv'
    OBVIOUS
  <2>1. TypeOK' /\ LoadOK'
    BY TypeInductive, LoadInductive
  <2>2. PlaceOK' /\ LoneLoadSticks' /\ PlayOK' /\ RunPlaysTable'
    BY PlaceInductive, PlayInductive
  <2>. QED
    BY <2>1, <2>2 DEF IInv
<1>. QED
  BY <1>1, InitIInv, PTL DEF Spec

\* Addresses and words keep their widths, whatever clients load and set.
THEOREM TypeCorrect == Spec => []TypeOK
BY Invariance, PTL DEF IInv

\* write_ramptable: a load that met no other one left its table, word for word.
THEOREM LoadComplete == Spec => []LoneLoadSticks
BY Invariance, PTL DEF IInv

\* ramptable_ramp: a run plays the table in place, point by point.
THEOREM PlaysTable == Spec => []RunPlaysTable
BY Invariance, PTL DEF IInv

\* ramptable_ramp and dac_chan: a run ends with all points played and the last
\* one at the DAC.
THEOREM LandsOnLast == Spec => RunLandsOnLast
<1>1. ASSUME IInv, [Next]_vars, state = "RUN_RAMP", state' = "IDLE",
             loaded # None, since < Len(loaded)
      PROVE  /\ since + Len(played) = Len(loaded)
             /\ \/ dac_setpt_raw' = loaded[Len(loaded)]
                \/ mode # "ramp" \/ ~InRange(loaded[Len(loaded)])
                \/ late /\ Len(loaded) = 1
  <2>. USE <1>1 DEF IInv, TypeOK
  <2>1. Tick
    <3>1. \A t \in Threads : Step(t) => state' = state
      BY DEF Step, WriteAddr, WriteData, Return, player
    <3>2. \A t \in Threads, s \in Tables : write_ramptable(t, s) => state' = state
      BY DEF write_ramptable, player
    <3>3. Commands => state' # "IDLE"
      BY DEF Commands, SetLength, Set_dacOpmode, RunRamp, player
    <3>4. FirstWord \/ UNCHANGED vars => state' = state
      BY DEF FirstWord, vars, player
    <3>. QED
      BY <3>1, <3>2, <3>3, <3>4 DEF Next
  <2>2. NextAddr > ramplen
    <3>1. PICK w \in Answer : LastPoint(w) \/ NextPoint(w)
      BY <2>1 DEF Tick, RunPoint
    <3>. QED
      BY <3>1 DEF LastPoint, NextPoint
  <2>3. /\ loaded \in Seq(Int) /\ Len(loaded) = ramplen /\ Len(loaded) <= Depth
        /\ dac_rdaddr = since + Len(played) /\ dac_rdaddr <= Len(loaded)
    <3>1. loaded \in Seq(Int) /\ since \in Nat
      BY DEF Addrs
    <3>. QED
      BY <3>1 DEF PlaceOK, LoneLoadSticks, RunPlaysTable
  <2>4. NextAddr = dac_rdaddr + 1
    <3>1. dac_rdaddr < LastAddr
      BY <2>3 DEF Addrs
    <3>. QED
      BY <3>1, NextAddrIs
  <2>5. since + Len(played) = Len(loaded)
    BY <2>2, <2>3, <2>4 DEF Addrs
  <2>6. Len(played) \in 1 .. Len(played) /\ played # <<>>
    <3>1. Len(played) \in Nat /\ since \in Nat /\ Len(loaded) \in Nat
      BY <2>3 DEF Addrs
    <3>. QED
      BY <2>5, <3>1
  <2>7. mode = "ramp" => dac_setpt_raw' = played[Len(played)]
    BY <2>1, <2>6 DEF Tick, RunPoint, PlayOK
  <2>8. \/ played[Len(played)] = loaded[since + Len(played)]
        \/ ~InRange(loaded[since + Len(played)])
        \/ late /\ since + Len(played) = 1
    <3>1. since <= Len(loaded)
      BY <2>3 DEF Addrs
    <3>. QED
      BY <2>6, <3>1 DEF RunPlaysTable
  <2>. QED
    BY <2>5, <2>7, <2>8
<1>2. IInv /\ [Next]_vars =>
        [state = "RUN_RAMP" /\ state' = "IDLE" /\ loaded # None /\ since < Len(loaded) =>
          /\ since + Len(played) = Len(loaded)
          /\ \/ dac_setpt_raw' = loaded[Len(loaded)]
             \/ mode # "ramp" \/ ~InRange(loaded[Len(loaded)])
             \/ late /\ Len(loaded) = 1]_vars
  BY <1>1
<1>. QED
  BY <1>2, Invariance, PTL DEF Spec, RunLandsOnLast

=============================================================================
