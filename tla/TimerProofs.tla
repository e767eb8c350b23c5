----------------------------- MODULE TimerProofs -----------------------------
(***************************************************************************)
(* Proofs about Timer, for every size of the counter and of TIMA: its      *)
(* types, that TIMA is requested exactly when it is due, and that DIV      *)
(* counts from its last store.                                             *)
(***************************************************************************)
EXTENDS Timer, TLAPS

-----------------------------------------------------------------------------
(* Arithmetic.  A period of TIMA is 4, 16, 64 or 256 T cycles, and the bit *)
(* that it watches is set in the second half of each.                      *)

Half(f) == 2 ^ (2 * f + 1)
Whole(f) == 2 ^ (2 * f + 2)

LEMMA Halves ==
  ASSUME NEW f \in 0 .. 3
  PROVE  \/ Half(f) = 2 /\ Whole(f) = 4
         \/ Half(f) = 8 /\ Whole(f) = 16
         \/ Half(f) = 32 /\ Whole(f) = 64
         \/ Half(f) = 128 /\ Whole(f) = 256
<1>1. f = 0 \/ f = 1 \/ f = 2 \/ f = 3
  OBVIOUS
<1>2. CASE f = 0
  <2>1. 2 * f + 1 = 1 /\ 2 * f + 2 = 2 BY <1>2
  <2>2. 2 ^ 1 = 2 /\ 2 ^ 2 = 4 OBVIOUS
  <2>3. Half(f) = 2 ^ 1 /\ Whole(f) = 2 ^ 2 BY <2>1 DEF Half, Whole
  <2> QED BY <2>2, <2>3
<1>3. CASE f = 1
  <2>1. 2 * f + 1 = 3 /\ 2 * f + 2 = 4 BY <1>3
  <2>2. 2 ^ 3 = 8 /\ 2 ^ 4 = 16 OBVIOUS
  <2>3. Half(f) = 2 ^ 3 /\ Whole(f) = 2 ^ 4 BY <2>1 DEF Half, Whole
  <2> QED BY <2>2, <2>3
<1>4. CASE f = 2
  <2>1. 2 * f + 1 = 5 /\ 2 * f + 2 = 6 BY <1>4
  <2>2. 2 ^ 5 = 32 /\ 2 ^ 6 = 64 OBVIOUS
  <2>3. Half(f) = 2 ^ 5 /\ Whole(f) = 2 ^ 6 BY <2>1 DEF Half, Whole
  <2> QED BY <2>2, <2>3
<1>5. CASE f = 3
  <2>1. 2 * f + 1 = 7 /\ 2 * f + 2 = 8 BY <1>5
  <2>2. 2 ^ 7 = 128 /\ 2 ^ 8 = 256 OBVIOUS
  <2>3. Half(f) = 2 ^ 7 /\ Whole(f) = 2 ^ 8 BY <2>1 DEF Half, Whole
  <2> QED BY <2>2, <2>3
<1> QED BY <1>1, <1>2, <1>3, <1>4, <1>5

\* The bit of the counter is set in the second half of a period.
LEMMA SecondHalf ==
  ASSUME NEW f \in 0 .. 3, NEW c \in Nat
  PROVE  ((c \div Half(f)) % 2 = 1) <=> (c % Whole(f) >= Half(f))
<1> DEFINE H == Half(f)
           W == Whole(f)
           Goal == ((c \div H) % 2 = 1) <=> (c % W >= H)
<1>1. H = 2 /\ W = 4 => Goal OBVIOUS
<1>2. H = 8 /\ W = 16 => Goal OBVIOUS
<1>3. H = 32 /\ W = 64 => Goal OBVIOUS
<1>4. H = 128 /\ W = 256 => Goal OBVIOUS
<1> QED BY Halves, <1>1, <1>2, <1>3, <1>4

\* The place in the period moves on by one, and wraps with it.
LEMMA NextPlace ==
  ASSUME NEW f \in Freqs, NEW c \in 0 .. COUNTER_SIZE - 1
  PROVE  /\ NextCount(c) \in 0 .. COUNTER_SIZE - 1
         /\ NextCount(c) % Whole(f) =
              IF c % Whole(f) = Whole(f) - 1 THEN 0 ELSE (c % Whole(f)) + 1
<1> USE SizeAssumption
<1>1. f \in 0 .. 3 /\ COUNTER_SIZE % Whole(f) = 0 BY DEF Whole
<1>2. NextCount(c) = IF c + 1 = COUNTER_SIZE THEN 0 ELSE c + 1 BY DEF NextCount
<1> DEFINE W == Whole(f)
           n == NextCount(c)
           Goal == n % W = IF c % W = W - 1 THEN 0 ELSE (c % W) + 1
<1>3. n \in 0 .. COUNTER_SIZE - 1 BY <1>2
<1>4. W = 4 => Goal BY <1>1, <1>2
<1>5. W = 16 => Goal BY <1>1, <1>2
<1>6. W = 64 => Goal BY <1>1, <1>2
<1>7. W = 256 => Goal BY <1>1, <1>2
<1>8. Goal BY <1>1, Halves, <1>4, <1>5, <1>6, <1>7
<1> QED BY <1>3, <1>8

-----------------------------------------------------------------------------
(* DIV counts T cycles, in units of which a whole number of M cycles is    *)
(* one.                                                                    *)

LEMMA SizesAreWhole ==
  /\ COUNTER_SIZE \in Nat /\ COUNTER_SIZE >= 4 /\ COUNTER_SIZE % 4 = 0
  /\ DIV_UNIT \in Nat /\ DIV_UNIT >= 4 /\ DIV_UNIT % 4 = 0
<1>1. Whole(0) = 4
  <2>1. 2 * 0 + 2 = 2 /\ 2 ^ 2 = 4 OBVIOUS
  <2> QED BY <2>1 DEF Whole
<1>2. COUNTER_SIZE % Whole(0) = 0 BY SizeAssumption DEF Whole
<1> QED BY <1>1, <1>2, SizeAssumption

\* T cycles since the store, counted as the counter counts them.
Wait(s) == (4 * s) % COUNTER_SIZE

LEMMA WaitStep ==
  ASSUME NEW s \in 0 .. COUNTER_SIZE - 1
  PROVE  /\ (s + 1) % COUNTER_SIZE \in 0 .. COUNTER_SIZE - 1
         /\ Wait(s) \in 0 .. COUNTER_SIZE - 4
         /\ Wait(s) % 4 = 0
         /\ Wait((s + 1) % COUNTER_SIZE) =
              IF Wait(s) + 4 = COUNTER_SIZE THEN 0 ELSE Wait(s) + 4
<1> DEFINE C == COUNTER_SIZE
           n == (s + 1) % C
<1> USE SizesAreWhole
<1>1. n = IF s + 1 = C THEN 0 ELSE s + 1 OBVIOUS
<1>2. PICK k \in 0 .. 3 : /\ 4 * s >= k * C /\ 4 * s < (k + 1) * C
  <2>1. 4 * s < 4 * C OBVIOUS
  <2>2. CASE 4 * s < C BY <2>2
  <2>3. CASE 4 * s >= C /\ 4 * s < 2 * C BY <2>3
  <2>4. CASE 4 * s >= 2 * C /\ 4 * s < 3 * C BY <2>4
  <2>5. CASE 4 * s >= 3 * C BY <2>1, <2>5
  <2> QED BY <2>2, <2>3, <2>4, <2>5
<1>3. Wait(s) = 4 * s - k * C
  <2>1. CASE k = 0 BY <1>2, <2>1 DEF Wait
  <2>2. CASE k = 1 BY <1>2, <2>2 DEF Wait
  <2>3. CASE k = 2 BY <1>2, <2>3 DEF Wait
  <2>4. CASE k = 3 BY <1>2, <2>4 DEF Wait
  <2> QED BY <2>1, <2>2, <2>3, <2>4
<1>4. PICK c \in Nat : C = 4 * c
  <2>1. C = 4 * (C \div 4) /\ C \div 4 \in Nat OBVIOUS
  <2> QED BY <2>1
<1>5. Wait(s) = 4 * (s - k * c) /\ Wait(s) \in 0 .. C - 4 /\ Wait(s) % 4 = 0
  <2>1. k * C = 4 * (k * c) /\ (k + 1) * C = 4 * (k * c + c) BY <1>4
  <2>2. k * c \in Nat BY <1>4
  <2> HIDE DEF C
  <2>3. Wait(s) = 4 * (s - k * c) BY <1>3, <2>1, <2>2
  <2>4. s - k * c \in 0 .. c - 1 BY <1>2, <2>1, <2>2, <1>4
  <2> QED BY <2>3, <2>4, <1>4
<1>6. Wait(n) = IF Wait(s) + 4 = C THEN 0 ELSE Wait(s) + 4
  <2>1. CASE s + 1 = C
    <3>1. n = 0 /\ Wait(n) = 0 BY <1>1, <2>1 DEF Wait
    <3>2. k = 3 /\ Wait(s) + 4 = C BY <1>2, <1>3, <2>1
    <3> QED BY <3>1, <3>2
  <2>2. CASE s + 1 # C
    <3>1. n = s + 1 BY <1>1, <2>2
    <3>2. CASE Wait(s) + 4 = C
      <4>1. 4 * n = (k + 1) * C /\ k + 1 \in 1 .. 4 BY <3>1, <1>3, <3>2
      <4>2. (1 * C) % C = 0 /\ (2 * C) % C = 0 /\ (3 * C) % C = 0 /\ (4 * C) % C = 0
        OBVIOUS
      <4> QED BY <3>2, <4>1, <4>2 DEF Wait
    <3>3. CASE Wait(s) + 4 # C
      <4> DEFINE r == Wait(s) + 4
      <4>1. 4 * n = k * C + r /\ r \in 0 .. C - 1 BY <3>1, <1>3, <1>5, <3>3
      <4> HIDE DEF r, n
      <4>2. (k * C + r) % C = r
        <5>1. CASE k = 0 BY <4>1, <5>1
        <5>2. CASE k = 1 BY <4>1, <5>2
        <5>3. CASE k = 2 BY <4>1, <5>3
        <5>4. CASE k = 3 BY <4>1, <5>4
        <5> QED BY <5>1, <5>2, <5>3, <5>4
      <4>3. Wait(n) = r BY <4>1, <4>2 DEF Wait
      <4> QED BY <4>3, <3>3 DEF r
    <3> QED BY <3>2, <3>3
  <2> QED BY <2>1, <2>2
<1>7. n \in 0 .. C - 1 BY <1>1
<1> QED BY <1>5, <1>6, <1>7

\* The unit does not change within an M cycle.
LEMMA SameUnit ==
  ASSUME NEW w \in Nat, w % 4 = 0, NEW d \in {0, 1}
  PROVE  (w + d) \div DIV_UNIT = w \div DIV_UNIT
<1> DEFINE q == w \div DIV_UNIT
           r == w % DIV_UNIT
<1> USE SizesAreWhole
<1>1. q \in Nat /\ r \in 0 .. DIV_UNIT - 1 /\ w = DIV_UNIT * q + r OBVIOUS
<1>2. PICK u \in Nat : DIV_UNIT = 4 * u
  <2>1. DIV_UNIT = 4 * (DIV_UNIT \div 4) /\ DIV_UNIT \div 4 \in Nat OBVIOUS
  <2> QED BY <2>1
<1>3. PICK v \in Nat : w = 4 * v
  <2>1. w = 4 * (w \div 4) /\ w \div 4 \in Nat OBVIOUS
  <2> QED BY <2>1
<1> HIDE DEF q, r
<1>4. r = 4 * (v - u * q)
  <2>1. DIV_UNIT * q = 4 * (u * q) /\ u * q \in Nat BY <1>1, <1>2
  <2> QED BY <2>1, <1>1, <1>3
<1>5. r + d \in 0 .. DIV_UNIT - 1
  <2>1. u * q \in Nat BY <1>1, <1>2
  <2>2. v - u * q < u BY <2>1, <1>1, <1>2, <1>3, <1>4
  <2> QED BY <2>1, <2>2, <1>1, <1>2, <1>3, <1>4
<1>6. w + d = DIV_UNIT * q + (r + d) BY <1>1
<1>7. (w + d) \div DIV_UNIT = q
  <2> DEFINE p == (w + d) \div DIV_UNIT
             m == (w + d) % DIV_UNIT
  <2>1. p \in Nat /\ m \in 0 .. DIV_UNIT - 1 /\ w + d = DIV_UNIT * p + m OBVIOUS
  <2> HIDE DEF p, m
  <2>2. ~(p < q)
    <3>1. SUFFICES ASSUME p < q PROVE FALSE OBVIOUS
    <3>2. DIV_UNIT * (p + 1) <= DIV_UNIT * q BY <3>1, <2>1, <1>1
    <3> QED BY <3>2, <2>1, <1>1, <1>5, <1>6
  <2>3. ~(q < p)
    <3>1. SUFFICES ASSUME q < p PROVE FALSE OBVIOUS
    <3>2. DIV_UNIT * (q + 1) <= DIV_UNIT * p BY <3>1, <2>1, <1>1
    <3> QED BY <3>2, <2>1, <1>1, <1>5, <1>6
  <2>4. p = q BY <2>1, <1>1, <2>2, <2>3
  <2> QED BY <2>4 DEF p
<1> QED BY <1>7 DEF q

-----------------------------------------------------------------------------
(* The types, and the count.  When the CPU runs, the counter is what the   *)
(* M cycles since the last store of DIV have made it, or one more: the     *)
(* increment before the store is taken back, and before the first store    *)
(* the counter is ahead by the one increment that precedes the CPU.        *)

CountIs(d) ==
  LET w == Wait(since)
  IN CASE phase \in {"cpu", "1"} -> counter = w + d
       [] phase = "2"            -> counter = w + d + 1
       [] phase = "3"            -> counter = w + d + 2
       [] phase = "first"        -> counter = NextCount(w + d + 2)

DivInv == phase = "cpu" => DIV = counter \div DIV_UNIT

CountInv ==
  /\ TypeOK
  /\ \E d \in {0, 1} : CountIs(d)
  /\ DivInv

LEMMA InitTypes == Init => TypeOK
<1> SUFFICES ASSUME Init PROVE TypeOK OBVIOUS
<1>1. DIV \in Nat
  <2>1. COUNTER_SIZE \div DIV_UNIT \in Nat \ {0}
    <3> DEFINE q == COUNTER_SIZE \div DIV_UNIT
    <3>1. q \in Nat /\ COUNTER_SIZE = DIV_UNIT * q BY SizeAssumption
    <3> HIDE DEF q
    <3>2. q # 0 BY <3>1, SizeAssumption
    <3> QED BY <3>1, <3>2 DEF q
  <2> QED BY <2>1 DEF Init
<1>2. counter \in 0 .. COUNTER_SIZE - 1 /\ since \in 0 .. COUNTER_SIZE - 1
  BY SizeAssumption DEF Init
<1>3. TIMA \in 0 .. TIMA_SIZE - 1 /\ TMA \in 0 .. TIMA_SIZE - 1
  BY SizeAssumption DEF Init
<1>4. /\ freq \in Freqs /\ enabled \in BOOLEAN /\ requested \in BOOLEAN
      /\ tb \in BOOLEAN /\ phase \in Phases /\ stored \in BOOLEAN
  BY SizeAssumption, Zenon DEF Init, Phases
<1> QED BY <1>1, <1>2, <1>3, <1>4 DEF TypeOK

LEMMA IncTypes ==
  ASSUME TypeOK, NEW start \in BOOLEAN, inc_counter(start)
  PROVE  /\ counter' = NextCount(counter) /\ counter' \in 0 .. COUNTER_SIZE - 1
         /\ DIV' = counter' \div DIV_UNIT /\ DIV' \in Nat
         /\ TIMA' \in 0 .. TIMA_SIZE - 1 /\ requested' \in BOOLEAN /\ tb' \in BOOLEAN
         /\ TMA' = TMA /\ freq' = freq /\ enabled' = enabled /\ stored' = stored
<1> DEFINE count == NextCount(counter)
           edge == FallingEdge(start, tima_bit(count))
           wraps == edge /\ TIMA = TIMA_SIZE - 1
<1>1. /\ counter' = count /\ DIV' = count \div DIV_UNIT
      /\ TIMA' = IF wraps THEN TMA ELSE IF edge THEN TIMA + 1 ELSE TIMA
      /\ requested' = (requested \/ wraps)
      /\ tb' = tima_bit(count)
      /\ TMA' = TMA /\ freq' = freq /\ enabled' = enabled /\ stored' = stored
  BY Zenon DEF inc_counter, Carried
<1>2. count \in 0 .. COUNTER_SIZE - 1
  <2>1. counter \in 0 .. COUNTER_SIZE - 1 BY DEF TypeOK
  <2> QED BY <2>1, SizeAssumption DEF NextCount
<1>3. count \div DIV_UNIT \in Nat BY <1>2, SizeAssumption
<1>4. edge \in BOOLEAN /\ wraps \in BOOLEAN BY Zenon DEF FallingEdge, tima_bit, CounterBit
<1>5. tima_bit(count) \in BOOLEAN BY Zenon DEF tima_bit, CounterBit
<1>6. requested \in BOOLEAN BY DEF TypeOK
<1>7. TIMA' \in 0 .. TIMA_SIZE - 1
  <2>1. TIMA \in 0 .. TIMA_SIZE - 1 /\ TMA \in 0 .. TIMA_SIZE - 1 BY DEF TypeOK
  <2>2. CASE wraps BY <2>1, <2>2, <1>1
  <2>3. CASE ~wraps /\ edge
    <3>1. TIMA # TIMA_SIZE - 1 /\ TIMA' = TIMA + 1 BY <2>3, <1>1
    <3> QED BY <3>1, <2>1, SizeAssumption
  <2>4. CASE ~wraps /\ ~edge BY <2>1, <2>4, <1>1
  <2> QED BY <2>2, <2>3, <2>4
<1> HIDE DEF count, edge, wraps
<1>8. requested' \in BOOLEAN /\ tb' \in BOOLEAN
  BY <1>1, <1>5, Zenon
<1> QED BY <1>1, <1>2, <1>3, <1>7, <1>8 DEF count

LEMMA TypeStep == TypeOK /\ [Next]_vars => TypeOK'
<1> SUFFICES ASSUME TypeOK, [Next]_vars PROVE TypeOK'
  OBVIOUS
<1>1. CASE First
  <2>1. FirstBit \in BOOLEAN BY DEF FirstBit, tima_bit
  <2>2. inc_counter(FirstBit) /\ phase' = "cpu" /\ since' = (since + 1) % COUNTER_SIZE
    BY <1>1 DEF First
  <2>3. since' \in 0 .. COUNTER_SIZE - 1
    BY <2>2, WaitStep DEF TypeOK
  <2> QED BY <2>1, <2>2, <2>3, IncTypes DEF TypeOK, Phases
<1>2. CASE Count
  <2>1. tb \in BOOLEAN BY DEF TypeOK
  <2>2. inc_counter(tb) /\ phase' \in Phases /\ since' = since
    BY <1>2 DEF Count, Phases
  <2> QED BY <2>1, <2>2, IncTypes DEF TypeOK
<1>3. ASSUME NEW b \in BOOLEAN, Cpu(b)
      PROVE  phase' \in Phases /\ stored' \in BOOLEAN /\ tb' \in BOOLEAN
  BY <1>3 DEF Cpu, TypeOK, Phases
<1>4. CASE CpuOther BY <1>3, <1>4 DEF CpuOther, timaVars, TypeOK
<1>5. CASE StoreDiv
  <2>1. counter' = 0 /\ DIV' = 0 /\ since' = 0 BY <1>5 DEF StoreDiv, ResetCounter
  <2>2. counter' \in 0 .. COUNTER_SIZE - 1 /\ since' \in 0 .. COUNTER_SIZE - 1 /\ DIV' \in Nat
    BY <2>1, SizesAreWhole
  <2> QED BY <1>3, <1>5, <2>2 DEF StoreDiv, timaVars, TypeOK
<1>6. CASE StoreTima BY <1>3, <1>6 DEF StoreTima, TypeOK
<1>7. CASE StoreTma BY <1>3, <1>7 DEF StoreTma, TypeOK
<1>8. CASE StoreTac BY <1>3, <1>8 DEF StoreTac, TypeOK
<1>9. CASE StoreIf BY <1>3, <1>9 DEF StoreIf, timaVars, TypeOK
<1>10. CASE UNCHANGED vars BY <1>10 DEF vars, TypeOK
<1> QED BY <1>1, <1>2, <1>4, <1>5, <1>6, <1>7, <1>8, <1>9, <1>10 DEF Next

\* Every variable keeps its type (gameboy.h:388-406, gameboy.c:230-277).
THEOREM TypeCorrect == Spec => []TypeOK
<1> QED BY InitTypes, TypeStep, PTL DEF Spec

-----------------------------------------------------------------------------
\* An increment that does not wrap.
LEMMA NextWithin ==
  ASSUME NEW c \in Nat, c + 1 < COUNTER_SIZE
  PROVE  NextCount(c) = c + 1
BY SizeAssumption DEF NextCount

LEMMA CountInit == Init => CountInv
<1> SUFFICES ASSUME Init PROVE CountInv OBVIOUS
<1> DEFINE C == COUNTER_SIZE
<1>1. Wait(C - 1) = C - 4
  <2>1. C - 1 \in 0 .. C - 1 /\ (C - 1 + 1) % C = 0 BY SizesAreWhole
  <2>2. Wait(0) = 0 BY SizesAreWhole DEF Wait
  <2>3. Wait(C - 1) \in 0 .. C - 4 BY <2>1, WaitStep
  <2>4. 0 = IF Wait(C - 1) + 4 = C THEN 0 ELSE Wait(C - 1) + 4
    BY <2>1, <2>2, WaitStep
  <2> QED BY <2>3, <2>4, SizesAreWhole
<1>2. since = C - 1 /\ phase = "first" /\ counter = 0 BY DEF Init
<1>3. NextCount(C - 4 + 1 + 2) = 0
  <2>1. C - 4 + 1 + 2 + 1 = C BY SizesAreWhole
  <2>2. C % C = 0 BY SizesAreWhole
  <2> QED BY <2>1, <2>2 DEF NextCount
<1>4. CountIs(1) BY <1>1, <1>2, <1>3 DEF CountIs
<1>5. DivInv BY <1>2 DEF DivInv
<1> QED BY <1>4, <1>5, InitTypes DEF CountInv

LEMMA CountStep == CountInv /\ [Next]_vars => CountInv'
<1> SUFFICES ASSUME CountInv, [Next]_vars PROVE CountInv'
  OBVIOUS
<1>1. TypeOK /\ TypeOK' /\ DivInv BY TypeStep DEF CountInv
<1>2. PICK d \in {0, 1} : CountIs(d) BY DEF CountInv
<1> DEFINE w == Wait(since)
<1>3. since \in 0 .. COUNTER_SIZE - 1 /\ counter \in 0 .. COUNTER_SIZE - 1 BY <1>1 DEF TypeOK
<1>4. w \in 0 .. COUNTER_SIZE - 4 /\ COUNTER_SIZE \in Nat BY <1>3, WaitStep, SizesAreWhole
<1>a. w + 4 = COUNTER_SIZE \/ w + 4 < COUNTER_SIZE - 1
  <2>1. w % 4 = 0 /\ COUNTER_SIZE % 4 = 0 BY <1>3, WaitStep, SizesAreWhole
  <2> HIDE DEF w
  <2>2. PICK v \in Int : w = 4 * v BY <2>1, <1>4
  <2>3. PICK c \in Int : COUNTER_SIZE = 4 * c BY <2>1, <1>4
  <2> QED BY <2>2, <2>3, <1>4
<1> SUFFICES \E e \in {0, 1} : CountIs(e)' /\ DivInv' BY <1>1 DEF CountInv
<1>5. CASE First
  <2>1. FirstBit \in BOOLEAN BY DEF FirstBit, tima_bit
  <2>2. /\ inc_counter(FirstBit) /\ phase = "first" /\ phase' = "cpu"
        /\ since' = (since + 1) % COUNTER_SIZE
    BY <1>5 DEF First
  <2>3. counter' = NextCount(counter) /\ DIV' = counter' \div DIV_UNIT
    BY <1>1, <2>1, <2>2, IncTypes
  <2>4. Wait(since') = IF w + 4 = COUNTER_SIZE THEN 0 ELSE w + 4
    BY <1>3, <2>2, WaitStep
  <2>5. counter = NextCount(w + d + 2) BY <1>2, <2>2 DEF CountIs
  <2> HIDE DEF w
  <2>6. counter' = Wait(since') + d
    <3>1. CASE d = 0
      <4>1. counter = w + 3
        <5>1. counter = NextCount(w + 2) /\ w + 2 + 1 < COUNTER_SIZE /\ w + 2 \in Nat
          BY <2>5, <3>1, <1>4
        <5>2. counter = w + 2 + 1 BY <5>1, NextWithin
        <5> QED BY <5>2, <1>4
      <4>2. counter + 1 = w + 4 BY <4>1, <1>4
      <4>3. counter' = IF w + 4 = COUNTER_SIZE THEN 0 ELSE w + 4
        BY <2>3, <4>2, <1>4, SizesAreWhole DEF NextCount
      <4> QED BY <4>3, <2>4, <3>1, <1>4, SizesAreWhole
    <3>2. CASE d = 1
      <4>1. counter = IF w + 4 = COUNTER_SIZE THEN 0 ELSE w + 4
        BY <2>5, <3>2, <1>4, SizesAreWhole DEF NextCount
      <4>2. counter \in Nat /\ counter + 1 < COUNTER_SIZE
        BY <4>1, <1>4, <1>a, SizesAreWhole
      <4>3. counter' = counter + 1 BY <2>3, <4>2, NextWithin
      <4> QED BY <4>1, <4>3, <2>4, <3>2, <1>4
    <3> QED BY <3>1, <3>2
  <2>7. CountIs(d)' BY <2>2, <2>6 DEF CountIs
  <2>8. DivInv' BY <2>3 DEF DivInv
  <2> QED BY <2>7, <2>8
<1>6. CASE Count
  <2>1. tb \in BOOLEAN BY <1>1 DEF TypeOK
  <2>2. inc_counter(tb) /\ phase \in {"1", "2", "3"} /\ since' = since
    BY <1>6 DEF Count
  <2>3. counter' = NextCount(counter) BY <1>1, <2>1, <2>2, IncTypes
  <2>4. phase' = CASE phase = "1" -> "2" [] phase = "2" -> "3" [] phase = "3" -> "first"
    BY <1>6 DEF Count
  <2>5. Wait(since') = w BY <2>2
  <2>6. CASE phase = "1"
    <3>1. phase' = "2" /\ counter = w + d BY <2>4, <2>6, <1>2 DEF CountIs
    <3> HIDE DEF w
    <3>a. w + d \in Nat /\ w + d + 1 < COUNTER_SIZE BY <1>4
    <3>2. counter' = w + d + 1 BY <2>3, <3>1, <3>a, NextWithin
    <3> QED BY <3>1, <3>2, <2>5 DEF CountIs, DivInv, w
  <2>7. CASE phase = "2"
    <3>1. phase' = "3" /\ counter = w + d + 1 BY <2>4, <2>7, <1>2 DEF CountIs
    <3> HIDE DEF w
    <3>2. w + d + 1 \in Nat /\ w + d + 1 + 1 < COUNTER_SIZE BY <1>4
    <3>3. counter' = w + d + 1 + 1 BY <2>3, <3>1, <3>2, NextWithin
    <3>4. counter' = w + d + 2 BY <3>3, <1>4
    <3> QED BY <3>1, <3>4, <2>5 DEF CountIs, DivInv, w
  <2>8. CASE phase = "3"
    <3>1. phase' = "first" /\ counter = w + d + 2 BY <2>4, <2>8, <1>2 DEF CountIs
    <3> QED BY <3>1, <2>3, <2>5 DEF CountIs, DivInv
  <2> QED BY <2>2, <2>6, <2>7, <2>8
<1>7. ASSUME phase = "cpu", phase' = "1", UNCHANGED <<counter, since>>
      PROVE  \E e \in {0, 1} : CountIs(e)' /\ DivInv'
  <2>1. CountIs(d)' /\ DivInv' BY <1>2, <1>7 DEF CountIs, DivInv
  <2> QED BY <2>1
<1>8. CASE CpuOther BY <1>7, <1>8 DEF CpuOther, Cpu
<1>9. CASE StoreDiv
  <2>1. counter' = 0 /\ since' = 0 /\ phase' = "1" BY <1>9 DEF StoreDiv, ResetCounter, Cpu
  <2>2. Wait(since') = 0 BY <2>1, SizesAreWhole DEF Wait
  <2>3. CountIs(0)' BY <2>1, <2>2 DEF CountIs
  <2>4. DivInv' BY <2>1 DEF DivInv
  <2> QED BY <2>3, <2>4
<1>10. CASE StoreTima BY <1>7, <1>10 DEF StoreTima, Cpu
<1>11. CASE StoreTma BY <1>7, <1>11 DEF StoreTma, Cpu
<1>12. CASE StoreTac BY <1>7, <1>12 DEF StoreTac, Cpu
<1>13. CASE StoreIf BY <1>7, <1>13 DEF StoreIf, Cpu
<1>14. CASE UNCHANGED vars
  <2>1. CountIs(d)' /\ DivInv' BY <1>1, <1>2, <1>14 DEF CountIs, DivInv, vars
  <2> QED BY <2>1
<1> QED BY <1>5, <1>6, <1>8, <1>9, <1>10, <1>11, <1>12, <1>13, <1>14 DEF Next

LEMMA CountMeansDiv == CountInv => DivCounts
<1> SUFFICES ASSUME CountInv, phase = "cpu"
             PROVE  DIV = Wait(since) \div DIV_UNIT
  BY DEF DivCounts, Wait
<1>1. PICK d \in {0, 1} : CountIs(d) BY DEF CountInv
<1>2. counter = Wait(since) + d BY <1>1 DEF CountIs
<1>3. DIV = counter \div DIV_UNIT BY DEF CountInv, DivInv
<1>4. since \in 0 .. COUNTER_SIZE - 1 BY DEF CountInv, TypeOK
<1>5. Wait(since) \in Nat /\ Wait(since) % 4 = 0 BY <1>4, WaitStep
<1> QED BY <1>2, <1>3, <1>5, SameUnit

\* When the CPU runs, DIV is what it would be if the counter had been counting T
\* cycles since DIV was stored last (gameboy.c:261-263, cpu.c:172-176).
THEOREM DivCountsFromItsStore == Spec => []DivCounts
<1> QED BY CountInit, CountStep, CountMeansDiv, PTL DEF Spec

-----------------------------------------------------------------------------
(* The period.  The bit that mcycle carries from one increment to the next *)
(* is the bit of the counter, except where the CPU has just stored to the  *)
(* timer, so an edge is seen where a period ends and nowhere else.         *)

BitInv ==
  /\ TypeOK
  /\ phase \in {"cpu", "1", "2", "3"} /\ ~(stored /\ phase = "1")
       => tb = tima_bit(counter)

LEMMA IncBit ==
  ASSUME TypeOK, NEW start \in BOOLEAN, inc_counter(start)
  PROVE  tb' = tima_bit(counter)'
<1>1. freq' = freq /\ enabled' = enabled /\ counter' = NextCount(counter) BY IncTypes
<1>2. tb' = tima_bit(NextCount(counter)) BY DEF inc_counter, Carried
<1> QED BY <1>1, <1>2 DEF tima_bit, CounterBit

LEMMA BitStep == BitInv /\ [Next]_vars => BitInv'
<1> SUFFICES ASSUME BitInv, [Next]_vars PROVE BitInv'
  OBVIOUS
<1>1. TypeOK /\ TypeOK' BY TypeStep DEF BitInv
<1>2. CASE First
  <2>1. FirstBit \in BOOLEAN BY DEF FirstBit, tima_bit
  <2>2. inc_counter(FirstBit) BY <1>2 DEF First
  <2>3. tb' = tima_bit(counter)' BY <1>1, <2>1, <2>2, IncBit
  <2> QED BY <1>1, <2>3 DEF BitInv
<1>3. CASE Count
  <2>1. tb \in BOOLEAN BY <1>1 DEF TypeOK
  <2>2. inc_counter(tb) BY <1>3 DEF Count
  <2>3. tb' = tima_bit(counter)' BY <1>1, <2>1, <2>2, IncBit
  <2> QED BY <1>1, <2>3 DEF BitInv
<1>4. ASSUME Cpu(FALSE), UNCHANGED <<counter, freq, enabled>>
      PROVE  BitInv'
  <2>1. phase = "cpu" /\ tb' = tb BY <1>4 DEF Cpu
  <2>2. tb = tima_bit(counter) BY <2>1 DEF BitInv
  <2>3. tb' = tima_bit(counter)' BY <2>1, <2>2, <1>4 DEF tima_bit, CounterBit
  <2> QED BY <1>1, <2>3 DEF BitInv
<1>5. ASSUME Cpu(TRUE)
      PROVE  BitInv'
  <2>1. stored' /\ phase' = "1" BY <1>5 DEF Cpu
  <2> QED BY <1>1, <2>1 DEF BitInv
<1>6. CASE CpuOther BY <1>4, <1>6 DEF CpuOther, timaVars
<1>7. CASE StoreDiv BY <1>5, <1>7 DEF StoreDiv
<1>8. CASE StoreTima BY <1>5, <1>8 DEF StoreTima
<1>9. CASE StoreTma BY <1>5, <1>9 DEF StoreTma
<1>10. CASE StoreTac BY <1>5, <1>10 DEF StoreTac
<1>11. CASE StoreIf BY <1>4, <1>11 DEF StoreIf, timaVars
<1>12. CASE UNCHANGED vars
  <2>1. (tima_bit(counter))' = tima_bit(counter) BY <1>12 DEF vars, tima_bit, CounterBit
  <2>2. tb' = tb /\ phase' = phase /\ stored' = stored BY <1>12 DEF vars
  <2> QED BY <1>1, <2>1, <2>2 DEF BitInv
<1> QED BY <1>2, <1>3, <1>6, <1>7, <1>8, <1>9, <1>10, <1>11, <1>12 DEF Next

\* An edge of an enabled timer is the end of a period.
LEMMA EdgeEndsPeriod ==
  ASSUME TypeOK, enabled
  PROVE  /\ FallingEdge(tima_bit(counter), tima_bit(NextCount(counter)))
              <=> counter % Period = Period - 1
         /\ counter % Period \in 0 .. Period - 1
         /\ NextCount(counter) % Period =
              IF counter % Period = Period - 1 THEN 0 ELSE (counter % Period) + 1
<1> DEFINE W == Whole(freq)
           H == Half(freq)
           m == counter % W
           n == NextCount(counter)
<1>1. freq \in Freqs /\ freq \in 0 .. 3 /\ counter \in 0 .. COUNTER_SIZE - 1
  BY SizeAssumption DEF TypeOK
<1>2. Period = W BY DEF Period, Whole
<1>3. /\ n \in 0 .. COUNTER_SIZE - 1
      /\ n % W = IF m = W - 1 THEN 0 ELSE m + 1
  BY <1>1, NextPlace
<1>4. counter \in Nat /\ n \in Nat BY <1>1, <1>3, SizesAreWhole
<1>5. tima_bit(counter) <=> m >= H
  BY <1>1, <1>4, SecondHalf DEF tima_bit, CounterBit, Half
<1>6. tima_bit(n) <=> n % W >= H
  BY <1>1, <1>4, SecondHalf DEF tima_bit, CounterBit, Half
<1>7. W \in Nat /\ H \in Nat /\ W = 2 * H /\ H >= 2 BY <1>1, Halves
<1>8. m \in 0 .. W - 1 BY <1>4, <1>7
<1> HIDE DEF W, H, n, m
<1>9. (m >= H /\ ~(n % W >= H)) <=> m = W - 1 BY <1>3, <1>7, <1>8
<1>10. FallingEdge(tima_bit(counter), tima_bit(n)) <=> m = W - 1
  BY <1>5, <1>6, <1>9 DEF FallingEdge
<1>11. counter % Period = m BY <1>2 DEF m
<1> QED BY <1>2, <1>3, <1>8, <1>10, <1>11 DEF n

\* Where left of a wait of k periods that is in its period at m.
LEMMA OneLess ==
  ASSUME NEW f \in 0 .. 3, NEW k \in Nat, k >= 1, NEW m \in 0 .. Whole(f) - 1
  PROVE  /\ (k * Whole(f) - m = 1) <=> (k = 1 /\ m = Whole(f) - 1)
         /\ m = Whole(f) - 1 => (k - 1) * Whole(f) - 0 = k * Whole(f) - m - 1
         /\ k * Whole(f) - (m + 1) = k * Whole(f) - m - 1
<1>1. Whole(f) = 4 \/ Whole(f) = 16 \/ Whole(f) = 64 \/ Whole(f) = 256 BY Halves
<1>2. CASE Whole(f) = 4 BY <1>2
<1>3. CASE Whole(f) = 16 BY <1>3
<1>4. CASE Whole(f) = 64 BY <1>4
<1>5. CASE Whole(f) = 256 BY <1>5
<1> QED BY <1>1, <1>2, <1>3, <1>4, <1>5

\* One increment of the counter, from the bit of the counter.
Brings ==
  IF ~enabled THEN UNCHANGED <<TIMA, requested>>
  ELSE IF Due = 1 THEN requested' /\ Due' = Interval
  ELSE Due' = Due - 1 /\ UNCHANGED requested

LEMMA IncBrings ==
  ASSUME TypeOK, inc_counter(tima_bit(counter))
  PROVE  Brings
<1> DEFINE n == NextCount(counter)
           edge == FallingEdge(tima_bit(counter), tima_bit(n))
           wraps == edge /\ TIMA = TIMA_SIZE - 1
           m == counter % Period
           k == TIMA_SIZE - TIMA
<1>1. /\ TIMA' = IF wraps THEN TMA ELSE IF edge THEN TIMA + 1 ELSE TIMA
      /\ requested' = (requested \/ wraps)
  BY Zenon DEF inc_counter
<1>2. /\ counter' = n /\ TMA' = TMA /\ freq' = freq
  BY Zenon DEF inc_counter
<1>3. edge \in BOOLEAN /\ requested \in BOOLEAN
  BY Zenon DEF FallingEdge, tima_bit, CounterBit, TypeOK
<1>4. CASE ~enabled
  <2>1. ~edge BY <1>4 DEF FallingEdge, tima_bit
  <2>2. TIMA' = TIMA BY <1>1, <2>1
  <2>3. requested' = requested BY <1>1, <1>3, <2>1
  <2> QED BY <1>4, <2>2, <2>3 DEF Brings
<1>5. CASE enabled
  <2>1. /\ edge <=> m = Period - 1
        /\ m \in 0 .. Period - 1
        /\ n % Period = IF m = Period - 1 THEN 0 ELSE m + 1
    BY <1>5, EdgeEndsPeriod
  <2>2. freq \in 0 .. 3 /\ Period = Whole(freq) /\ Period \in Nat
    <3>1. freq \in 0 .. 3 /\ Period = Whole(freq)
      BY SizeAssumption DEF TypeOK, Period, Whole
    <3> QED BY <3>1, Halves
  <2>3. TIMA \in 0 .. TIMA_SIZE - 1 /\ k \in Nat /\ k >= 1
    BY SizeAssumption DEF TypeOK
  <2>4. Period' = Period BY <1>2 DEF Period
  <2>5. Due = k * Period - m BY DEF Due
  <2>6. Due' = (TIMA_SIZE - TIMA') * Period - (n % Period) BY <1>2, <2>4 DEF Due
  <2>7. TIMA_SIZE \in Nat /\ TMA \in Nat BY SizeAssumption DEF TypeOK
  <2> HIDE DEF m, k, n, edge
  <2>8. /\ (k * Period - m = 1) <=> (k = 1 /\ m = Period - 1)
        /\ m = Period - 1 => (k - 1) * Period - 0 = k * Period - m - 1
        /\ k * Period - (m + 1) = k * Period - m - 1
    BY <2>1, <2>2, <2>3, OneLess
  <2>9. TIMA = TIMA_SIZE - 1 <=> k = 1 BY <2>3, <2>7 DEF k
  <2>10. CASE edge /\ k = 1
    <3>1. wraps BY <2>10, <2>9
    <3>2. Due = 1 BY <2>1, <2>5, <2>8, <2>10
    <3>3. requested' /\ TIMA' = TMA BY <1>1, <3>1
    <3>4. Due' = (TIMA_SIZE - TMA) * Period - 0 BY <2>1, <2>6, <2>10, <3>3
    <3>5. Due' = Interval
      <4>1. (TIMA_SIZE - TMA) * Period \in Int BY <2>2, <2>7
      <4> QED BY <4>1, <3>4 DEF Interval
    <3> QED BY <1>5, <3>2, <3>3, <3>5 DEF Brings
  <2>11. CASE edge /\ k # 1
    <3>1. ~wraps BY <2>11, <2>9
    <3>2. Due # 1 BY <2>5, <2>8, <2>11
    <3>3. requested' = requested BY <1>1, <1>3, <3>1
    <3>4. TIMA' = TIMA + 1 BY <1>1, <3>1, <2>11
    <3>5. TIMA_SIZE - TIMA' = k - 1 BY <3>4, <2>3, <2>7 DEF k
    <3>6. Due' = (k - 1) * Period - 0 BY <2>1, <2>6, <2>11, <3>5
    <3>7. Due' = Due - 1 BY <3>6, <2>1, <2>5, <2>8, <2>11
    <3> QED BY <1>5, <3>2, <3>3, <3>7 DEF Brings
  <2>12. CASE ~edge
    <3>1. ~wraps BY <2>12
    <3>2. Due # 1 BY <2>1, <2>5, <2>8, <2>12
    <3>3. requested' = requested BY <1>1, <1>3, <3>1
    <3>4. TIMA' = TIMA BY <1>1, <3>1, <2>12
    <3>5. Due' = k * Period - (m + 1) BY <2>1, <2>6, <2>12, <3>4 DEF k
    <3>6. Due' = Due - 1 BY <3>5, <2>5, <2>8
    <3> QED BY <1>5, <3>2, <3>3, <3>6 DEF Brings
  <2> QED BY <2>10, <2>11, <2>12
<1>6. enabled \in BOOLEAN BY DEF TypeOK
<1> QED BY <1>4, <1>5, <1>6

LEMMA Periods ==
  ASSUME BitInv, [Next]_vars, counter' # counter, phase # "cpu",
         ~(stored /\ phase = "1")
  PROVE  Brings
<1>1. TypeOK BY DEF BitInv
<1>2. CASE First
  <2>1. inc_counter(tima_bit(counter)) BY <1>2 DEF First, FirstBit
  <2> QED BY <1>1, <2>1, IncBrings
<1>3. CASE Count
  <2>1. tb = tima_bit(counter) BY <1>3 DEF Count, BitInv
  <2>2. inc_counter(tb) BY <1>3 DEF Count
  <2> QED BY <1>1, <2>1, <2>2, IncBrings
<1> QED BY <1>2, <1>3 DEF Next, Cpu, CpuOther, StoreDiv, StoreTima, StoreTma, StoreTac,
       StoreIf, vars

LEMMA BitInit == Init => BitInv
BY InitTypes DEF Init, BitInv

\* While the program leaves an enabled timer alone, each T cycle brings its
\* interrupt nearer by one, and it is requested exactly when it is due, request
\* after request (gameboy.c:233-277).
THEOREM PeriodIsKept == Spec => TimerPeriod
<1>1. BitInv /\ [Next]_vars =>
        [counter' # counter /\ phase # "cpu" /\ ~(stored /\ phase = "1") =>
           IF ~enabled THEN UNCHANGED <<TIMA, requested>>
           ELSE IF Due = 1 THEN requested' /\ Due' = Interval
           ELSE Due' = Due - 1 /\ UNCHANGED requested]_vars
  BY Periods DEF Brings
<1> QED BY BitInit, BitStep, <1>1, PTL DEF Spec, TimerPeriod

=============================================================================
