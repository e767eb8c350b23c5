----------------------------------- MODULE Isa ---------------------------------
(***************************************************************************)
(* What the instructions of src/gb/cpu.c promise, one step for each: the   *)
(* op-code is taken apart in its octal digits, as the operands of the      *)
(* tables are laid out, and the arithmetic is that of the numbers the      *)
(* bytes stand for.  There are no cycles, no tables and no scratch bytes.  *)
(* DAA is specified where it has a meaning, after an addition or a         *)
(* subtraction of decimal digits.                                          *)
(***************************************************************************)
EXTENDS Memory

VARIABLE s      \* [registers, f, sp, pc, m]

A == 7
Signed(x) == IF x > 127 THEN x - 256 ELSE x

-----------------------------------------------------------------------------
(* The memory map by ranges of addresses.                                  *)

Closed(m, a) ==
  LET mode == IF At(m, MEM_LCDC) > 127 THEN At(m, MEM_STAT) % 4 ELSE 0 IN
  \/ m.dma /\ (a < 65408 \/ a = 65535)
  \/ 32768 <= a /\ a < 40960 /\ mode = 3
  \/ 65024 <= a /\ a < 65184 /\ mode > 1
  \/ 65184 <= a /\ a < 65280

\* The 7680 bytes from $E000 on are those from $C000 on.
Home(a) == IF 57344 <= a /\ a < 65024 THEN a - 8192 ELSE a

Rd(m, a) == IF Closed(m, a) \/ a = 65357 THEN 255 ELSE At(m, Home(a))

Wr(m, a, x) ==
  CASE Closed(m, a)                -> m
    [] ~Closed(m, a) /\ a < 32768  -> do_rom_store(m, a, x)
    [] 65280 <= a /\ a < 65408 /\ ~Closed(m, a) -> do_io_store(m, a, x)
    [] OTHER                       -> Put(m, Home(a), x)

-----------------------------------------------------------------------------
(* Operands.                                                               *)

Regs(t) == t.registers
Word2(hi, lo) == 256 * hi + lo
HLof(t) == Word2(Regs(t)[4], Regs(t)[5])
Imm8(t)  == Rd(t.m, Word(t.pc + 1))
Imm16(t) == Word2(Rd(t.m, Word(t.pc + 2)), Imm8(t))

\* r: B, C, D, E, H, L, [HL], A.
Get(t, r) == IF r = 6 THEN Rd(t.m, HLof(t)) ELSE Regs(t)[r]
Set(t, r, x) == IF r = 6 THEN [t EXCEPT !.m = Wr(@, HLof(t), x)]
                ELSE [t EXCEPT !.registers[r] = x]

\* p: BC, DE, HL, SP.
GetPair(t, p) == IF p = 3 THEN t.sp ELSE Word2(Regs(t)[2 * p], Regs(t)[2 * p + 1])
SetPair(t, p, x) ==
  IF p = 3 THEN [t EXCEPT !.sp = Word(x)]
  ELSE [t EXCEPT !.registers[2 * p] = Word(x) \div 256, !.registers[2 * p + 1] = Byte(x)]

Holds(t, c) == CASE c = 0 -> ~t.f.Z [] c = 1 -> t.f.Z [] c = 2 -> ~t.f.C [] c = 3 -> t.f.C

Skip(t, n) == [t EXCEPT !.pc = Word(@ + n)]
Goto(t, a) == [t EXCEPT !.pc = Word(a)]
Store(t, a, x) == [t EXCEPT !.m = Wr(@, Word(a), x)]
Push(t, x) == [Store(Store(t, t.sp - 1, x \div 256), t.sp - 2, Byte(x)) EXCEPT !.sp = Word(@ - 2)]
Top(t) == Word2(Rd(t.m, Word(t.sp + 1)), Rd(t.m, t.sp))
Pop(t) == [t EXCEPT !.sp = Word(@ + 2)]
FlagByte(f) == 128 * Num(f.Z) + 64 * Num(f.N) + 32 * Num(f.H) + 16 * Num(f.C)
ByteFlags(x) == [Z |-> x > 127, N |-> (x \div 64) % 2 = 1,
                 H |-> (x \div 32) % 2 = 1, C |-> (x \div 16) % 2 = 1]

-----------------------------------------------------------------------------
(* Arithmetic: <<result, flags>>.                                          *)

Out(v, n, h, c) == <<v % 256, [Z |-> v % 256 = 0, N |-> n, H |-> h, C |-> c]>>
Plus(a, x, c)  == Out(a + x + c, FALSE, (a % 16) + (x % 16) + c > 15, a + x + c > 255)
Minus(a, x, c) == Out(a - x - c, TRUE, (a % 16) - (x % 16) - c < 0, a - x - c < 0)

\* op: ADD, ADC, SUB, SBC, AND, XOR, OR, CP.
Arith(op, a, x, f) ==
  CASE op = 0 -> Plus(a, x, 0)  [] op = 1 -> Plus(a, x, Num(f.C))
    [] op = 2 -> Minus(a, x, 0) [] op = 3 -> Minus(a, x, Num(f.C))
    [] op = 4 -> Out(and(a, x), FALSE, TRUE, FALSE)
    [] op = 5 -> Out(or(a, x) - and(a, x), FALSE, FALSE, FALSE)
    [] op = 6 -> Out(a + x - and(a, x), FALSE, FALSE, FALSE)
    [] op = 7 -> <<a, Minus(a, x, 0)[2]>>

\* op: RLC, RRC, RL, RR, SLA, SRA, SWAP, SRL.  The bit that comes in and the
\* bit that goes out, at the right for an odd op.
Shift(op, x, f) ==
  LET high == x \div 128
      low  == x % 2
      in   == CASE op = 0 -> high [] op = 1 -> low [] op \in {2, 3} -> Num(f.C)
                [] op = 5 -> high [] OTHER -> 0
  IN IF op = 6 THEN Out(16 * (x % 16) + x \div 16, FALSE, FALSE, FALSE)
     ELSE IF op % 2 = 0 THEN Out(2 * x + in, FALSE, FALSE, high = 1)
     ELSE Out(128 * in + x \div 2, FALSE, FALSE, low = 1)

\* The number that A and the flags stand for after two decimal numbers were
\* added (or subtracted) as bytes, in a set; {} when no such numbers exist.
Decimal(t) ==
  LET a == Regs(t)[A]
      sign == IF t.f.N THEN -1 ELSE 1
      ones == (a % 16) + sign * 16 * Num(t.f.H)
      tens == (a + sign * 256 * Num(t.f.C) - ones) \div 16
  IN IF t.f.N
     THEN {v \in {10 * tens + ones} : ones \in -10 .. 9 /\ tens \in -9 .. 9}
     ELSE {v \in {10 * tens + ones} : ones \in 0 .. 19 /\ tens \in 0 .. 18}

-----------------------------------------------------------------------------
(* Instructions, by the octal digits x y z of the op-code.                 *)

AluA(t, res) == [t EXCEPT !.registers[A] = res[1], !.f = res[2]]

Low(t, y, z) ==       \* $00 - $3F
  LET p == y \div 2
      even == y % 2 = 0
      at == IF p < 2 THEN GetPair(t, p) ELSE HLof(t)
      move == CASE p = 2 -> 1 [] p = 3 -> -1 [] OTHER -> 0
      moved(u) == IF move = 0 THEN u ELSE SetPair(u, 2, HLof(u) + move)
      sum == HLof(t) + GetPair(t, p)
      inc == IF z = 4 THEN Plus(Get(t, y), 1, 0) ELSE Minus(Get(t, y), 1, 0)
  IN CASE z = 0 /\ y = 0 -> Skip(t, 1)
       [] z = 0 /\ y = 1 ->
            Skip(Store(Store(t, Imm16(t), t.sp % 256), Imm16(t) + 1, t.sp \div 256), 3)
       [] z = 0 /\ (y = 3 \/ (y > 3 /\ Holds(t, y % 4))) -> Skip(t, 2 + Signed(Imm8(t)))
       [] z = 0 /\ y > 3 /\ ~Holds(t, y % 4) -> Skip(t, 2)
       [] z = 1 /\ even  -> Skip(SetPair(t, p, Imm16(t)), 3)
       [] z = 1 /\ ~even ->
            Skip([SetPair(t, 2, sum) EXCEPT !.f = [@ EXCEPT !.N = FALSE, !.C = sum > 65535,
                     !.H = (HLof(t) % 4096) + (GetPair(t, p) % 4096) > 4095]], 1)
       [] z = 2 /\ even  -> Skip(moved(Store(t, at, Regs(t)[A])), 1)
       [] z = 2 /\ ~even -> Skip(moved([t EXCEPT !.registers[A] = Rd(t.m, at)]), 1)
       [] z = 3 -> Skip(SetPair(t, p, GetPair(t, p) + (IF even THEN 1 ELSE -1)), 1)
       [] z \in {4, 5} -> Skip([Set(t, y, inc[1]) EXCEPT !.f = [inc[2] EXCEPT !.C = t.f.C]], 1)
       [] z = 6 -> Skip(Set(t, y, Imm8(t)), 2)
       [] z = 7 /\ y < 4 -> Skip([AluA(t, Shift(y, Regs(t)[A], t.f)) EXCEPT !.f.Z = FALSE], 1)
       [] z = 7 /\ y = 5 -> Skip([t EXCEPT !.registers[A] = 255 - @, !.f.N = TRUE, !.f.H = TRUE], 1)
       [] z = 7 /\ y > 5 -> Skip([t EXCEPT !.f = [Z |-> @.Z, N |-> FALSE, H |-> FALSE,
                                                  C |-> y = 6 \/ ~@.C]], 1)

High(t, y, z) ==      \* $C0 - $FF, without the prefix $CB
  LET p == y \div 2
      page == 65280
      taken == z \in {0, 2, 4} /\ y < 4 => Holds(t, y)
      pair == IF p = 3 THEN Word2(Regs(t)[A], FlagByte(t.f)) ELSE GetPair(t, p)
      sp == t.sp + Signed(Imm8(t))
      spFlags == [Plus(t.sp % 256, Imm8(t), 0)[2] EXCEPT !.Z = FALSE]
      load(a) == [t EXCEPT !.registers[A] = Rd(t.m, a)]
  IN CASE z = 0 /\ y < 4 -> IF taken THEN Goto(Pop(t), Top(t)) ELSE Skip(t, 1)
       [] z = 0 /\ y = 4 -> Skip(Store(t, page + Imm8(t), Regs(t)[A]), 2)
       [] z = 0 /\ y = 5 -> Skip([t EXCEPT !.sp = Word(sp), !.f = spFlags], 2)
       [] z = 0 /\ y = 6 -> Skip(load(page + Imm8(t)), 2)
       [] z = 0 /\ y = 7 -> Skip([SetPair(t, 2, sp) EXCEPT !.f = spFlags], 2)
       [] z = 1 /\ y = 6 -> Skip([Pop(t) EXCEPT !.registers[A] = Top(t) \div 256,
                                                !.f = ByteFlags(Top(t) % 256)], 1)
       [] z = 1 /\ y \in {0, 2, 4} -> Skip(SetPair(Pop(t), p, Top(t)), 1)
       [] z = 1 /\ y = 1 -> Goto(Pop(t), Top(t))
       [] z = 1 /\ y = 5 -> Goto(t, HLof(t))
       [] z = 1 /\ y = 7 -> Skip([t EXCEPT !.sp = HLof(t)], 1)
       [] z = 2 /\ y < 4 -> IF taken THEN Goto(t, Imm16(t)) ELSE Skip(t, 3)
       [] z = 2 /\ y = 4 -> Skip(Store(t, page + Regs(t)[1], Regs(t)[A]), 1)
       [] z = 2 /\ y = 5 -> Skip(Store(t, Imm16(t), Regs(t)[A]), 3)
       [] z = 2 /\ y = 6 -> Skip(load(page + Regs(t)[1]), 1)
       [] z = 2 /\ y = 7 -> Skip(load(Imm16(t)), 3)
       [] z = 3 /\ y = 0 -> Goto(t, Imm16(t))
       [] (z = 4 /\ y < 4) \/ (z = 5 /\ y = 1) ->
            IF taken THEN Goto(Push(t, Word(t.pc + 3)), Imm16(t)) ELSE Skip(t, 3)
       [] z = 5 /\ y % 2 = 0 -> Skip(Push(t, pair), 1)
       [] z = 6 -> Skip(AluA(t, Arith(y, Regs(t)[A], Imm8(t), t.f)), 2)
       [] z = 7 -> Goto(Push(t, Word(t.pc + 1)), 8 * y)

Prefixed(t, x, y, z) ==      \* $CB
  LET v == Get(t, z)
      res == Shift(y, v, t.f)
      bit == 2 ^ y
      set == (v \div bit) % 2 = 1
  IN CASE x = 0 -> Skip([Set(t, z, res[1]) EXCEPT !.f = res[2]], 2)
       [] x = 1 -> Skip([t EXCEPT !.f = [@ EXCEPT !.Z = ~set, !.N = FALSE, !.H = TRUE]], 2)
       [] x = 2 -> Skip(Set(t, z, IF set THEN v - bit ELSE v), 2)
       [] x = 3 -> Skip(Set(t, z, IF set THEN v ELSE v + bit), 2)

\* A decimal result: its two digits in A, and a carry if there are more.
Daa(t, u) ==
  /\ u = [t EXCEPT !.registers[A] = Regs(u)[A], !.pc = Word(@ + 1),
                   !.f = [Z |-> Regs(u)[A] = 0, N |-> t.f.N, H |-> FALSE, C |-> u.f.C]]
  /\ \A v \in Decimal(t) :
       /\ Regs(u)[A] = 16 * ((v % 100) \div 10) + (v % 10)
       /\ u.f.C = (v \notin 0 .. 99)

Init == s.registers \in [0 .. 7 -> Bytes]

Next ==
  LET op == Rd(s.m, s.pc)
      x == op \div 64
      y == (op \div 8) % 8
      z == op % 8
      cb == Imm8(s)
  IN CASE op = 39  -> Daa(s, s')
       [] op = 203 -> s' = Prefixed(s, cb \div 64, (cb \div 8) % 8, cb % 8)
       [] x = 0 /\ op # 39 -> s' = Low(s, y, z)
       [] x = 1 -> s' = Skip(Set(s, y, Get(s, z)), 1)
       [] x = 2 -> s' = Skip(AluA(s, Arith(y, Regs(s)[A], Get(s, z), s.f)), 1)
       [] x = 3 /\ op # 203 -> s' = High(s, y, z)

Spec == Init /\ [][Next]_s
=============================================================================
