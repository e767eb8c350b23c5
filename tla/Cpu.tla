---------------------------------- MODULE Cpu ----------------------------------
(***************************************************************************)
(* The instructions of src/gb/cpu.c: the two tables, the search for the    *)
(* instruction of an op-code, and what each exec function does in each M   *)
(* cycle.  cpu_mcycle is the only action; it runs from a set of states     *)
(* with a program in memory and a number of instructions to execute.       *)
(*                                                                         *)
(* Each exec_ operator takes the state at the start of an M cycle to the   *)
(* one at its end, as the C function takes g.  The instructions that work  *)
(* on interrupts (EI, DI, RETI, HALT), STOP and unknown op-codes are in    *)
(* the tables but not executed here: module Interrupts has them.           *)
(***************************************************************************)
EXTENDS Memory

CONSTANTS
  Starts          \* the states a run starts in: [g |-> a state, n |-> instructions]

VARIABLES
  g,              \* the Cpu structure, and in g.m what fetch and store use
  left,           \* bound: instructions still to be executed
  arch            \* history: the state at the last instruction boundary, as
                  \* a program sees it
vars == <<g, left, arch>>

-----------------------------------------------------------------------------
(* The instruction tables.                                                 *)

Row(op_code, operand1, operand2, shift, exec, op) ==
  [op_code |-> op_code, operand1 |-> operand1, operand2 |-> operand2,
   shift |-> shift, exec |-> exec, op |-> op]

NULL == Row(0, "NONE", "NONE", 0, "NULL", "NONE")
unknown_instruction == Row(0, "NONE", "NONE", 0, "unknown", "NONE")

\* Rows of op-codes with an 8-bit operand of A: the function and its op-code.
alu_ops == <<"add_a", "adc_a", "sub_a", "sbc_a", "and_a", "xor_a", "or_a", "cp_a">>

\* $00 to $3F, and HALT, which is found before it is taken for LD [HL], [HL].
instructions_low ==
  << Row(0, "NONE", "NONE", 0, "nop", "NONE"),
     Row(1, "R16", "IMM16", 4, "ld_r16_imm16", "NONE"),
     Row(2, "R16MEM", "A", 4, "ld_r16mem_a", "NONE"),
     Row(10, "A", "R16MEM", 4, "ld_a_r16mem", "NONE"),
     Row(8, "IMM16MEM", "SP", 0, "ld_imm16mem_sp", "NONE"),
     Row(3, "R16", "NONE", 4, "inc_r16", "NONE"),
     Row(11, "R16", "NONE", 4, "dec_r16", "NONE"),
     Row(9, "HL", "R16", 4, "add_hl_r16", "NONE"),
     Row(4, "R8", "NONE", 3, "inc_r8", "NONE"),
     Row(5, "R8", "NONE", 3, "dec_r8", "NONE"),
     Row(6, "R8", "IMM8", 3, "ld_r8_imm8", "NONE"),
     Row(7, "NONE", "NONE", 0, "rotate_a", "rlc"),
     Row(15, "NONE", "NONE", 0, "rotate_a", "rrc"),
     Row(23, "NONE", "NONE", 0, "rotate_a", "rl"),
     Row(31, "NONE", "NONE", 0, "rotate_a", "rr"),
     Row(39, "NONE", "NONE", 0, "daa", "NONE"),
     Row(47, "NONE", "NONE", 0, "cpl", "NONE"),
     Row(55, "NONE", "NONE", 0, "scf", "NONE"),
     Row(63, "NONE", "NONE", 0, "ccf", "NONE"),
     Row(24, "IMM8_OFFSET", "NONE", 0, "jr_imm8", "NONE"),
     Row(32, "COND", "IMM8_OFFSET", 3, "jr_cond_imm8", "NONE"),
     Row(16, "IMM8", "NONE", 0, "stop", "NONE"),
     Row(118, "NONE", "NONE", 0, "halt", "NONE") >>

\* LD between 8-bit registers, and the operations on A.
instructions_a ==
  << Row(64, "R8_DST", "R8", 0, "ld_r8_r8", "NONE") >>
  \o [i \in 1 .. 8 |-> Row(120 + 8 * i, "A", "R8", 0, "op_a_r8", alu_ops[i])]
  \o [i \in 1 .. 8 |-> Row(190 + 8 * i, "A", "IMM8", 0, "op_a_imm8", alu_ops[i])]

\* $C0 to $FF: jumps, the stack and high memory.
instructions_high ==
  << Row(192, "COND", "NONE", 3, "ret_cond", "NONE"),
     Row(201, "NONE", "NONE", 0, "ret", "NONE"),
     Row(217, "NONE", "NONE", 0, "reti", "NONE"),
     Row(194, "COND", "IMM16ADDR", 3, "jp", "check_cond"),
     Row(195, "IMM16ADDR", "NONE", 0, "jp", "NONE"),
     Row(233, "HL", "NONE", 0, "jp_hl", "NONE"),
     Row(196, "COND", "IMM16ADDR", 3, "call", "check_cond"),
     Row(205, "IMM16ADDR", "NONE", 0, "call", "NONE"),
     Row(199, "TGT3", "NONE", 3, "rst_tgt3", "NONE"),
     Row(193, "R16STK", "NONE", 4, "pop_r16", "NONE"),
     Row(197, "R16STK", "NONE", 4, "push_r16", "NONE"),
     Row(226, "CMEM", "A", 0, "ldh_cmem_a", "NONE"),
     Row(224, "IMM8MEM", "A", 0, "ldh_imm8mem_a", "NONE"),
     Row(234, "IMM16MEM", "A", 0, "ld_imm16mem_a", "NONE"),
     Row(242, "A", "CMEM", 0, "ldh_a_cmem", "NONE"),
     Row(240, "A", "IMM8MEM", 0, "ldh_a_imm8mem", "NONE"),
     Row(250, "A", "IMM16MEM", 0, "ld_a_imm16mem", "NONE"),
     Row(232, "SP", "IMM8", 0, "add_sp_imm8", "NONE"),
     Row(248, "HL", "SP_PLUS_IMM8", 0, "ld_hl_sp_plus_imm8", "NONE"),
     Row(249, "SP", "HL", 0, "ld_sp_hl", "NONE"),
     Row(243, "NONE", "NONE", 0, "di", "NONE"),
     Row(251, "NONE", "NONE", 0, "ei", "NONE"),
     Row(203, "NONE", "NONE", 0, "cb_bank_switch", "NONE") >>

instructions == instructions_low \o instructions_a \o instructions_high

twiddle_ops == <<"rlc", "rrc", "rl", "rr", "sla", "sra", "swap_nibbles", "srl">>

cb_instructions ==
  [i \in 1 .. 8 |-> Row(8 * (i - 1), "R8", "NONE", 0, "bit_twiddle_r8", twiddle_ops[i])]
  \o
  << Row(64, "BIT_INDEX", "R8", 0, "bit_b3_r8", "NONE"),
     Row(128, "BIT_INDEX", "R8", 0, "res_set_b3_r8", "res_bit"),
     Row(192, "BIT_INDEX", "R8", 0, "res_set_b3_r8", "set_bit") >>

operand_size(operand) ==
  CASE operand \in {"SP_PLUS_IMM8", "IMM8", "IMM8_OFFSET", "IMM8MEM"} -> 1
    [] operand \in {"IMM16", "IMM16ADDR", "IMM16MEM"} -> 2
    [] OTHER -> 0

\* Mutant: the prefix of an instruction of the second bank is not counted.
instruction_size_no_prefix(bank, instr) ==
  1 + operand_size(instr.operand1) + operand_size(instr.operand2)
instruction_size(bank, instr) ==
  (IF bank = "cb" THEN 2 ELSE 1) + operand_size(instr.operand1) + operand_size(instr.operand2)

operand_op_code_bits(operand) ==
  CASE operand \in {"R16", "R16STK", "R16MEM", "COND"} -> 2
    [] operand \in {"R8", "TGT3", "BIT_INDEX", "R8_DST"} -> 3
    [] OTHER -> 0

op_code_mask(instr) ==
  255 - (2 ^ (operand_op_code_bits(instr.operand1) + operand_op_code_bits(instr.operand2)) - 1)
        * 2 ^ instr.shift

\* The first row that matches.
find_instruction(bank, op_code) ==
  LET table == IF bank = "cb" THEN cb_instructions ELSE instructions
      found == {i \in DOMAIN table : and(op_code, op_code_mask(table[i])) = table[i].op_code}
  IN IF found = {} THEN unknown_instruction
     ELSE table[CHOOSE i \in found : \A j \in found : i <= j]

-----------------------------------------------------------------------------
(* The structure Cpu.                                                      *)

REG_C == 1
REG_H == 4
REG_L == 5
REG_HL_MEM == 6
REG_A == 7

Rows == {NULL, unknown_instruction} \cup {instructions[i] : i \in DOMAIN instructions}
        \cup {cb_instructions[i] : i \in DOMAIN cb_instructions}

\* Registers, PC and SP are as wide as in the code, and [HL] is no register.
Typed(s) ==
  /\ s \in [registers : {r \in [0 .. 7 -> Bytes] : r[REG_HL_MEM] = 0},
            f : [Z : BOOLEAN, N : BOOLEAN, H : BOOLEAN, C : BOOLEAN],
            sp : Words, pc : Words, ir : Bytes, w : Bytes, z : Bytes,
            state : {"DONE", "EXECUTING"}, cycle : 0 .. 5,
            bank : {"main", "cb"}, instr : Rows, m : {s.m}]
  /\ DOMAIN s.m.mem \subseteq Words
  /\ s.m \in Memories(DOMAIN s.m.mem)

\* Between two instructions no scratch state is left, and ir holds the byte
\* before pc.
Between(s) ==
  /\ s.state = "DONE" /\ s.bank = "main" /\ s.instr = NULL
  /\ s.cycle = 0 /\ s.w = 0 /\ s.z = 0
  /\ s.ir = fetch(s.m, Word(s.pc - 1))

ASSUME StartAssumption ==
  \A start \in Starts : Typed(start.g) /\ Between(start.g) /\ start.n \in Nat

-----------------------------------------------------------------------------
(* Registers, operands of an op-code, flags.                               *)

get_reg8(s, r) == s.registers[r]

\* Mutant: without the conversion to uint8_t.
set_reg8_int(s, r, x) == [s EXCEPT !.registers[r] = x]
set_reg8(s, r, x) == [s EXCEPT !.registers[r] = Byte(x)]

\* The registers of a pair, high and low.
Pair(r) == CASE r = "BC" -> <<0, 1>> [] r = "DE" -> <<2, 3>> [] OTHER -> <<REG_H, REG_L>>

Flags(x) == [Z |-> Bit(x, 128), N |-> Bit(x, 64), H |-> Bit(x, 32), C |-> Bit(x, 16)]
FlagsByte(f) == 128 * Num(f.Z) + 64 * Num(f.N) + 32 * Num(f.H) + 16 * Num(f.C)

get_reg16(s, r) ==
  CASE r = "SP" -> s.sp
    [] r = "AF" -> 256 * s.registers[REG_A] + FlagsByte(s.f)
    [] OTHER -> 256 * s.registers[Pair(r)[1]] + s.registers[Pair(r)[2]]

set_reg16(s, r, x) ==
  LET high == Word(x) \div 256
      low  == Byte(x)
  IN CASE r = "SP" -> [s EXCEPT !.sp = Word(x)]
       [] r = "AF" -> [s EXCEPT !.registers[REG_A] = high, !.f = Flags(low)]
       [] OTHER -> [s EXCEPT !.registers[Pair(r)[1]] = high, !.registers[Pair(r)[2]] = low]

\* The bits of the op-code from the instruction's shift on.
Field(s) == s.ir \div 2 ^ s.instr.shift
decode_reg8(s) == Field(s) % 8
decode_reg8_dst(s) == (Field(s) \div 8) % 8
decode_reg16(s) == <<"BC", "DE", "HL", "SP">>[1 + (Field(s) % 4)]
decode_reg16stk(s) == <<"BC", "DE", "HL", "AF">>[1 + (Field(s) % 4)]
decode_reg16mem(s) == <<"BC", "DE", "HL+", "HL-">>[1 + (Field(s) % 4)]
decode_bit_index(s) == (Field(s) \div 8) % 8
decode_tgt3(s) == (Field(s) % 8) * 8

eval_cond(s) ==
  LET cc == Field(s) % 4
  IN CASE cc = 0 -> ~s.f.Z [] cc = 1 -> s.f.Z [] cc = 2 -> ~s.f.C [] OTHER -> s.f.C

-----------------------------------------------------------------------------
(* The 8-bit operations: a result and the flags.                           *)

Result(v, n, h, c) ==
  [v |-> Byte(v), f |-> [Z |-> Byte(v) = 0, N |-> n, H |-> h, C |-> c]]

add3_half_carries(x, y, z) == (x % 16) + (y % 16) + (z % 16) > 15
add3_carries(x, y, z) == x + y + z > 255
sub3_borrows(x, y, z) == y + z > x
sub_half_borrows(x, y) == y % 16 > x % 16

\* Mutant: the borrow of the carry is not looked at on its own.
sub3_half_borrows_once(x, y, z) == sub_half_borrows(x, y + z)
sub3_half_borrows(x, y, z) ==
  sub_half_borrows(x, y) \/ sub_half_borrows(Byte(x - y), z)

add_a(a, x, c) == Result(a + x + c, FALSE, add3_half_carries(a, x, c), add3_carries(a, x, c))
sub_a(a, x, c) == Result(a - x - c, TRUE, sub3_half_borrows(a, x, c), sub3_borrows(a, x, c))

\* The operation op of an exec_op_a function on A and x.
alu(op, a, x, f) ==
  CASE op = "add_a" -> add_a(a, x, 0)
    [] op = "adc_a" -> add_a(a, x, Num(f.C))
    [] op = "sub_a" -> sub_a(a, x, 0)
    [] op = "sbc_a" -> sub_a(a, x, Num(f.C))
    [] op = "and_a" -> Result(and(a, x), FALSE, TRUE, FALSE)
    [] op = "xor_a" -> Result(xor(a, x), FALSE, FALSE, FALSE)
    [] op = "or_a"  -> Result(or(a, x), FALSE, FALSE, FALSE)
    [] op = "cp_a"  -> [sub_a(a, x, 0) EXCEPT !.v = a]

rotated(op, x, f) ==
  CASE op = "rlc" -> Result(2 * x + x \div 128, FALSE, FALSE, x > 127)
    [] op = "rrc" -> Result(x \div 2 + 128 * (x % 2), FALSE, FALSE, x % 2 = 1)
    [] op = "rl"  -> Result(2 * x + Num(f.C), FALSE, FALSE, x > 127)
    [] op = "rr"  -> Result(x \div 2 + 128 * Num(f.C), FALSE, FALSE, x % 2 = 1)

shifted(op, x) ==
  CASE op = "sla" -> Result(2 * x, FALSE, FALSE, x > 127)
    [] op = "sra" -> Result(x \div 2 + and(x, 128), FALSE, FALSE, x % 2 = 1)
    [] op = "swap_nibbles" -> Result(x \div 16 + 16 * x, FALSE, FALSE, FALSE)
    [] op = "srl" -> Result(x \div 2, FALSE, FALSE, x % 2 = 1)

twiddle(op, x, f) ==
  IF op \in {"rlc", "rrc", "rl", "rr"} THEN rotated(op, x, f) ELSE shifted(op, x)

res_or_set(op, bit, x) ==
  IF op = "res_bit" THEN and(x, 255 - 2 ^ bit) ELSE or(x, 2 ^ bit)

-----------------------------------------------------------------------------
(* The steps that exec functions are made of.                              *)

fetch_z(s) == [s EXCEPT !.z = fetch(s.m, s.pc), !.pc = Word(@ + 1)]
fetch_w(s) == [s EXCEPT !.w = fetch(s.m, s.pc), !.pc = Word(@ + 1)]
done(s)    == [s EXCEPT !.ir = fetch(s.m, s.pc), !.pc = Word(@ + 1), !.state = "DONE"]
read_z(s, addr)     == [s EXCEPT !.z = fetch(s.m, addr)]
write(s, addr, x)   == [s EXCEPT !.m = store(@, addr, x)]
wz(s)  == 256 * s.w + s.z
hl(s)  == get_reg16(s, "HL")
int8(x) == IF x > 127 THEN x - 256 ELSE x
push_high(s) == [write(s, s.sp, s.pc \div 256) EXCEPT !.sp = Word(@ - 1)]
pop_z(s) == [read_z(s, s.sp) EXCEPT !.sp = Word(@ + 1)]
pop_w(s) == [s EXCEPT !.w = fetch(s.m, s.sp), !.sp = Word(@ + 1)]

\* A gets the result of op.
set_a(s, res) == [set_reg8(s, REG_A, res.v) EXCEPT !.f = res.f]

-----------------------------------------------------------------------------
(* The exec functions.  s.cycle is the argument cycle; the state is        *)
(* EXECUTING unless done() sets it.                                        *)

exec_ld_r16_imm16(s) ==
  CASE s.cycle = 0 -> fetch_z(s)
    [] s.cycle = 1 -> fetch_w(s)
    [] OTHER -> done(set_reg16(s, decode_reg16(s), wz(s)))

\* HL+ and HL- move on.
Moved(s, r) ==
  CASE r = "HL+" -> set_reg16(s, r, hl(s) + 1)
    [] r = "HL-" -> set_reg16(s, r, hl(s) - 1)
    [] OTHER -> s

exec_ld_r16mem_a(s) ==
  LET r == decode_reg16mem(s)
  IN IF s.cycle = 0
     THEN write(Moved(s, r), get_reg16(s, r), get_reg8(s, REG_A))
     ELSE done(s)

exec_ld_a_r16mem(s) ==
  LET r == decode_reg16mem(s)
  IN IF s.cycle = 0
     THEN Moved(set_reg8(s, REG_A, fetch(s.m, get_reg16(s, r))), r)
     ELSE done(s)

exec_ld_imm16mem_sp(s) ==
  CASE s.cycle = 0 -> fetch_z(s)
    [] s.cycle = 1 -> fetch_w(s)
    [] s.cycle = 2 -> write(s, wz(s), Byte(s.sp))
    [] OTHER -> done(write(s, Word(wz(s) + 1), s.sp \div 256))

exec_inc_r16(s) ==
  IF s.cycle = 0 THEN set_reg16(s, decode_reg16(s), get_reg16(s, decode_reg16(s)) + 1)
  ELSE done(s)

exec_dec_r16(s) ==
  IF s.cycle = 0 THEN set_reg16(s, decode_reg16(s), get_reg16(s, decode_reg16(s)) - 1)
  ELSE done(s)

exec_add_hl_r16(s) ==
  LET x == get_reg16(s, decode_reg16(s))
      sum == add_a(get_reg8(s, REG_H), x \div 256, Num(s.f.C))
  IN IF s.cycle = 0
     THEN [set_reg8(s, REG_L, get_reg8(s, REG_L) + x) EXCEPT
             !.f.C = add3_carries(get_reg8(s, REG_L), Byte(x), 0)]
     ELSE done([set_reg8(s, REG_H, sum.v) EXCEPT !.f = [sum.f EXCEPT !.Z = s.f.Z]])

\* exec_inc_r8 and exec_dec_r8: C stays.
incremented(s, x) ==
  LET res == IF s.instr.exec = "inc_r8" THEN add_a(x, 1, 0) ELSE sub_a(x, 1, 0)
  IN [res EXCEPT !.f.C = s.f.C]

exec_inc_dec_r8(s) ==
  LET r == decode_reg8(s)
      res == incremented(s, IF r = REG_HL_MEM THEN s.z ELSE get_reg8(s, r))
  IN CASE r # REG_HL_MEM -> done([set_reg8(s, r, res.v) EXCEPT !.f = res.f])
       [] r = REG_HL_MEM /\ s.cycle = 0 -> read_z(s, hl(s))
       [] r = REG_HL_MEM /\ s.cycle = 1 -> [write(s, hl(s), res.v) EXCEPT !.f = res.f]
       [] OTHER -> done(s)

exec_ld_r8_imm8(s) ==
  LET r == decode_reg8(s)
  IN CASE s.cycle = 0 -> fetch_z(s)
       [] s.cycle = 1 /\ r = REG_HL_MEM -> write(s, hl(s), s.z)
       [] s.cycle = 1 /\ r # REG_HL_MEM -> done(set_reg8(s, r, s.z))
       [] OTHER -> done(s)

exec_rotate_a(s) ==
  done([set_a(s, twiddle(s.instr.op, get_reg8(s, REG_A), s.f)) EXCEPT !.f.Z = FALSE])

exec_daa(s) ==
  LET a    == get_reg8(s, REG_A)
      low  == s.f.H \/ (~s.f.N /\ a % 16 > 9)
      high == s.f.C \/ (~s.f.N /\ a > 153)
      adj  == 6 * Num(low) + 96 * Num(high)
      v    == Byte(IF s.f.N THEN a - adj ELSE a + adj)
  IN done([set_reg8(s, REG_A, v) EXCEPT !.f = [@ EXCEPT !.Z = v = 0, !.H = FALSE, !.C = high]])

exec_cpl(s) ==
  done([set_reg8(s, REG_A, 255 - get_reg8(s, REG_A)) EXCEPT !.f.N = TRUE, !.f.H = TRUE])

exec_scf_ccf(s) ==
  done([s EXCEPT !.f = [@ EXCEPT !.N = FALSE, !.H = FALSE, !.C = s.instr.exec = "scf" \/ ~s.f.C]])

exec_bit_twiddle_r8(s) ==
  LET r == decode_reg8(s)
      res(x) == twiddle(s.instr.op, x, s.f)
  IN CASE s.cycle = 1 /\ r # REG_HL_MEM ->
            done([set_reg8(s, r, res(get_reg8(s, r)).v) EXCEPT !.f = res(get_reg8(s, r)).f])
       [] s.cycle = 1 /\ r = REG_HL_MEM -> read_z(s, hl(s))
       [] s.cycle = 2 -> [write(s, hl(s), res(s.z).v) EXCEPT !.f = res(s.z).f]
       [] OTHER -> done(s)

exec_bit_b3_r8(s) ==
  LET r == decode_reg8(s)
      x == IF r = REG_HL_MEM THEN s.z ELSE get_reg8(s, r)
  IN IF s.cycle = 1 /\ r = REG_HL_MEM THEN read_z(s, hl(s))
     ELSE done([s EXCEPT !.z = x, !.f = [@ EXCEPT
                  !.Z = ~Bit(x, 2 ^ decode_bit_index(s)), !.N = FALSE, !.H = TRUE]])

exec_res_set_b3_r8(s) ==
  LET r == decode_reg8(s)
      res(x) == res_or_set(s.instr.op, decode_bit_index(s), x)
  IN CASE s.cycle = 1 /\ r # REG_HL_MEM -> done(set_reg8(s, r, res(get_reg8(s, r))))
       [] s.cycle = 1 /\ r = REG_HL_MEM -> read_z(s, hl(s))
       [] s.cycle = 2 -> write(s, hl(s), res(s.z))
       [] OTHER -> done(s)

exec_jr_imm8(s) ==
  CASE s.cycle = 0 -> fetch_z(s)
    [] s.cycle = 1 -> [s EXCEPT !.pc = Word(@ + int8(s.z))]
    [] OTHER -> done(s)

exec_jr_cond_imm8(s) ==
  CASE s.cycle = 0 -> fetch_z(s)
    [] s.cycle = 1 /\ eval_cond(s) -> [s EXCEPT !.pc = Word(@ + int8(s.z))]
    [] OTHER -> done(s)

exec_ld_r8_r8(s) ==
  LET src == decode_reg8(s)
      dst == decode_reg8_dst(s)
  IN CASE src # REG_HL_MEM /\ dst # REG_HL_MEM -> done(set_reg8(s, dst, get_reg8(s, src)))
       [] src = REG_HL_MEM /\ s.cycle = 0 -> read_z(s, hl(s))
       [] src = REG_HL_MEM /\ s.cycle # 0 -> done(set_reg8(s, dst, s.z))
       [] dst = REG_HL_MEM /\ s.cycle = 0 -> write(s, hl(s), get_reg8(s, src))
       [] OTHER -> done(s)

exec_op_a_r8(s) ==
  LET r == decode_reg8(s)
      x == IF r = REG_HL_MEM THEN s.z ELSE get_reg8(s, r)
  IN IF r = REG_HL_MEM /\ s.cycle = 0 THEN read_z(s, hl(s))
     ELSE done(set_a(s, alu(s.instr.op, get_reg8(s, REG_A), x, s.f)))

exec_op_a_imm8(s) ==
  IF s.cycle = 0 THEN fetch_z(s)
  ELSE done(set_a(s, alu(s.instr.op, get_reg8(s, REG_A), s.z, s.f)))

exec_ret_cond(s) ==
  CASE s.cycle = 0 -> s
    [] s.cycle = 1 /\ eval_cond(s) -> pop_z(s)
    [] s.cycle = 2 -> pop_w(s)
    [] s.cycle = 3 -> [s EXCEPT !.pc = wz(s)]
    [] OTHER -> done(s)

exec_ret(s) ==
  CASE s.cycle = 0 -> pop_z(s)
    [] s.cycle = 1 -> pop_w(s)
    [] s.cycle = 2 -> [s EXCEPT !.pc = wz(s)]
    [] OTHER -> done(s)

exec_jp(s) ==
  CASE s.cycle = 0 -> fetch_z(s)
    [] s.cycle = 1 -> fetch_w(s)
    [] s.cycle = 2 /\ (s.instr.op = "check_cond" => eval_cond(s)) -> [s EXCEPT !.pc = wz(s)]
    [] OTHER -> done(s)

exec_jp_hl(s) == done([s EXCEPT !.pc = hl(s)])

exec_call(s) ==
  CASE s.cycle = 0 -> fetch_z(s)
    [] s.cycle = 1 -> fetch_w(s)
    [] s.cycle = 2 /\ (s.instr.op = "check_cond" => eval_cond(s)) ->
         [s EXCEPT !.sp = Word(@ - 1)]
    [] s.cycle = 3 -> push_high(s)
    [] s.cycle = 4 -> [write(s, s.sp, Byte(s.pc)) EXCEPT !.pc = wz(s)]
    [] OTHER -> done(s)

exec_rst_tgt3(s) ==
  CASE s.cycle = 0 -> [s EXCEPT !.sp = Word(@ - 1)]
    [] s.cycle = 1 -> push_high(s)
    [] s.cycle = 2 -> [write(s, s.sp, Byte(s.pc)) EXCEPT !.pc = decode_tgt3(s)]
    [] OTHER -> done(s)

exec_pop_r16(s) ==
  CASE s.cycle = 0 -> pop_z(s)
    [] s.cycle = 1 -> pop_w(s)
    [] OTHER -> done(set_reg16(s, decode_reg16stk(s), wz(s)))

exec_push_r16(s) ==
  LET x == get_reg16(s, decode_reg16stk(s))
  IN CASE s.cycle = 0 -> [s EXCEPT !.sp = Word(@ - 1)]
       [] s.cycle = 1 -> [write(s, s.sp, x \div 256) EXCEPT !.sp = Word(@ - 1)]
       [] s.cycle = 2 -> write(s, s.sp, Byte(x))
       [] OTHER -> done(s)

exec_ldh_cmem_a(s) ==
  IF s.cycle = 0 THEN write(s, 65280 + get_reg8(s, REG_C), get_reg8(s, REG_A)) ELSE done(s)

exec_ldh_imm8mem_a(s) ==
  CASE s.cycle = 0 -> fetch_z(s)
    [] s.cycle = 1 -> write(s, 65280 + s.z, get_reg8(s, REG_A))
    [] OTHER -> done(s)

exec_ld_imm16mem_a(s) ==
  CASE s.cycle = 0 -> fetch_z(s)
    [] s.cycle = 1 -> fetch_w(s)
    [] s.cycle = 2 -> write(s, wz(s), get_reg8(s, REG_A))
    [] OTHER -> done(s)

exec_ldh_a_cmem(s) ==
  IF s.cycle = 0 THEN read_z(s, 65280 + get_reg8(s, REG_C))
  ELSE done(set_reg8(s, REG_A, s.z))

exec_ldh_a_imm8mem(s) ==
  CASE s.cycle = 0 -> fetch_z(s)
    [] s.cycle = 1 -> [s EXCEPT !.w = fetch(s.m, 65280 + s.z)]
    [] OTHER -> done(set_reg8(s, REG_A, s.w))

exec_ld_a_imm16mem(s) ==
  CASE s.cycle = 0 -> fetch_z(s)
    [] s.cycle = 1 -> fetch_w(s)
    [] s.cycle = 2 -> read_z(s, wz(s))
    [] OTHER -> done(set_reg8(s, REG_A, s.z))

\* Cycle 1 of both: the flags come from the low byte of SP.
sp_flags(s) ==
  [s EXCEPT !.f = [add_a(Byte(s.sp), s.z, 0).f EXCEPT !.Z = FALSE]]

exec_add_sp_imm8(s) ==
  CASE s.cycle = 0 -> fetch_z(s)
    [] s.cycle = 1 -> sp_flags(s)
    [] s.cycle = 2 -> s
    [] OTHER -> done([s EXCEPT !.sp = Word(@ + int8(s.z))])

exec_ld_hl_sp_plus_imm8(s) ==
  CASE s.cycle = 0 -> fetch_z(s)
    [] s.cycle = 1 -> sp_flags(s)
    [] OTHER -> done(set_reg16(s, "HL", s.sp + int8(s.z)))

exec_ld_sp_hl(s) == IF s.cycle = 0 THEN [s EXCEPT !.sp = hl(s)] ELSE done(s)

exec_cb_bank_switch(s) ==
  [s EXCEPT !.ir = fetch(s.m, s.pc), !.pc = Word(@ + 1), !.bank = "cb", !.instr = NULL]

\* The call of instr->exec.
exec(s) ==
  LET e == s.instr.exec IN
  CASE e = "nop" -> done(s)
    [] e = "ld_r16_imm16" -> exec_ld_r16_imm16(s)
    [] e = "ld_r16mem_a" -> exec_ld_r16mem_a(s)
    [] e = "ld_a_r16mem" -> exec_ld_a_r16mem(s)
    [] e = "ld_imm16mem_sp" -> exec_ld_imm16mem_sp(s)
    [] e = "inc_r16" -> exec_inc_r16(s)
    [] e = "dec_r16" -> exec_dec_r16(s)
    [] e = "add_hl_r16" -> exec_add_hl_r16(s)
    [] e \in {"inc_r8", "dec_r8"} -> exec_inc_dec_r8(s)
    [] e = "ld_r8_imm8" -> exec_ld_r8_imm8(s)
    [] e = "rotate_a" -> exec_rotate_a(s)
    [] e = "daa" -> exec_daa(s)
    [] e = "cpl" -> exec_cpl(s)
    [] e \in {"scf", "ccf"} -> exec_scf_ccf(s)
    [] e = "jr_imm8" -> exec_jr_imm8(s)
    [] e = "jr_cond_imm8" -> exec_jr_cond_imm8(s)
    [] e = "ld_r8_r8" -> exec_ld_r8_r8(s)
    [] e = "op_a_r8" -> exec_op_a_r8(s)
    [] e = "op_a_imm8" -> exec_op_a_imm8(s)
    [] e = "ret_cond" -> exec_ret_cond(s)
    [] e = "ret" -> exec_ret(s)
    [] e = "jp" -> exec_jp(s)
    [] e = "jp_hl" -> exec_jp_hl(s)
    [] e = "call" -> exec_call(s)
    [] e = "rst_tgt3" -> exec_rst_tgt3(s)
    [] e = "pop_r16" -> exec_pop_r16(s)
    [] e = "push_r16" -> exec_push_r16(s)
    [] e = "ldh_cmem_a" -> exec_ldh_cmem_a(s)
    [] e = "ldh_imm8mem_a" -> exec_ldh_imm8mem_a(s)
    [] e = "ld_imm16mem_a" -> exec_ld_imm16mem_a(s)
    [] e = "ldh_a_cmem" -> exec_ldh_a_cmem(s)
    [] e = "ldh_a_imm8mem" -> exec_ldh_a_imm8mem(s)
    [] e = "ld_a_imm16mem" -> exec_ld_a_imm16mem(s)
    [] e = "add_sp_imm8" -> exec_add_sp_imm8(s)
    [] e = "ld_hl_sp_plus_imm8" -> exec_ld_hl_sp_plus_imm8(s)
    [] e = "ld_sp_hl" -> exec_ld_sp_hl(s)
    [] e = "cb_bank_switch" -> exec_cb_bank_switch(s)
    [] e = "bit_twiddle_r8" -> exec_bit_twiddle_r8(s)
    [] e = "bit_b3_r8" -> exec_bit_b3_r8(s)
    [] e = "res_set_b3_r8" -> exec_res_set_b3_r8(s)

-----------------------------------------------------------------------------
(* cpu_mcycle with interrupts off.                                         *)

\* After the exec call: a complete instruction leaves nothing behind.
AfterExec(s) ==
  IF s.state = "DONE"
  THEN [s EXCEPT !.bank = "main", !.instr = NULL, !.cycle = 0, !.w = 0, !.z = 0]
  ELSE [s EXCEPT !.cycle = @ + 1]

Current(s) == IF s.instr = NULL THEN find_instruction(s.bank, s.ir) ELSE s.instr

cpu_mcycle(s) == AfterExec(exec([s EXCEPT !.instr = Current(s), !.state = "EXECUTING"]))

\* The exec functions that module Interrupts has; a run ends before them.
elsewhere == {"stop", "halt", "reti", "di", "ei", "unknown"}

\* What a program can tell: the instruction in ir is the one at pc.
Arch(s) == [registers |-> s.registers, f |-> s.f, sp |-> s.sp, pc |-> Word(s.pc - 1), m |-> s.m]

Init ==
  \E start \in Starts :
    /\ g = start.g
    /\ left = start.n
    /\ arch = Arch(start.g)

mcycle ==
  /\ left > 0
  /\ Current(g).exec \notin elsewhere
  /\ g' = cpu_mcycle(g)
  /\ left' = IF g'.state = "DONE" THEN left - 1 ELSE left
  /\ arch' = IF g'.state = "DONE" THEN Arch(g') ELSE arch

Next == mcycle
Spec == Init /\ [][Next]_vars

-----------------------------------------------------------------------------
(* Properties.                                                             *)

\* Registers, PC and SP stay in their width, the slot of [HL] stays 0, and
\* between instructions no scratch state is left (gameboy.h:242-260, cpu.c:436-442).
TypeOK ==
  /\ Typed(g)
  /\ g.state = "DONE" => Between(g)

\* Cycle by cycle the exec functions do what the instruction does as a whole:
\* result, flags, memory, stack and PC, whatever order the cycles read and
\* write in (cpu.c:533-1673).
InstructionSet == INSTANCE Isa WITH s <- arch
Implements == InstructionSet!Spec

\* The instruction that starts at pc, with its bank.
AtPc(a) ==
  IF fetch(a.m, a.pc) = 203
  THEN <<"cb", find_instruction("cb", fetch(a.m, Word(a.pc + 1)))>>
  ELSE <<"main", find_instruction("main", fetch(a.m, a.pc))>>

jumps == {"jr_imm8", "jr_cond_imm8", "jp", "jp_hl", "call", "rst_tgt3", "ret", "ret_cond"}

\* An instruction that does not jump takes as many bytes as instruction_size
\* says, which is what the disassembler and the debugger's "next" go by
\* (cpu.c:2242-2254, debug.c:857); one that may jump takes as many or jumps.
SizeMatches ==
  [][ LET at == AtPc(arch)
          size == instruction_size(at[1], at[2])
      IN arch' # arch =>
           \/ arch'.pc = Word(arch.pc + size)
           \/ at[2].exec \in jumps ]_arch
=============================================================================
