---------------------------------- MODULE MCCpu --------------------------------
(* Programs of one or two instructions for module Cpu.                       *)
EXTENDS Cpu, TLC

NotExecuted ==      \* STOP, HALT, RETI, DI, EI, the prefix, and unknown op-codes
  {16, 118, 217, 243, 251, 203} \cup {211, 219, 221, 227, 228, 235, 236, 237, 244, 252, 253}
OpCodes == Bytes \ NotExecuted

NoFlags  == Flags(0)
AllFlags == Flags(240)
Registers(b, c, d, e, h, l, a) ==
  [i \in 0 .. 7 |-> <<b, c, d, e, h, l, 0, a>>[i + 1]]
Plain == Registers(18, 52, 193, 1, 192, 64, 165)      \* HL in working RAM
Edge  == Registers(255, 255, 0, 15, 255, 255, 255)    \* HL is $FFFF

\* Memory with the bytes prog from pc on; more is memory that the run needs.
Mem(pc, prog, more) ==
  [mem |-> [a \in {pc + i - 1 : i \in DOMAIN prog} |-> prog[a - pc + 1]] @@ more,
   rom_bank |-> 1, num_rom_banks |-> 4, mbc1 |-> TRUE, dma |-> FALSE,
   buttons |-> 5, dpad |-> 10]

Lcd(lcdc, stat) == (MEM_LCDC :> lcdc) @@ (MEM_STAT :> stat)
Off == Lcd(17, 128)

State(registers, f, sp, pc, m) ==
  [registers |-> registers, f |-> f, sp |-> sp, pc |-> Word(pc + 1), ir |-> fetch(m, pc),
   state |-> "DONE", bank |-> "main", instr |-> NULL, cycle |-> 0, w |-> 0, z |-> 0,
   m |-> m]

WRAM == 49408       \* $C100
HRAM == 65408       \* $FF80
Run(registers, f, sp, pc, prog, n) ==
  [g |-> State(registers, f, sp, pc, Mem(pc, prog, Off)), n |-> n]

\* Every op-code, with an operand that is small or a negative offset.
All ==
  {Run(regs, f, sp, WRAM, prog, 1) :
     regs \in {Plain, Edge}, f \in {NoFlags, AllFlags}, sp \in {49216, 0},
     prog \in {<<op, 128, 200>> : op \in OpCodes} \cup {<<op, 5, 255>> : op \in OpCodes}
              \cup {<<203, op, 0>> : op \in Bytes}}

\* Arithmetic and rotations on the values around the carries.
Operands == {0, 1, 8, 15, 16, 127, 128, 153, 240, 255}
Alu ==
  {Run(Registers(x, 0, 0, 0, 192, 64, a), f, 0, WRAM, <<op>>, 1) :
     a \in Operands, x \in Operands, f \in {NoFlags, AllFlags},
     op \in {128, 136, 144, 152, 160, 168, 176, 184}}
Twiddles ==
  {Run(Registers(x, 0, 0, 0, 192, 64, 0), f, 0, WRAM, <<203, op>>, 1) :
     x \in Operands, f \in {NoFlags, AllFlags}, op \in {8 * i : i \in 0 .. 7}}
Wide ==      \* ADD HL,BC and ADD SP,d
  {Run(Registers(h, l, 0, 0, h2, l2, 0), NoFlags, 256 * h + l, WRAM, <<op, l2>>, 1) :
     h \in {0, 15, 255}, l \in {0, 1, 255}, h2 \in {0, 15, 240}, l2 \in {0, 127, 128, 255},
     op \in {9, 232, 248}}

\* Decimal numbers added or subtracted, then DAA.
Decimals == {0, 1, 9, 16, 21, 69, 80, 144, 153}     \* 00 01 09 10 15 45 50 90 99
Bcd ==
  {Run(Registers(x, 0, 0, 0, 192, 64, a), f, 0, WRAM, <<op, 39>>, 2) :
     a \in Decimals, x \in Decimals, f \in {NoFlags, AllFlags}, op \in {128, 136, 144, 152}}

\* A store and a read at both ends of every region and at I/O registers, with
\* the PPU off, scanning and drawing, and during a DMA; the read names the
\* address itself, its echo, or a byte of the ROM bank.
Addresses == {0, 8191, 8192, 16383, 16384, 32767, 32768, 40959, 40960, 49151, 49152, 56831,
              57344, 65023, 65024, 65183, 65184, 65279, 65280, 65284, 65344, 65345, 65348,
              65350, 65357, 65407, 65534, 65535}
Mirror(a) == IF a < 32768 THEN 16385 ELSE IF a \in 49152 .. 56831 THEN a + 8192
             ELSE IF a \in 57344 .. 65023 THEN a - 8192 ELSE a
Accesses ==
  {[g |-> State(Registers(0, 0, 0, 0, addr \div 256, addr % 256, x), NoFlags, 65500, HRAM,
                [Mem(HRAM, <<119, 250, Mirror(addr) % 256, Mirror(addr) \div 256>>, lcd)
                   EXCEPT !.dma = dma, !.mbc1 = mbc1]), n |-> 2] :
     addr \in Addresses, x \in {0, 6, 195}, dma \in BOOLEAN, mbc1 \in BOOLEAN,
     lcd \in {Off, Lcd(145, 130), Lcd(145, 131),
              Lcd(17, 192) @@ (MEM_LYC :> 0) @@ (MEM_LY :> 1) @@ (MEM_IF :> 0)}}

\* The joypad register, as programs select one half of the keys or both.
Keys ==
  {[g |-> State(Registers(0, 0, 0, 0, 192, 64, x), NoFlags, 0, WRAM,
                [Mem(WRAM, <<224, 0, 240, 0>>, Off) EXCEPT !.buttons = b, !.dpad = d]),
    n |-> 2] : x \in {0, 16, 32, 48}, b \in {0, 5}, d \in {0, 3}}

\* What is pushed is popped, and a subroutine returns, on stacks anywhere.
Stacks ==
  {Run(Plain, f, sp, WRAM, <<197 + 16 * p, 193 + 16 * q>>, 2) :
     f \in {NoFlags, AllFlags}, sp \in {49216, 0, 1, 57344, 65352}, p \in 0 .. 3, q \in 0 .. 3}
  \cup
  {Run(Plain, f, sp, WRAM, <<op, (WRAM % 256) + 3, WRAM \div 256, ret>>, 2) :
     f \in {NoFlags, AllFlags}, sp \in {49216, 0, 1, 57344},
     op \in {196, 204, 212, 220, 205}, ret \in {201, 192}}

\* PC wraps to 0.
Wrap == {Run(Plain, NoFlags, 49216, 65534, <<op, 7>>, 1) : op \in {1, 6, 24, 195, 205}}

MCStarts == All \cup Alu \cup Twiddles \cup Wide \cup Bcd \cup Accesses \cup Keys \cup Stacks
            \cup Wrap
=============================================================================
