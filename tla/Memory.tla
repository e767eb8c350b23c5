-------------------------------- MODULE Memory -------------------------------
(***************************************************************************)
(* What the CPU's fetch and store do to the memory of src/gb/cpu.c: the    *)
(* binary search of find_mem_region, the regions that the PPU or a DMA     *)
(* takes from the CPU, echo RAM, the I/O registers with rules of their own *)
(* and the bank switch of an MBC1 cartridge.                               *)
(*                                                                         *)
(* Operators on m, the part of Gameboy that fetch and store touch.  m.mem  *)
(* holds the bytes that were written; every other byte is Blank, which     *)
(* tells neighbouring addresses and the ROM banks apart.                   *)
(***************************************************************************)
EXTENDS Integers, Sequences

Bytes == 0 .. 255
UINT16_MAX == 65535
Words == 0 .. UINT16_MAX
Byte(x) == x % 256       \* the conversion to uint8_t
Word(x) == x % 65536     \* the conversion to uint16_t

\* gameboy.h
MEM_ECHO_RAM_START == 57344
MEM_HIGH_RAM_START == 65408
MEM_HIGH_RAM_END == 65534
MEM_P1_JOYPAD == 65280
MEM_DIV == 65284
MEM_IF == 65295
MEM_LCDC == 65344
MEM_STAT == 65345
MEM_LY == 65348
MEM_LYC == 65349
MEM_DMA == 65350
IF_LCD == 2
LCDC_ENABLED == 128
STAT_LC_EQ_LYC == 4
STAT_MODE_2_IRQ == 32
STAT_LYC_IRQ == 64
SELECT_BUTTONS == 32
SELECT_DPAD == 16
OAM_SCAN == 2
DRAWING == 3

Num(b) == IF b THEN 1 ELSE 0

\* The bit of weight b of x, and C's bitwise operators on bytes.
Bit(x, b) == (x \div b) % 2 = 1
Octet(bits) ==
  Num(bits[1]) + 2 * Num(bits[2]) + 4 * Num(bits[4]) + 8 * Num(bits[8])
  + 16 * Num(bits[16]) + 32 * Num(bits[32]) + 64 * Num(bits[64]) + 128 * Num(bits[128])
Weights == {1, 2, 4, 8, 16, 32, 64, 128}
and(x, y) == Octet([b \in Weights |-> Bit(x, b) /\ Bit(y, b)])
or(x, y)  == Octet([b \in Weights |-> Bit(x, b) \/ Bit(y, b)])
xor(x, y) == Octet([b \in Weights |-> Bit(x, b) # Bit(y, b)])

Blank(bank, addr) == Byte(addr + (IF addr \in 16384 .. 32767 THEN 3 * bank ELSE 0))

Memories(Written) ==
  [mem : [Written -> Bytes],
   rom_bank : Nat \ {0}, num_rom_banks : Nat \ {0},
   mbc1 : BOOLEAN,              \* the cartridge is an MBC1, with or without RAM
   dma : BOOLEAN,               \* dma_ticks_remaining > 0
   buttons : 0 .. 15, dpad : 0 .. 15]

\* g->mem[addr], and an assignment to it.
At(m, addr) == IF addr \in DOMAIN m.mem THEN m.mem[addr] ELSE Blank(m.rom_bank, addr)
Put(m, addr, x) ==
  [m EXCEPT !.mem = [a \in DOMAIN @ \cup {addr} |-> IF a = addr THEN x ELSE @[a]]]

-----------------------------------------------------------------------------
Region(name, start, end) == [name |-> name, start |-> start, end |-> end]

mem_regions ==
  << Region("ROM",            0, 32767),
     Region("VRAM",       32768, 40959),
     Region("EXT_RAM",    40960, 49151),
     Region("WORK_RAM",   49152, 57343),
     Region("ECHO_RAM",   57344, 65023),
     Region("OAM",        65024, 65183),
     Region("Prohibited", 65184, 65279),
     Region("IO",         65280, 65407),
     Region("HIGH_RAM",   65408, 65534),
     Region("IE",         65535, 65535) >>

\* The regions leave no gap, so that the NULL of find_mem_region is not met.
find_mem_region(addr) ==
  LET search[range \in (1 .. Len(mem_regions)) \X (1 .. Len(mem_regions))] ==
        LET left == range[1]
            right == range[2]
            mid == left + (right - left) \div 2
        IN IF left >= right THEN left
           ELSE IF addr <= mem_regions[mid].end THEN search[<<left, mid>>]
           ELSE search[<<mid + 1, right>>]
  IN mem_regions[search[<<1, Len(mem_regions)>>]].name

ppu_enabled(m) == Bit(At(m, MEM_LCDC), LCDC_ENABLED)
ppu_mode(m)    == At(m, MEM_STAT) % 4

\* During a DMA only high RAM is accessible.
dma_blocks(m, addr) == m.dma /\ addr \notin MEM_HIGH_RAM_START .. MEM_HIGH_RAM_END

\* The tests of do_vram_store, do_vram_fetch, do_oam_store, do_oam_fetch and
\* the prohibited region.
region_blocks(m, addr) ==
  LET region == find_mem_region(addr) IN
  \/ region = "Prohibited"
  \/ region = "VRAM" /\ ppu_enabled(m) /\ ppu_mode(m) = DRAWING
  \/ region = "OAM" /\ ppu_enabled(m) /\ ppu_mode(m) \in {OAM_SCAN, DRAWING}

echo(addr) == addr - MEM_ECHO_RAM_START + 49152     \* $C000

-----------------------------------------------------------------------------
fetch(m, addr) ==
  IF dma_blocks(m, addr) \/ region_blocks(m, addr) \/ addr = 65357     \* $FF4D
  THEN 255
  ELSE At(m, IF find_mem_region(addr) = "ECHO_RAM" THEN echo(addr) ELSE addr)

do_rom_store(m, addr, x) ==
  IF ~m.mbc1 \/ addr \notin 8192 .. 16383 THEN m
  ELSE LET bank == x % m.num_rom_banks
       IN [m EXCEPT !.rom_bank = IF bank = 0 THEN 1 ELSE bank]

\* ppu_enable of ppu.c: the mode becomes OAM_SCAN and LY 0, each of which may
\* request an interrupt.
ppu_enable(m) ==
  LET stat  == and(At(m, MEM_STAT), 248) + OAM_SCAN
      match == At(m, MEM_LY) # At(m, MEM_LYC) /\ At(m, MEM_LYC) = 0
      irq   == Bit(stat, STAT_MODE_2_IRQ) \/ (match /\ Bit(stat, STAT_LYC_IRQ))
  IN Put(Put(Put(m, MEM_IF, or(At(m, MEM_IF), IF irq THEN IF_LCD ELSE 0)),
             MEM_STAT, stat + (IF match THEN STAT_LC_EQ_LYC ELSE 0)),
         MEM_LY, 0)

\* The keys of P1 that are 0, which is pressed.
pressed(m, x) == or(IF Bit(x, SELECT_BUTTONS) THEN 0 ELSE m.buttons,
                    IF Bit(x, SELECT_DPAD) THEN 0 ELSE m.dpad)

do_io_store(m, addr, x) ==
  CASE addr = MEM_P1_JOYPAD -> Put(m, addr, and(x, 240) + 15 - pressed(m, x))
    [] addr = MEM_DIV  -> Put(m, addr, 0)
    [] addr = MEM_LCDC -> Put(IF ~ppu_enabled(m) /\ Bit(x, LCDC_ENABLED)
                              THEN ppu_enable(m) ELSE m, addr, x)
    [] addr = MEM_STAT -> Put(m, addr, and(x, 248))
    [] addr = MEM_LY   -> m
    [] addr = MEM_DMA  -> Put([m EXCEPT !.dma = TRUE], addr, x)
    [] OTHER           -> Put(m, addr, x)

store(m, addr, x) ==
  LET region == find_mem_region(addr) IN
  IF dma_blocks(m, addr) \/ region_blocks(m, addr) THEN m
  ELSE CASE region = "ROM"      -> do_rom_store(m, addr, x)
         [] region = "IO"       -> do_io_store(m, addr, x)
         [] region = "ECHO_RAM" -> Put(m, echo(addr), x)
         [] OTHER               -> Put(m, addr, x)
=============================================================================
