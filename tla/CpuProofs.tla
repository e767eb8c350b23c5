------------------------------- MODULE CpuProofs -------------------------------
(***************************************************************************)
(* Proofs about Cpu, for any program in memory, any start of the CPU and   *)
(* any number of instructions.  Bytes and words; the memory map; the rows  *)
(* of the tables and what the search finds; what each exec function does   *)
(* in a cycle; and from these the types and the sizes of instructions.     *)
(***************************************************************************)
EXTENDS Cpu, FiniteSetTheorems, SequenceTheorems, TLAPS

-----------------------------------------------------------------------------
(* Bytes.                                                                  *)

LEMMA WordRange == \A x : x \in Words <=> x \in Int /\ 0 <= x /\ x <= 65535
<1>1. UINT16_MAX = 65535
  BY DEF UINT16_MAX
<1>2. UINT16_MAX \in Int
  BY <1>1
<1>3. \A x : x \in Words <=> x \in Int /\ 0 <= x /\ x <= UINT16_MAX
  BY <1>2 DEF Words
<1> QED BY <1>1, <1>3

LEMMA ByteRange == \A x : x \in Bytes <=> x \in Int /\ 0 <= x /\ x <= 255
BY DEF Bytes

LEMMA OctetIsByte == ASSUME NEW f PROVE Octet(f) \in Bytes
BY DEF Octet, Num, Bytes

\* A bit of the result is set if it is set in both.
LEMMA AndBits ==
  ASSUME NEW x, NEW y
  PROVE  /\ and(x, y) \in Bytes
         /\ and(x, y) = Num(Bit(x, 1) /\ Bit(y, 1)) + 2 * Num(Bit(x, 2) /\ Bit(y, 2))
              + 4 * Num(Bit(x, 4) /\ Bit(y, 4)) + 8 * Num(Bit(x, 8) /\ Bit(y, 8))
              + 16 * Num(Bit(x, 16) /\ Bit(y, 16)) + 32 * Num(Bit(x, 32) /\ Bit(y, 32))
              + 64 * Num(Bit(x, 64) /\ Bit(y, 64)) + 128 * Num(Bit(x, 128) /\ Bit(y, 128))
BY OctetIsByte, Zenon DEF and, Octet, Weights

LEMMA BitwiseBytes ==
  ASSUME NEW x, NEW y
  PROVE  and(x, y) \in Bytes /\ or(x, y) \in Bytes /\ xor(x, y) \in Bytes
BY OctetIsByte DEF and, or, xor

LEMMA Bits248 ==
  /\ ~Bit(248, 1) /\ ~Bit(248, 2) /\ ~Bit(248, 4)
  /\ ~Bit(240, 1) /\ ~Bit(240, 2) /\ ~Bit(240, 4) /\ ~Bit(240, 8)
BY DEF Bit

LEMMA Masked ==
  ASSUME NEW x
  PROVE  and(x, 248) \in 0 .. 248 /\ and(x, 240) \in 0 .. 240
BY AndBits, Bits248 DEF Num

LEMMA NibbleOr ==
  ASSUME NEW x \in 0 .. 15, NEW y \in 0 .. 15
  PROVE  or(x, y) \in 0 .. 15
<1> DEFINE f == [b \in Weights |-> Bit(x, b) \/ Bit(y, b)]
<1>0. \A b \in {16, 32, 64, 128} : ~Bit(x, b) /\ ~Bit(y, b)
  BY DEF Bit
<1>1. ~f[16] /\ ~f[32] /\ ~f[64] /\ ~f[128]
  BY <1>0, Zenon DEF Weights
<1>2. Octet(f) = Num(f[1]) + 2 * Num(f[2]) + 4 * Num(f[4]) + 8 * Num(f[8])
  BY <1>1 DEF Octet, Num
<1>3. Octet(f) \in 0 .. 15
  BY <1>2 DEF Num
<1> QED BY <1>3 DEF or

-----------------------------------------------------------------------------
(* Regions.                                                                *)

\* The regions cover the addresses in order, without a gap.
LEMMA RegionsTile ==
  /\ Len(mem_regions) = 10 /\ DOMAIN mem_regions = 1 .. 10
  /\ mem_regions[1].name = "ROM" /\ mem_regions[1].start = 0 /\ mem_regions[1].end = 32767
  /\ mem_regions[2].name = "VRAM" /\ mem_regions[2].start = 32768 /\ mem_regions[2].end = 40959
  /\ mem_regions[3].name = "EXT_RAM" /\ mem_regions[3].start = 40960 /\ mem_regions[3].end = 49151
  /\ mem_regions[4].name = "WORK_RAM" /\ mem_regions[4].start = 49152 /\ mem_regions[4].end = 57343
  /\ mem_regions[5].name = "ECHO_RAM" /\ mem_regions[5].start = 57344 /\ mem_regions[5].end = 65023
  /\ mem_regions[6].name = "OAM" /\ mem_regions[6].start = 65024 /\ mem_regions[6].end = 65183
  /\ mem_regions[7].name = "Prohibited" /\ mem_regions[7].start = 65184 /\ mem_regions[7].end = 65279
  /\ mem_regions[8].name = "IO" /\ mem_regions[8].start = 65280 /\ mem_regions[8].end = 65407
  /\ mem_regions[9].name = "HIGH_RAM" /\ mem_regions[9].start = 65408 /\ mem_regions[9].end = 65534
  /\ mem_regions[10].name = "IE" /\ mem_regions[10].start = 65535 /\ mem_regions[10].end = 65535
<1>0. Len(mem_regions) = 10 /\ DOMAIN mem_regions = 1 .. 10
  BY DEF mem_regions
<1>1. mem_regions[1].name = "ROM" /\ mem_regions[1].start = 0 /\ mem_regions[1].end = 32767
  <2>1. mem_regions[1] = Region("ROM", 0, 32767)
    BY DEF mem_regions
  <2> QED BY <2>1 DEF Region
<1>2. mem_regions[2].name = "VRAM" /\ mem_regions[2].start = 32768 /\ mem_regions[2].end = 40959
  <2>1. mem_regions[2] = Region("VRAM", 32768, 40959)
    BY DEF mem_regions
  <2> QED BY <2>1 DEF Region
<1>3. mem_regions[3].name = "EXT_RAM" /\ mem_regions[3].start = 40960 /\ mem_regions[3].end = 49151
  <2>1. mem_regions[3] = Region("EXT_RAM", 40960, 49151)
    BY DEF mem_regions
  <2> QED BY <2>1 DEF Region
<1>4. mem_regions[4].name = "WORK_RAM" /\ mem_regions[4].start = 49152 /\ mem_regions[4].end = 57343
  <2>1. mem_regions[4] = Region("WORK_RAM", 49152, 57343)
    BY DEF mem_regions
  <2> QED BY <2>1 DEF Region
<1>5. mem_regions[5].name = "ECHO_RAM" /\ mem_regions[5].start = 57344 /\ mem_regions[5].end = 65023
  <2>1. mem_regions[5] = Region("ECHO_RAM", 57344, 65023)
    BY DEF mem_regions
  <2> QED BY <2>1 DEF Region
<1>6. mem_regions[6].name = "OAM" /\ mem_regions[6].start = 65024 /\ mem_regions[6].end = 65183
  <2>1. mem_regions[6] = Region("OAM", 65024, 65183)
    BY DEF mem_regions
  <2> QED BY <2>1 DEF Region
<1>7. mem_regions[7].name = "Prohibited" /\ mem_regions[7].start = 65184 /\ mem_regions[7].end = 65279
  <2>1. mem_regions[7] = Region("Prohibited", 65184, 65279)
    BY DEF mem_regions
  <2> QED BY <2>1 DEF Region
<1>8. mem_regions[8].name = "IO" /\ mem_regions[8].start = 65280 /\ mem_regions[8].end = 65407
  <2>1. mem_regions[8] = Region("IO", 65280, 65407)
    BY DEF mem_regions
  <2> QED BY <2>1 DEF Region
<1>9. mem_regions[9].name = "HIGH_RAM" /\ mem_regions[9].start = 65408 /\ mem_regions[9].end = 65534
  <2>1. mem_regions[9] = Region("HIGH_RAM", 65408, 65534)
    BY DEF mem_regions
  <2> QED BY <2>1 DEF Region
<1>10. mem_regions[10].name = "IE" /\ mem_regions[10].start = 65535 /\ mem_regions[10].end = 65535
  <2>1. mem_regions[10] = Region("IE", 65535, 65535)
    BY DEF mem_regions
  <2> QED BY <2>1 DEF Region
<1> QED BY <1>0, <1>1, <1>2, <1>3, <1>4, <1>5, <1>6, <1>7, <1>8, <1>9, <1>10

\* The binary search of find_mem_region ends at the region of the address.
LEMMA RegionIsFound ==
  ASSUME NEW addr \in Words
  PROVE  \E i \in DOMAIN mem_regions :
           /\ mem_regions[i].start <= addr /\ addr <= mem_regions[i].end
           /\ find_mem_region(addr) = mem_regions[i].name
<1> DEFINE k == 1 + Num(addr > 32767) + Num(addr > 40959) + Num(addr > 49151)
                + Num(addr > 57343) + Num(addr > 65023) + Num(addr > 65183)
                + Num(addr > 65279) + Num(addr > 65407) + Num(addr > 65534)
<1>1. /\ k \in 1 .. 10
      /\ mem_regions[k].start <= addr /\ addr <= mem_regions[k].end
      /\ \A i \in 1 .. 10 : addr <= mem_regions[i].end <=> k <= i
  <2>1. /\ k \in 1 .. 10 /\ addr \in Nat /\ addr <= 65535
        /\ k <= 1 <=> addr <= 32767
        /\ k <= 2 <=> addr <= 40959
        /\ k <= 3 <=> addr <= 49151
        /\ k <= 4 <=> addr <= 57343
        /\ k <= 5 <=> addr <= 65023
        /\ k <= 6 <=> addr <= 65183
        /\ k <= 7 <=> addr <= 65279
        /\ k <= 8 <=> addr <= 65407
        /\ k <= 9 <=> addr <= 65534
    BY WordRange DEF Num
  <2> HIDE DEF k
  <2>2. ASSUME NEW i \in 1 .. 10
        PROVE  /\ addr <= mem_regions[i].end <=> k <= i
               /\ k = i => mem_regions[i].start <= addr /\ addr <= mem_regions[i].end
    <3>1. CASE i = 1
      <4>1. mem_regions[i].start = 0 /\ mem_regions[i].end = 32767
        BY <3>1, RegionsTile
      <4>2. addr <= mem_regions[i].end <=> k <= i
        BY <2>1, <3>1, <4>1
      <4>3. k = i => mem_regions[i].start <= addr /\ addr <= mem_regions[i].end
        BY <2>1, <3>1, <4>1, <4>2
      <4> QED BY <4>2, <4>3
    <3>2. CASE i = 2
      <4>1. mem_regions[i].start = 32768 /\ mem_regions[i].end = 40959
        BY <3>2, RegionsTile
      <4> QED BY <2>1, <3>2, <4>1
    <3>3. CASE i = 3
      <4>1. mem_regions[i].start = 40960 /\ mem_regions[i].end = 49151
        BY <3>3, RegionsTile
      <4> QED BY <2>1, <3>3, <4>1
    <3>4. CASE i = 4
      <4>1. mem_regions[i].start = 49152 /\ mem_regions[i].end = 57343
        BY <3>4, RegionsTile
      <4> QED BY <2>1, <3>4, <4>1
    <3>5. CASE i = 5
      <4>1. mem_regions[i].start = 57344 /\ mem_regions[i].end = 65023
        BY <3>5, RegionsTile
      <4> QED BY <2>1, <3>5, <4>1
    <3>6. CASE i = 6
      <4>1. mem_regions[i].start = 65024 /\ mem_regions[i].end = 65183
        BY <3>6, RegionsTile
      <4> QED BY <2>1, <3>6, <4>1
    <3>7. CASE i = 7
      <4>1. mem_regions[i].start = 65184 /\ mem_regions[i].end = 65279
        BY <3>7, RegionsTile
      <4> QED BY <2>1, <3>7, <4>1
    <3>8. CASE i = 8
      <4>1. mem_regions[i].start = 65280 /\ mem_regions[i].end = 65407
        BY <3>8, RegionsTile
      <4> QED BY <2>1, <3>8, <4>1
    <3>9. CASE i = 9
      <4>1. mem_regions[i].start = 65408 /\ mem_regions[i].end = 65534
        BY <3>9, RegionsTile
      <4> QED BY <2>1, <3>9, <4>1
    <3>10. CASE i = 10
      <4>1. mem_regions[i].start = 65535 /\ mem_regions[i].end = 65535
        BY <3>10, RegionsTile
      <4> QED BY <2>1, <3>10, <4>1
    <3> QED BY <3>1, <3>2, <3>3, <3>4, <3>5, <3>6, <3>7, <3>8, <3>9, <3>10
  <2>3. mem_regions[k].start <= addr /\ addr <= mem_regions[k].end
    BY <2>1, <2>2
  <2>4. \A i \in 1 .. 10 : addr <= mem_regions[i].end <=> k <= i
    BY <2>2
  <2> QED BY <2>1, <2>3, <2>4
<1> HIDE DEF k
<1> DEFINE P == (1 .. Len(mem_regions)) \X (1 .. Len(mem_regions))
           Mid(l, r) == l + (r - l) \div 2
           Step(f, l, r) == IF l >= r THEN l
                            ELSE IF addr <= mem_regions[Mid(l, r)].end THEN f[<<l, Mid(l, r)>>]
                            ELSE f[<<Mid(l, r) + 1, r>>]
           Found(l, r) == IF l >= r \/ k < l THEN l ELSE IF k > r THEN r ELSE k
           found == [p \in P |-> Found(p[1], p[2])]
           search[p \in P] == Step(search, p[1], p[2])
<1>2. ASSUME NEW f, NEW l \in 1 .. 10, NEW r \in 1 .. 10, l < r,
             NEW mid \in 1 .. 10, mid = l + (r - l) \div 2
      PROVE  Step(f, l, r) = IF k <= mid THEN f[<<l, mid>>] ELSE f[<<mid + 1, r>>]
  <2>1. Step(f, l, r) = IF addr <= mem_regions[mid].end THEN f[<<l, mid>>] ELSE f[<<mid + 1, r>>]
    BY <1>2
  <2>2. addr <= mem_regions[mid].end <=> k <= mid
    BY <1>1
  <2> QED BY <2>1, <2>2, Zenon
<1>3. ASSUME NEW f, NEW l \in 1 .. 10, NEW r \in 1 .. 10, l >= r
      PROVE  Step(f, l, r) = l
  BY <1>3
<1> HIDE DEF Step
<1>4. found = [p \in P |-> Step(found, p[1], p[2])]
  <2>1. \A l, r \in 1 .. 10 : found[<<l, r>>] = Found(l, r)
    BY RegionsTile
  <2> HIDE DEF found
  <2>2. ASSUME NEW l \in 1 .. 10, NEW r \in 1 .. 10
        PROVE  Found(l, r) = Step(found, l, r)
    <3>1. CASE l >= r
      BY <1>3, <3>1
    <3>2. CASE l < r
      <4>1. PICK mid \in 1 .. 10 : mid = l + (r - l) \div 2 /\ l <= mid /\ mid < r
        BY <3>2
      <4>2. CASE k <= mid
        <5>1. Step(found, l, r) = Found(l, mid)
          BY <1>2, <2>1, <3>2, <4>1, <4>2
        <5> QED BY <1>1, <3>2, <4>1, <4>2, <5>1
      <4>3. CASE ~(k <= mid)
        <5>1. mid + 1 \in 1 .. 10
          BY <4>1
        <5>2. Step(found, l, r) = Found(mid + 1, r)
          <6> HIDE DEF Found
          <6> QED BY <1>2, <2>1, <3>2, <4>1, <4>3, <5>1
        <5> QED BY <1>1, <3>2, <4>1, <4>3, <5>2
      <4> QED BY <4>2, <4>3
    <3> QED BY <3>1, <3>2
  <2> HIDE DEF Found
  <2>3. \A p \in P : Found(p[1], p[2]) = Step(found, p[1], p[2])
    BY <2>2, RegionsTile
  <2>4. found = [p \in P |-> Found(p[1], p[2])]
    BY DEF found
  <2> HIDE DEF P
  <2> QED BY <2>3, <2>4
<1> HIDE DEF found
<1>5. search = [p \in P |-> Step(search, p[1], p[2])]
  BY <1>4, Zenon DEF search
<1>6. find_mem_region(addr) = mem_regions[search[<<1, Len(mem_regions)>>]].name
  BY Zenon DEF find_mem_region, Step
<1> HIDE DEF search
<1>7. \A l, r \in 1 .. 10 : search[<<l, r>>] = Step(search, l, r)
  BY <1>5, RegionsTile
<1>8. /\ search[<<1, 10>>] = IF k <= 5 THEN search[<<1, 5>>] ELSE search[<<6, 10>>]
      /\ search[<<1, 5>>]  = IF k <= 3 THEN search[<<1, 3>>] ELSE search[<<4, 5>>]
      /\ search[<<1, 3>>]  = IF k <= 2 THEN search[<<1, 2>>] ELSE search[<<3, 3>>]
      /\ search[<<1, 2>>]  = IF k <= 1 THEN search[<<1, 1>>] ELSE search[<<2, 2>>]
      /\ search[<<4, 5>>]  = IF k <= 4 THEN search[<<4, 4>>] ELSE search[<<5, 5>>]
      /\ search[<<6, 10>>] = IF k <= 8 THEN search[<<6, 8>>] ELSE search[<<9, 10>>]
      /\ search[<<6, 8>>]  = IF k <= 7 THEN search[<<6, 7>>] ELSE search[<<8, 8>>]
      /\ search[<<6, 7>>]  = IF k <= 6 THEN search[<<6, 6>>] ELSE search[<<7, 7>>]
      /\ search[<<9, 10>>] = IF k <= 9 THEN search[<<9, 9>>] ELSE search[<<10, 10>>]
  BY <1>2, <1>7
<1>9. ASSUME NEW l \in 1 .. 10
      PROVE  search[<<l, l>>] = l
  <2>1. search[<<l, l>>] = Step(search, l, l)
    BY <1>7, Zenon
  <2>2. Step(search, l, l) = l
    BY <1>3
  <2> QED BY <2>1, <2>2
<1>10. search[<<1, 10>>] = k
  BY <1>1, <1>8, <1>9
<1> QED BY <1>1, <1>6, <1>10, RegionsTile

LEMMA EchoAddresses ==
  ASSUME NEW addr \in Words, find_mem_region(addr) = "ECHO_RAM"
  PROVE  57344 <= addr /\ addr <= 65023 /\ echo(addr) \in Words
<1>1. PICK i \in DOMAIN mem_regions : /\ mem_regions[i].start <= addr /\ addr <= mem_regions[i].end
                                       /\ mem_regions[i].name = "ECHO_RAM"
  BY RegionIsFound
<1>2. \A j \in {1, 2, 3, 4, 6, 7, 8, 9, 10} : mem_regions[j].name # "ECHO_RAM"
  BY RegionsTile
<1>3. i = 5
  BY <1>1, <1>2, RegionsTile
<1>4. mem_regions[i].start = 57344 /\ mem_regions[i].end = 65023
  BY <1>3, RegionsTile
<1>5. 57344 <= addr /\ addr <= 65023
  BY <1>1, <1>4
<1>6. echo(addr) = addr - 8192 /\ addr \in Nat
  BY WordRange DEF echo, MEM_ECHO_RAM_START
<1>7. echo(addr) \in Words
  BY <1>5, <1>6, WordRange
<1> QED BY <1>5, <1>7
-----------------------------------------------------------------------------
(* Memory.  Every byte fetched is a byte, and a store keeps memory a       *)
(* memory.                                                                 *)

IsMemory(m) == DOMAIN m.mem \subseteq Words /\ m \in Memories(DOMAIN m.mem)

LEMMA ByteIsByte == ASSUME NEW x \in Int PROVE Byte(x) \in Bytes
BY ByteRange DEF Byte

LEMMA WordIsWord == ASSUME NEW x \in Int PROVE Word(x) \in Words
BY WordRange DEF Word

LEMMA AtIsByte ==
  ASSUME NEW m, IsMemory(m), NEW addr \in Words
  PROVE  At(m, addr) \in Bytes
<1>1. m.mem \in [DOMAIN m.mem -> Bytes] /\ m.rom_bank \in Nat
  BY DEF IsMemory, Memories
<1>2. CASE addr \in DOMAIN m.mem
  BY <1>1, <1>2 DEF At
<1>3. CASE addr \notin DOMAIN m.mem
  <2>1. PICK x \in Nat : Blank(m.rom_bank, addr) = Byte(addr + x)
    BY <1>1 DEF Blank
  <2>2. addr + x \in Int
    BY WordRange
  <2> QED BY <1>3, <2>1, <2>2, ByteIsByte DEF At
<1> QED BY <1>2, <1>3

LEMMA PutIsMemory ==
  ASSUME NEW m, IsMemory(m), NEW addr \in Words, NEW x \in Bytes
  PROVE  IsMemory(Put(m, addr, x))
<1> DEFINE new == [a \in DOMAIN m.mem \cup {addr} |-> IF a = addr THEN x ELSE m.mem[a]]
<1>1. m.mem \in [DOMAIN m.mem -> Bytes]
  BY DEF IsMemory, Memories
<1>2. DOMAIN new = {addr} \cup DOMAIN m.mem /\ new \in [DOMAIN new -> Bytes]
  BY <1>1
<1>3. DOMAIN new \subseteq Words
  BY <1>2 DEF IsMemory
<1> HIDE DEF new
<1>4. Put(m, addr, x) = [m EXCEPT !.mem = new]
  BY DEF Put, new
<1> QED BY <1>2, <1>3, <1>4 DEF IsMemory, Memories

LEMMA FetchIsByte ==
  ASSUME NEW m, IsMemory(m), NEW addr \in Words
  PROVE  fetch(m, addr) \in Bytes
<1>1. 255 \in Bytes
  BY ByteRange
<1> QED BY <1>1, AtIsByte, EchoAddresses DEF fetch

\* do_rom_store never leaves bank 0 switched in.
LEMMA RomStoreIsMemory ==
  ASSUME NEW m, IsMemory(m), NEW addr, NEW x \in Bytes
  PROVE  IsMemory(do_rom_store(m, addr, x))
<1>1. m.num_rom_banks \in Nat /\ m.num_rom_banks > 0 /\ x \in Nat
  BY ByteRange DEF IsMemory, Memories
<1>2. x % m.num_rom_banks \in Nat
  BY <1>1
<1>3. PICK bank \in Nat \ {0} : do_rom_store(m, addr, x) \in {m, [m EXCEPT !.rom_bank = bank]}
  BY <1>2 DEF do_rom_store
<1> QED BY <1>3 DEF IsMemory, Memories

Registers == {MEM_P1_JOYPAD, MEM_DIV, MEM_IF, MEM_LCDC, MEM_STAT, MEM_LY, MEM_LYC, MEM_DMA}

LEMMA RegistersAreWords == Registers \subseteq Words
BY WordRange DEF Registers, MEM_P1_JOYPAD, MEM_DIV, MEM_IF, MEM_LCDC, MEM_STAT, MEM_LY,
                 MEM_LYC, MEM_DMA

LEMMA PpuEnableIsMemory ==
  ASSUME NEW m, IsMemory(m)
  PROVE  IsMemory(ppu_enable(m))
<1>1. PICK a \in Bytes, b \in Bytes :
        ppu_enable(m) = Put(Put(Put(m, MEM_IF, a), MEM_STAT, b), MEM_LY, 0)
  <2> DEFINE stat == and(At(m, MEM_STAT), 248) + OAM_SCAN
             match == At(m, MEM_LY) # At(m, MEM_LYC) /\ At(m, MEM_LYC) = 0
             irq == Bit(stat, STAT_MODE_2_IRQ) \/ (match /\ Bit(stat, STAT_LYC_IRQ))
             a == or(At(m, MEM_IF), IF irq THEN IF_LCD ELSE 0)
             b == stat + (IF match THEN STAT_LC_EQ_LYC ELSE 0)
  <2>1. a \in Bytes
    BY BitwiseBytes
  <2>2. b \in Bytes
    <3>1. and(At(m, MEM_STAT), 248) \in 0 .. 248
      BY Masked
    <3> QED BY <3>1, ByteRange DEF OAM_SCAN, STAT_LC_EQ_LYC
  <2>3. ppu_enable(m) = Put(Put(Put(m, MEM_IF, a), MEM_STAT, b), MEM_LY, 0)
    BY DEF ppu_enable
  <2> HIDE DEF a, b
  <2> QED BY <2>1, <2>2, <2>3
<1>2. 0 \in Bytes
  BY ByteRange
<1> QED BY <1>1, <1>2, PutIsMemory, RegistersAreWords DEF Registers

LEMMA IoStoreIsMemory ==
  ASSUME NEW m, IsMemory(m), NEW addr \in Words, NEW x \in Bytes
  PROVE  IsMemory(do_io_store(m, addr, x))
<1>1. and(x, 240) + 15 - pressed(m, x) \in Bytes
  <2>1. pressed(m, x) \in 0 .. 15
    BY NibbleOr DEF pressed, IsMemory, Memories
  <2>2. and(x, 240) \in 0 .. 240
    BY Masked
  <2> QED BY <2>1, <2>2, ByteRange
<1>2. 0 \in Bytes /\ and(x, 248) \in Bytes
  BY BitwiseBytes, ByteRange
<1>3. IsMemory([m EXCEPT !.dma = TRUE])
  BY Zenon DEF IsMemory, Memories
<1> HIDE DEF IsMemory
<1> QED BY <1>1, <1>2, <1>3, PutIsMemory, PpuEnableIsMemory DEF do_io_store

LEMMA StoreIsMemory ==
  ASSUME NEW m, IsMemory(m), NEW addr \in Words, NEW x \in Bytes
  PROVE  IsMemory(store(m, addr, x))
BY PutIsMemory, RomStoreIsMemory, IoStoreIsMemory, EchoAddresses DEF store
-----------------------------------------------------------------------------
(* The rows of the tables.                                                 *)

AluOps == {"add_a", "adc_a", "sub_a", "sbc_a", "and_a", "xor_a", "or_a", "cp_a"}
RotateOps == {"rlc", "rrc", "rl", "rr"}
TwiddleOps == {"rlc", "rrc", "rl", "rr", "sla", "sra", "swap_nibbles", "srl"}

\* The exec functions of the first bank that neither look at op nor jump, by
\* the bytes of their operands; with the jumps, those that need nothing of their
\* row but its shift.
NoBytes ==
  {"nop", "ld_r16mem_a", "ld_a_r16mem", "inc_r16", "dec_r16", "add_hl_r16", "inc_r8", "dec_r8",
   "daa", "cpl", "scf", "ccf", "pop_r16", "push_r16", "ldh_cmem_a", "ldh_a_cmem", "ld_sp_hl"}
OneByte ==
  {"ld_r8_imm8", "ldh_imm8mem_a", "ldh_a_imm8mem", "add_sp_imm8", "ld_hl_sp_plus_imm8"}
TwoBytes == {"ld_r16_imm16", "ld_imm16mem_sp", "ld_imm16mem_a", "ld_a_imm16mem"}
PlainExecs == NoBytes \cup OneByte \cup TwoBytes \cup jumps

OperandBytes(e) ==
  CASE e \in TwoBytes -> 2 [] e \in OneByte \cup {"op_a_imm8"} -> 1 [] OTHER -> 0

Matches(op_code, row) == and(op_code, op_code_mask(row)) = row.op_code

\* What the exec functions and the size of an instruction rely on in a row.
MainRow(r) ==
  /\ r.shift \in {0, 3, 4}
  /\ \/ r.exec \in PlainExecs
     \/ r.exec \in elsewhere
     \/ r.exec = "cb_bank_switch"
     \/ r.exec = "ld_r8_r8" /\ r.shift = 0
     \/ r.exec \in {"op_a_r8", "op_a_imm8"} /\ r.op \in AluOps
     \/ r.exec = "rotate_a" /\ r.op \in RotateOps
  /\ r.exec \notin jumps \cup elsewhere =>
       operand_size(r.operand1) + operand_size(r.operand2) = OperandBytes(r.exec)
  /\ Matches(203, r) => r.exec = "cb_bank_switch"

CbRow(r) ==
  /\ r.shift = 0
  /\ \/ r.exec \in {"bit_b3_r8", "res_set_b3_r8"}
     \/ r.exec = "bit_twiddle_r8" /\ r.op \in TwiddleOps
  /\ operand_size(r.operand1) + operand_size(r.operand2) = 0

LEMMA RowFields ==
  ASSUME NEW code, NEW operand1, NEW operand2, NEW shift, NEW e, NEW op
  PROVE  /\ Row(code, operand1, operand2, shift, e, op).op_code = code
         /\ Row(code, operand1, operand2, shift, e, op).operand1 = operand1
         /\ Row(code, operand1, operand2, shift, e, op).operand2 = operand2
         /\ Row(code, operand1, operand2, shift, e, op).shift = shift
         /\ Row(code, operand1, operand2, shift, e, op).exec = e
         /\ Row(code, operand1, operand2, shift, e, op).op = op
BY DEF Row

\* The bytes and the bits of op-code of each operand.
LEMMA OperandFacts ==
  /\ \A o \in {"NONE", "A", "HL", "SP", "CMEM"} :
       operand_size(o) = 0 /\ operand_op_code_bits(o) = 0
  /\ \A o \in {"R16", "R16STK", "R16MEM", "COND"} :
       operand_size(o) = 0 /\ operand_op_code_bits(o) = 2
  /\ \A o \in {"R8", "R8_DST", "TGT3", "BIT_INDEX"} :
       operand_size(o) = 0 /\ operand_op_code_bits(o) = 3
  /\ \A o \in {"SP_PLUS_IMM8", "IMM8", "IMM8_OFFSET", "IMM8MEM"} :
       operand_size(o) = 1 /\ operand_op_code_bits(o) = 0
  /\ \A o \in {"IMM16", "IMM16ADDR", "IMM16MEM"} :
       operand_size(o) = 2 /\ operand_op_code_bits(o) = 0
BY DEF operand_size, operand_op_code_bits

\* The masks that occur in the tables.
LEMMA Masks ==
  ASSUME NEW r, r.shift \in Nat,
         NEW b, b = operand_op_code_bits(r.operand1) + operand_op_code_bits(r.operand2)
  PROVE  /\ b = 0 => op_code_mask(r) = 255
         /\ b = 2 /\ r.shift = 3 => op_code_mask(r) = 231
         /\ b = 2 /\ r.shift = 4 => op_code_mask(r) = 207
         /\ b = 3 /\ r.shift = 3 => op_code_mask(r) = 199
         /\ b = 3 /\ r.shift = 0 => op_code_mask(r) = 248
         /\ b = 6 /\ r.shift = 0 => op_code_mask(r) = 192
<1>1. op_code_mask(r) = 255 - (2 ^ b - 1) * 2 ^ r.shift
  BY DEF op_code_mask
<1>2. 2 ^ 0 = 1 /\ 2 ^ 2 = 4 /\ 2 ^ 3 = 8 /\ 2 ^ 4 = 16 /\ 2 ^ 6 = 64
  OBVIOUS
<1>3. ASSUME b = 0 PROVE op_code_mask(r) = 255
  <2>1. op_code_mask(r) = 255 - (2 ^ 0 - 1) * 2 ^ r.shift
    BY <1>1, <1>3
  <2>2. 2 ^ r.shift \in Int
    OBVIOUS
  <2>3. 0 * 2 ^ r.shift = 0
    BY <2>2
  <2> QED BY <1>2, <2>1, <2>3
<1>4. ASSUME b = 2, r.shift = 3 PROVE op_code_mask(r) = 231
  <2>1. op_code_mask(r) = 255 - (2 ^ 2 - 1) * 2 ^ 3
    BY <1>1, <1>4
  <2> QED BY <1>2, <2>1
<1>5. ASSUME b = 2, r.shift = 4 PROVE op_code_mask(r) = 207
  <2>1. op_code_mask(r) = 255 - (2 ^ 2 - 1) * 2 ^ 4
    BY <1>1, <1>5
  <2> QED BY <1>2, <2>1
<1>6. ASSUME b = 3, r.shift = 3 PROVE op_code_mask(r) = 199
  <2>1. op_code_mask(r) = 255 - (2 ^ 3 - 1) * 2 ^ 3
    BY <1>1, <1>6
  <2> QED BY <1>2, <2>1
<1>7. ASSUME b = 3, r.shift = 0 PROVE op_code_mask(r) = 248
  <2>1. op_code_mask(r) = 255 - (2 ^ 3 - 1) * 2 ^ 0
    BY <1>1, <1>7
  <2> QED BY <1>2, <2>1
<1>8. ASSUME b = 6, r.shift = 0 PROVE op_code_mask(r) = 192
  <2>1. op_code_mask(r) = 255 - (2 ^ 6 - 1) * 2 ^ 0
    BY <1>1, <1>8
  <2> QED BY <1>2, <2>1
<1> QED BY <1>3, <1>4, <1>5, <1>6, <1>7, <1>8

LEMMA PrefixBits ==
  /\ and(203, 255) = 203 /\ and(203, 231) = 195 /\ and(203, 207) = 203
  /\ and(203, 199) = 195 /\ and(203, 248) = 200 /\ and(203, 192) = 192
<1>1. /\ Bit(203, 1) /\ Bit(203, 2) /\ ~Bit(203, 4) /\ Bit(203, 8) /\ ~Bit(203, 16)
      /\ ~Bit(203, 32) /\ Bit(203, 64) /\ Bit(203, 128)
  BY DEF Bit
<1>2. \A y : and(203, y) = Num(Bit(y, 1)) + 2 * Num(Bit(y, 2)) + 8 * Num(Bit(y, 8))
                           + 64 * Num(Bit(y, 64)) + 128 * Num(Bit(y, 128))
  BY <1>1, AndBits DEF Num
<1>3. /\ Bit(255, 1) /\ Bit(255, 2) /\ Bit(255, 8) /\ Bit(255, 64) /\ Bit(255, 128)
      /\ Bit(231, 1) /\ Bit(231, 2) /\ ~Bit(231, 8) /\ Bit(231, 64) /\ Bit(231, 128)
      /\ Bit(207, 1) /\ Bit(207, 2) /\ Bit(207, 8) /\ Bit(207, 64) /\ Bit(207, 128)
      /\ Bit(199, 1) /\ Bit(199, 2) /\ ~Bit(199, 8) /\ Bit(199, 64) /\ Bit(199, 128)
      /\ ~Bit(248, 1) /\ ~Bit(248, 2) /\ Bit(248, 8) /\ Bit(248, 64) /\ Bit(248, 128)
      /\ ~Bit(192, 1) /\ ~Bit(192, 2) /\ ~Bit(192, 8) /\ Bit(192, 64) /\ Bit(192, 128)
  BY DEF Bit
<1> QED BY <1>2, <1>3 DEF Num

\* No other row of the first bank takes the op-code of the prefix.
LEMMA NotPrefix ==
  ASSUME NEW r, r.shift \in Nat,
         NEW b, b = operand_op_code_bits(r.operand1) + operand_op_code_bits(r.operand2),
         \/ b = 0 /\ r.op_code # 203
         \/ b = 2 /\ r.shift = 3 /\ r.op_code # 195
         \/ b = 2 /\ r.shift = 4 /\ r.op_code # 203
         \/ b = 3 /\ r.shift = 3 /\ r.op_code # 195
         \/ b = 3 /\ r.shift = 0 /\ r.op_code # 200
         \/ b = 6 /\ r.shift = 0 /\ r.op_code # 192
  PROVE  ~Matches(203, r)
BY Masks, PrefixBits DEF Matches

LEMMA PlainRow ==
  ASSUME NEW code \in Nat, NEW o1, NEW o2, NEW shift \in {0, 3, 4}, NEW e, NEW op,
         NEW r, r = Row(code, o1, o2, shift, e, op),
         NEW b, b = operand_op_code_bits(o1) + operand_op_code_bits(o2),
         NEW n, n = operand_size(o1) + operand_size(o2),
         \/ e \in NoBytes /\ n = 0
         \/ e \in OneByte /\ n = 1
         \/ e \in TwoBytes /\ n = 2
         \/ e \in jumps \cup elsewhere
         \/ e = "rotate_a" /\ op \in RotateOps /\ n = 0,
         \/ b = 0 /\ code # 203
         \/ b = 2 /\ shift = 3 /\ code # 195
         \/ b = 2 /\ shift = 4 /\ code # 203
         \/ b = 3 /\ shift = 3 /\ code # 195
  PROVE  MainRow(r) /\ r.exec # "ld_r8_r8" /\ r.exec # "cb_bank_switch"
<1>1. ~Matches(203, r)
  <2>1. r.op_code = code /\ r.operand1 = o1 /\ r.operand2 = o2 /\ r.shift = shift
    BY RowFields
  <2> QED BY <2>1, NotPrefix
<1>2. r.operand1 = o1 /\ r.operand2 = o2 /\ r.shift = shift /\ r.exec = e /\ r.op = op
  BY RowFields
<1>3. e \notin jumps \cup elsewhere => n = OperandBytes(e)
  BY DEF OperandBytes, NoBytes, OneByte, TwoBytes
<1>4. e # "ld_r8_r8" /\ e # "cb_bank_switch"
  BY DEF NoBytes, OneByte, TwoBytes, jumps, elsewhere
<1> QED BY <1>1, <1>2, <1>3, <1>4 DEF MainRow, PlainExecs

LEMMA LowRows ==
  ASSUME NEW i \in 1 .. 23
  PROVE  /\ MainRow(instructions_low[i])
         /\ instructions_low[i].exec # "ld_r8_r8" /\ instructions_low[i].exec # "cb_bank_switch"
<1>1. CASE i = 1
  BY <1>1, PlainRow, OperandFacts DEF instructions_low, jumps, NoBytes, OneByte, TwoBytes
<1>2. CASE i = 2
  BY <1>2, PlainRow, OperandFacts DEF instructions_low, jumps, NoBytes, OneByte, TwoBytes
<1>3. CASE i = 3
  BY <1>3, PlainRow, OperandFacts DEF instructions_low, jumps, NoBytes, OneByte, TwoBytes
<1>4. CASE i = 4
  BY <1>4, PlainRow, OperandFacts DEF instructions_low, jumps, NoBytes, OneByte, TwoBytes
<1>5. CASE i = 5
  BY <1>5, PlainRow, OperandFacts DEF instructions_low, jumps, NoBytes, OneByte, TwoBytes
<1>6. CASE i = 6
  BY <1>6, PlainRow, OperandFacts DEF instructions_low, jumps, NoBytes, OneByte, TwoBytes
<1>7. CASE i = 7
  BY <1>7, PlainRow, OperandFacts DEF instructions_low, jumps, NoBytes, OneByte, TwoBytes
<1>8. CASE i = 8
  BY <1>8, PlainRow, OperandFacts DEF instructions_low, jumps, NoBytes, OneByte, TwoBytes
<1>9. CASE i = 9
  BY <1>9, PlainRow, OperandFacts DEF instructions_low, jumps, NoBytes, OneByte, TwoBytes
<1>10. CASE i = 10
  BY <1>10, PlainRow, OperandFacts DEF instructions_low, jumps, NoBytes, OneByte, TwoBytes
<1>11. CASE i = 11
  BY <1>11, PlainRow, OperandFacts DEF instructions_low, jumps, NoBytes, OneByte, TwoBytes
<1>12. CASE i = 12
  BY <1>12, PlainRow, OperandFacts DEF instructions_low, RotateOps
<1>13. CASE i = 13
  BY <1>13, PlainRow, OperandFacts DEF instructions_low, RotateOps
<1>14. CASE i = 14
  BY <1>14, PlainRow, OperandFacts DEF instructions_low, RotateOps
<1>15. CASE i = 15
  BY <1>15, PlainRow, OperandFacts DEF instructions_low, RotateOps
<1>16. CASE i = 16
  BY <1>16, PlainRow, OperandFacts DEF instructions_low, jumps, NoBytes, OneByte, TwoBytes
<1>17. CASE i = 17
  BY <1>17, PlainRow, OperandFacts DEF instructions_low, jumps, NoBytes, OneByte, TwoBytes
<1>18. CASE i = 18
  BY <1>18, PlainRow, OperandFacts DEF instructions_low, jumps, NoBytes, OneByte, TwoBytes
<1>19. CASE i = 19
  BY <1>19, PlainRow, OperandFacts DEF instructions_low, jumps, NoBytes, OneByte, TwoBytes
<1>20. CASE i = 20
  BY <1>20, PlainRow, OperandFacts DEF instructions_low, jumps, NoBytes, OneByte, TwoBytes
<1>21. CASE i = 21
  BY <1>21, PlainRow, OperandFacts DEF instructions_low, jumps, NoBytes, OneByte, TwoBytes
<1>22. CASE i = 22
  BY <1>22, PlainRow, OperandFacts DEF instructions_low, elsewhere
<1>23. CASE i = 23
  BY <1>23, PlainRow, OperandFacts DEF instructions_low, elsewhere
<1> QED BY <1>1, <1>2, <1>3, <1>4, <1>5, <1>6, <1>7, <1>8, <1>9, <1>10, <1>11,
           <1>12, <1>13, <1>14, <1>15, <1>16, <1>17, <1>18, <1>19, <1>20,
           <1>21, <1>22, <1>23

LEMMA HighRows ==
  ASSUME NEW i \in 1 .. 23
  PROVE  /\ MainRow(instructions_high[i])
         /\ instructions_high[i].exec # "ld_r8_r8"
         /\ i # 23 => instructions_high[i].exec # "cb_bank_switch"
<1>1. CASE i = 1
  BY <1>1, PlainRow, OperandFacts DEF instructions_high, jumps, NoBytes, OneByte, TwoBytes
<1>2. CASE i = 2
  BY <1>2, PlainRow, OperandFacts DEF instructions_high, jumps, NoBytes, OneByte, TwoBytes
<1>3. CASE i = 3
  BY <1>3, PlainRow, OperandFacts DEF instructions_high, elsewhere
<1>4. CASE i = 4
  BY <1>4, PlainRow, OperandFacts DEF instructions_high, jumps, NoBytes, OneByte, TwoBytes
<1>5. CASE i = 5
  BY <1>5, PlainRow, OperandFacts DEF instructions_high, jumps, NoBytes, OneByte, TwoBytes
<1>6. CASE i = 6
  BY <1>6, PlainRow, OperandFacts DEF instructions_high, jumps, NoBytes, OneByte, TwoBytes
<1>7. CASE i = 7
  BY <1>7, PlainRow, OperandFacts DEF instructions_high, jumps, NoBytes, OneByte, TwoBytes
<1>8. CASE i = 8
  BY <1>8, PlainRow, OperandFacts DEF instructions_high, jumps, NoBytes, OneByte, TwoBytes
<1>9. CASE i = 9
  BY <1>9, PlainRow, OperandFacts DEF instructions_high, jumps, NoBytes, OneByte, TwoBytes
<1>10. CASE i = 10
  BY <1>10, PlainRow, OperandFacts DEF instructions_high, jumps, NoBytes, OneByte, TwoBytes
<1>11. CASE i = 11
  BY <1>11, PlainRow, OperandFacts DEF instructions_high, jumps, NoBytes, OneByte, TwoBytes
<1>12. CASE i = 12
  BY <1>12, PlainRow, OperandFacts DEF instructions_high, jumps, NoBytes, OneByte, TwoBytes
<1>13. CASE i = 13
  BY <1>13, PlainRow, OperandFacts DEF instructions_high, jumps, NoBytes, OneByte, TwoBytes
<1>14. CASE i = 14
  BY <1>14, PlainRow, OperandFacts DEF instructions_high, jumps, NoBytes, OneByte, TwoBytes
<1>15. CASE i = 15
  BY <1>15, PlainRow, OperandFacts DEF instructions_high, jumps, NoBytes, OneByte, TwoBytes
<1>16. CASE i = 16
  BY <1>16, PlainRow, OperandFacts DEF instructions_high, jumps, NoBytes, OneByte, TwoBytes
<1>17. CASE i = 17
  BY <1>17, PlainRow, OperandFacts DEF instructions_high, jumps, NoBytes, OneByte, TwoBytes
<1>18. CASE i = 18
  BY <1>18, PlainRow, OperandFacts DEF instructions_high, jumps, NoBytes, OneByte, TwoBytes
<1>19. CASE i = 19
  BY <1>19, PlainRow, OperandFacts DEF instructions_high, jumps, NoBytes, OneByte, TwoBytes
<1>20. CASE i = 20
  BY <1>20, PlainRow, OperandFacts DEF instructions_high, jumps, NoBytes, OneByte, TwoBytes
<1>21. CASE i = 21
  BY <1>21, PlainRow, OperandFacts DEF instructions_high, elsewhere
<1>22. CASE i = 22
  BY <1>22, PlainRow, OperandFacts DEF instructions_high, elsewhere
<1>23. CASE i = 23
  <2>1. instructions_high[i] = Row(203, "NONE", "NONE", 0, "cb_bank_switch", "NONE")
    BY <1>23 DEF instructions_high
  <2> QED BY <1>23, <2>1, RowFields, OperandFacts DEF MainRow, OperandBytes, OneByte, TwoBytes
<1> QED BY <1>1, <1>2, <1>3, <1>4, <1>5, <1>6, <1>7, <1>8, <1>9, <1>10, <1>11,
           <1>12, <1>13, <1>14, <1>15, <1>16, <1>17, <1>18, <1>19, <1>20,
           <1>21, <1>22, <1>23

\* A sequence of n elements, whatever they are, and two of them one after the other.
IsSequence(s, n) == s = [i \in 1 .. n |-> s[i]]
Join(s, t) == s \o t

LEMMA Joined ==
  ASSUME NEW s, NEW t, NEW m \in Nat, NEW n \in Nat, NEW k, k = m + n, NEW l, l = m + 1,
         IsSequence(s, m), IsSequence(t, n)
  PROVE  /\ IsSequence(Join(s, t), k)
         /\ \A i \in 1 .. m : Join(s, t)[i] = s[i]
         /\ \A i \in l .. k : Join(s, t)[i] = t[i - m]
<1> DEFINE S == {s[i] : i \in 1 .. m} \cup {t[i] : i \in 1 .. n}
<1>1. s \in Seq(S) /\ Len(s) = m
  <2>1. s \in [1 .. m -> S]
    BY DEF IsSequence
  <2> QED BY <2>1, LenProperties
<1>2. t \in Seq(S) /\ Len(t) = n
  <2>1. t \in [1 .. n -> S]
    BY DEF IsSequence
  <2> QED BY <2>1, LenProperties
<1> HIDE DEF S
<1> DEFINE u == s \o t
<1>3. /\ u \in Seq(S) /\ Len(u) = Len(s) + Len(t)
      /\ \A i \in 1 .. Len(s) + Len(t) : u[i] = IF i <= Len(s) THEN s[i] ELSE t[i - Len(s)]
  BY <1>1, <1>2, ConcatProperties, Zenon DEF u
<1> HIDE DEF u
<1>4. k \in Nat /\ Len(u) = k /\ \A i \in 1 .. k : u[i] = IF i <= m THEN s[i] ELSE t[i - m]
  BY <1>1, <1>2, <1>3
<1>5. IsSequence(u, k)
  BY <1>3, <1>4, LenProperties DEF IsSequence
<1>6. \A i \in 1 .. m : u[i] = s[i]
  BY <1>4
<1>7. \A i \in l .. k : u[i] = t[i - m]
  BY <1>4
<1> QED BY <1>5, <1>6, <1>7, Zenon DEF u, Join

LEMMA OpNames ==
  /\ \A i \in 1 .. 8 : alu_ops[i] \in AluOps
  /\ \A i \in 1 .. 8 : twiddle_ops[i] \in TwiddleOps
BY DEF alu_ops, twiddle_ops, AluOps, TwiddleOps

LEMMA ARows ==
  /\ IsSequence(instructions_a, 17)
  /\ instructions_a[1] = Row(64, "R8_DST", "R8", 0, "ld_r8_r8", "NONE")
  /\ \A i \in 1 .. 17 : MainRow(instructions_a[i])
  /\ \A i \in 2 .. 17 : instructions_a[i].exec # "ld_r8_r8"
  /\ \A i \in 1 .. 17 : instructions_a[i].exec # "cb_bank_switch"
<1> DEFINE ld == << Row(64, "R8_DST", "R8", 0, "ld_r8_r8", "NONE") >>
           r8 == [i \in 1 .. 8 |-> Row(120 + 8 * i, "A", "R8", 0, "op_a_r8", alu_ops[i])]
           imm8 == [i \in 1 .. 8 |-> Row(190 + 8 * i, "A", "IMM8", 0, "op_a_imm8", alu_ops[i])]
<1>1. IsSequence(ld, 1) /\ ld[1] = Row(64, "R8_DST", "R8", 0, "ld_r8_r8", "NONE")
  BY DEF IsSequence
<1>2. IsSequence(r8, 8) /\ IsSequence(imm8, 8)
  BY DEF IsSequence
<1>4. \A i \in 1 .. 8 : /\ MainRow(r8[i]) /\ MainRow(imm8[i])
                        /\ r8[i].exec # "ld_r8_r8" /\ imm8[i].exec # "ld_r8_r8"
                        /\ r8[i].exec # "cb_bank_switch" /\ imm8[i].exec # "cb_bank_switch"
  <2> TAKE i \in 1 .. 8
  <2>1. r8[i] = Row(120 + 8 * i, "A", "R8", 0, "op_a_r8", alu_ops[i])
    OBVIOUS
  <2>2. imm8[i] = Row(190 + 8 * i, "A", "IMM8", 0, "op_a_imm8", alu_ops[i])
    OBVIOUS
  <2> HIDE DEF r8, imm8
  <2>3. ~Matches(203, r8[i])
    <3>1. /\ r8[i].op_code = 120 + 8 * i /\ r8[i].shift = 0
          /\ r8[i].operand1 = "A" /\ r8[i].operand2 = "R8"
      BY <2>1, RowFields
    <3>2. operand_op_code_bits(r8[i].operand1) + operand_op_code_bits(r8[i].operand2) = 3
      BY <3>1, OperandFacts
    <3>3. r8[i].op_code # 200
      BY <3>1
    <3> QED BY <3>1, <3>2, <3>3, NotPrefix
  <2>4. ~Matches(203, imm8[i])
    <3>1. /\ imm8[i].op_code = 190 + 8 * i /\ imm8[i].shift = 0
          /\ imm8[i].operand1 = "A" /\ imm8[i].operand2 = "IMM8"
      BY <2>2, RowFields
    <3>2. operand_op_code_bits(imm8[i].operand1) + operand_op_code_bits(imm8[i].operand2) = 0
      BY <3>1, OperandFacts
    <3>3. imm8[i].op_code # 203
      BY <3>1
    <3> QED BY <3>1, <3>2, <3>3, NotPrefix
  <2>5. OperandBytes("op_a_r8") = 0 /\ OperandBytes("op_a_imm8") = 1
    BY DEF OperandBytes, OneByte, TwoBytes
  <2>6. MainRow(r8[i]) /\ r8[i].exec # "ld_r8_r8" /\ r8[i].exec # "cb_bank_switch"
    BY <2>1, <2>3, <2>5, RowFields, OpNames, OperandFacts DEF MainRow
  <2>7. MainRow(imm8[i]) /\ imm8[i].exec # "ld_r8_r8" /\ imm8[i].exec # "cb_bank_switch"
    BY <2>2, <2>4, <2>5, RowFields, OpNames, OperandFacts DEF MainRow
  <2> QED BY <2>6, <2>7
<1>5. MainRow(ld[1]) /\ ld[1].exec # "cb_bank_switch"
  <2>1. /\ ld[1].op_code = 64 /\ ld[1].shift = 0 /\ ld[1].exec = "ld_r8_r8"
        /\ ld[1].operand1 = "R8_DST" /\ ld[1].operand2 = "R8"
    BY <1>1, RowFields
  <2>2. operand_op_code_bits(ld[1].operand1) + operand_op_code_bits(ld[1].operand2) = 6
    BY <2>1, OperandFacts
  <2>3. ~Matches(203, ld[1])
    BY <2>1, <2>2, NotPrefix
  <2>4. OperandBytes("ld_r8_r8") = 0
    BY DEF OperandBytes, OneByte, TwoBytes
  <2> QED BY <2>1, <2>3, <2>4, OperandFacts DEF MainRow
<1>6. instructions_a = Join(Join(ld, r8), imm8)
  BY DEF instructions_a, Join
<1> HIDE DEF ld, r8, imm8
<1>7. /\ IsSequence(Join(ld, r8), 9)
      /\ \A i \in 1 .. 1 : Join(ld, r8)[i] = ld[i]
      /\ \A i \in 2 .. 9 : Join(ld, r8)[i] = r8[i - 1]
  BY <1>1, <1>2, Joined
<1>8. /\ IsSequence(instructions_a, 17)
      /\ \A i \in 1 .. 9 : instructions_a[i] = Join(ld, r8)[i]
      /\ \A i \in 10 .. 17 : instructions_a[i] = imm8[i - 9]
  BY <1>2, <1>6, <1>7, Joined
<1>9. \A i \in 1 .. 17 : /\ MainRow(instructions_a[i])
                         /\ i # 1 => instructions_a[i].exec # "ld_r8_r8"
                         /\ instructions_a[i].exec # "cb_bank_switch"
  <2> TAKE i \in 1 .. 17
  <2>1. CASE i = 1
    BY <2>1, <1>5, <1>7, <1>8
  <2>2. CASE i \in 2 .. 9
    <3>1. i - 1 \in 1 .. 8 /\ i \in 1 .. 9
      BY <2>2
    <3>2. instructions_a[i] = r8[i - 1]
      BY <3>1, <1>7, <1>8
    <3> QED BY <3>1, <3>2, <1>4
  <2>3. CASE i \in 10 .. 17
    <3>1. i - 9 \in 1 .. 8
      BY <2>3
    <3>2. instructions_a[i] = imm8[i - 9]
      BY <3>1, <1>8
    <3> QED BY <3>1, <3>2, <1>4
  <2> QED BY <2>1, <2>2, <2>3
<1> QED BY <1>1, <1>7, <1>8, <1>9

\* The first table: 23, 17 and 23 rows.  HALT is row 23, before LD, row 24.
LEMMA MainRows ==
  /\ IsSequence(instructions, 63)
  /\ \A i \in 1 .. 63 : MainRow(instructions[i])
  /\ instructions[23] = Row(118, "NONE", "NONE", 0, "halt", "NONE")
  /\ instructions[24] = Row(64, "R8_DST", "R8", 0, "ld_r8_r8", "NONE")
  /\ instructions[63] = Row(203, "NONE", "NONE", 0, "cb_bank_switch", "NONE")
  /\ \A i \in 1 .. 63 : instructions[i].exec = "ld_r8_r8" => i = 24
  /\ \A i \in 1 .. 63 : instructions[i].exec = "cb_bank_switch" => i = 63
<1>1. IsSequence(instructions_low, 23) /\ IsSequence(instructions_high, 23)
  BY DEF IsSequence, instructions_low, instructions_high
<1>2. instructions_low[23] = Row(118, "NONE", "NONE", 0, "halt", "NONE")
  BY DEF instructions_low
<1>3. instructions = Join(Join(instructions_low, instructions_a), instructions_high)
  BY DEF instructions, Join
<1> DEFINE front == Join(instructions_low, instructions_a)
<1>4. /\ IsSequence(front, 40)
      /\ \A i \in 1 .. 23 : front[i] = instructions_low[i]
      /\ \A i \in 24 .. 40 : front[i] = instructions_a[i - 23]
  BY <1>1, ARows, Joined
<1> HIDE DEF front
<1>5. /\ IsSequence(instructions, 63)
      /\ \A i \in 1 .. 40 : instructions[i] = front[i]
      /\ \A i \in 41 .. 63 : instructions[i] = instructions_high[i - 40]
  <2>1. instructions = Join(front, instructions_high)
    BY <1>3 DEF front
  <2> QED BY <1>1, <1>4, <2>1, Joined
<1>6. \A i \in 1 .. 63 : /\ MainRow(instructions[i])
                         /\ i # 24 => instructions[i].exec # "ld_r8_r8"
                         /\ i # 63 => instructions[i].exec # "cb_bank_switch"
  <2> TAKE i \in 1 .. 63
  <2>1. CASE i \in 1 .. 23
    <3>1. i \in 1 .. 40
      BY <2>1
    <3> QED BY <2>1, <3>1, <1>4, <1>5, LowRows
  <2>2. CASE i \in 24 .. 40
    <3>1. i - 23 \in 1 .. 17 /\ i \in 1 .. 40
      BY <2>2
    <3>2. instructions[i] = instructions_a[i - 23]
      BY <3>1, <1>4, <1>5
    <3> QED BY <3>1, <3>2, ARows
  <2>3. CASE i \in 41 .. 63
    <3>1. i - 40 \in 1 .. 23 /\ (i # 63 => i - 40 # 23)
      BY <2>3
    <3>2. instructions[i] = instructions_high[i - 40]
      BY <3>1, <1>5
    <3> QED BY <3>1, <3>2, HighRows
  <2> QED BY <2>1, <2>2, <2>3
<1>7. \A i \in 1 .. 23 : instructions[i] = instructions_low[i]
  BY <1>4, <1>5
<1>8. instructions[24] = instructions_a[1]
  BY <1>4, <1>5
<1>9. instructions[23] = instructions_low[23]
  BY <1>7
<1>10. instructions[63] = Row(203, "NONE", "NONE", 0, "cb_bank_switch", "NONE")
  <2>1. instructions[63] = instructions_high[23]
    BY <1>5
  <2> QED BY <2>1 DEF instructions_high
<1> QED BY <1>2, <1>5, <1>6, <1>8, <1>9, <1>10, ARows

LEMMA CbRows ==
  /\ IsSequence(cb_instructions, 11)
  /\ \A i \in 1 .. 11 : CbRow(cb_instructions[i])
<1> DEFINE twiddles == [i \in 1 .. 8 |-> Row(8 * (i - 1), "R8", "NONE", 0, "bit_twiddle_r8", twiddle_ops[i])]
           others == << Row(64, "BIT_INDEX", "R8", 0, "bit_b3_r8", "NONE"),
                        Row(128, "BIT_INDEX", "R8", 0, "res_set_b3_r8", "res_bit"),
                        Row(192, "BIT_INDEX", "R8", 0, "res_set_b3_r8", "set_bit") >>
<1>1. IsSequence(twiddles, 8) /\ IsSequence(others, 3)
  BY DEF IsSequence
<1>2. \A i \in 1 .. 8 : CbRow(twiddles[i])
  <2> TAKE i \in 1 .. 8
  <2>1. twiddles[i] = Row(8 * (i - 1), "R8", "NONE", 0, "bit_twiddle_r8", twiddle_ops[i])
    OBVIOUS
  <2> HIDE DEF twiddles
  <2> QED BY <2>1, RowFields, OpNames, OperandFacts DEF CbRow
<1>3. \A i \in 1 .. 3 : CbRow(others[i])
  <2>1. /\ others[1] = Row(64, "BIT_INDEX", "R8", 0, "bit_b3_r8", "NONE")
        /\ others[2] = Row(128, "BIT_INDEX", "R8", 0, "res_set_b3_r8", "res_bit")
        /\ others[3] = Row(192, "BIT_INDEX", "R8", 0, "res_set_b3_r8", "set_bit")
    OBVIOUS
  <2> HIDE DEF others
  <2>2. CbRow(others[1]) /\ CbRow(others[2]) /\ CbRow(others[3])
    BY <2>1, RowFields, OperandFacts DEF CbRow
  <2> QED BY <2>2
<1>4. cb_instructions = Join(twiddles, others)
  BY DEF cb_instructions, Join
<1> HIDE DEF twiddles, others
<1>5. /\ IsSequence(cb_instructions, 11)
      /\ \A i \in 1 .. 8 : cb_instructions[i] = twiddles[i]
      /\ \A i \in 9 .. 11 : cb_instructions[i] = others[i - 8]
  BY <1>1, <1>4, Joined
<1>6. \A i \in 1 .. 11 : CbRow(cb_instructions[i])
  <2> TAKE i \in 1 .. 11
  <2>1. CASE i \in 1 .. 8
    BY <2>1, <1>2, <1>5
  <2>2. CASE i \in 9 .. 11
    <3>1. i - 8 \in 1 .. 3
      BY <2>2
    <3> QED BY <3>1, <1>3, <1>5
  <2> QED BY <2>1, <2>2
<1> QED BY <1>5, <1>6

\* Every nonempty set of naturals has a least element.  The initial segments
\* of S are finite sets, ordered well-foundedly by strict inclusion.
LEMMA LeastNatural ==
  ASSUME NEW S \in SUBSET Nat, S # {}
  PROVE  \E m \in S : \A n \in S : m <= n
<1> DEFINE Upto(n) == {i \in S : i <= n}
           Segments == {Upto(n) : n \in S}
<1>1. Segments \subseteq FiniteSubsetsOf(Nat)
  <2> SUFFICES ASSUME NEW n \in S PROVE Upto(n) \in FiniteSubsetsOf(Nat)
    OBVIOUS
  <2>1. Upto(n) \in SUBSET Nat /\ n \in Nat
    OBVIOUS
  <2>2. \A s \in Upto(n) : s <= n
    OBVIOUS
  <2>3. IsFiniteSet(Upto(n))
    <3> HIDE DEF Upto
    <3> QED BY <2>1, <2>2, FS_BoundedSetOfNaturals
  <2> QED BY <2>1, <2>3 DEF FiniteSubsetsOf
<1>2. Segments # {}
  OBVIOUS
<1>3. PICK X \in Segments :
        \A Y \in Segments : ~ (<<Y, X>> \in StrictSubsetOrdering(Nat))
  <2> HIDE DEF Segments
  <2>1. IsWellFoundedOn(StrictSubsetOrdering(Nat), FiniteSubsetsOf(Nat))
    BY FS_StrictSubsetOrderingWellFounded
  <2> QED BY <1>1, <1>2, <2>1, WFMin
<1>4. PICK m \in S : X = Upto(m)
  OBVIOUS
<1>5. ASSUME NEW n \in S, n < m PROVE FALSE
  <2>0. S \subseteq Nat /\ m \in Nat /\ n \in Nat
    OBVIOUS
  <2>1. Upto(n) \subseteq Upto(m)
    <3> SUFFICES ASSUME NEW i \in S, i <= n PROVE i <= m
      OBVIOUS
    <3> i \in Nat
      BY <2>0
    <3> QED BY <1>5, <2>0
  <2>4. m \in Upto(m) /\ m \notin Upto(n)
    BY <1>5, <2>0
  <2>2. <<Upto(n), Upto(m)>> \in (SUBSET Nat) \X (SUBSET Nat)
    OBVIOUS
  <2>3. <<Upto(n), Upto(m)>> \in StrictSubsetOrdering(Nat)
    BY <2>1, <2>2, <2>4 DEF StrictSubsetOrdering
  <2> QED BY <1>3, <1>4, <2>3
<1>6. \A n \in S : m <= n
  <2> SUFFICES ASSUME NEW n \in S PROVE m <= n
    OBVIOUS
  <2>1. m \in Nat /\ n \in Nat
    OBVIOUS
  <2> QED BY <1>5, <2>1
<1> QED BY <1>6

\* The search finds the first row that matches.
LEMMA FirstRow ==
  ASSUME NEW bank, NEW op_code, NEW table, NEW n \in Nat, IsSequence(table, n),
         table = IF bank = "cb" THEN cb_instructions ELSE instructions
  PROVE  \/ /\ find_instruction(bank, op_code) = unknown_instruction
            /\ \A k \in 1 .. n : ~Matches(op_code, table[k])
         \/ \E k \in 1 .. n : /\ find_instruction(bank, op_code) = table[k]
                              /\ Matches(op_code, table[k])
                              /\ \A j \in 1 .. n : Matches(op_code, table[j]) => k <= j
<1> DEFINE found == {i \in DOMAIN table : and(op_code, op_code_mask(table[i])) = table[i].op_code}
           k == CHOOSE i \in found : \A j \in found : i <= j
<1>1. find_instruction(bank, op_code) = IF found = {} THEN unknown_instruction ELSE table[k]
  BY DEF find_instruction
<1>2. DOMAIN table = 1 .. n
  BY DEF IsSequence
<1>3. found = {i \in 1 .. n : Matches(op_code, table[i])}
  BY <1>2, Zenon DEF Matches
<1> HIDE DEF found
<1>4. ASSUME found # {} PROVE k \in found /\ \A j \in found : k <= j
  <2>1. found \in SUBSET Nat
    BY <1>3
  <2>2. \E i \in found : \A j \in found : i <= j
    BY <1>4, <2>1, LeastNatural
  <2> QED BY <2>2
<1> HIDE DEF k
<1> QED BY <1>1, <1>3, <1>4

LEMMA MainSearch ==
  ASSUME NEW op_code, NEW r, r = find_instruction("main", op_code)
  PROVE  \/ /\ r = unknown_instruction
            /\ \A k \in 1 .. 63 : ~Matches(op_code, instructions[k])
         \/ \E k \in 1 .. 63 : /\ r = instructions[k]
                               /\ Matches(op_code, instructions[k])
                               /\ \A j \in 1 .. 63 : Matches(op_code, instructions[j]) => k <= j
<1>1. IsSequence(instructions, 63)
  BY MainRows
<1>2. instructions = IF "main" = "cb" THEN cb_instructions ELSE instructions
  OBVIOUS
<1> DEFINE Search(table, n) ==
      \/ /\ find_instruction("main", op_code) = unknown_instruction
         /\ \A k \in 1 .. n : ~Matches(op_code, table[k])
      \/ \E k \in 1 .. n : /\ find_instruction("main", op_code) = table[k]
                           /\ Matches(op_code, table[k])
                           /\ \A j \in 1 .. n : Matches(op_code, table[j]) => k <= j
<1>3. Search(instructions, 63)
  BY <1>1, <1>2, FirstRow, Zenon
<1> QED BY <1>3

LEMMA HaltMask ==
  ASSUME NEW r, r = Row(118, "NONE", "NONE", 0, "halt", "NONE") PROVE op_code_mask(r) = 255
<1>1. r.operand1 = "NONE" /\ r.operand2 = "NONE" /\ r.shift = 0
  BY RowFields
<1> QED BY <1>1, OperandFacts, Masks

LEMMA LoadMask ==
  ASSUME NEW r, r = Row(64, "R8_DST", "R8", 0, "ld_r8_r8", "NONE") PROVE op_code_mask(r) = 192
<1>1. r.operand1 = "R8_DST" /\ r.operand2 = "R8" /\ r.shift = 0
  BY RowFields
<1> QED BY <1>1, OperandFacts, Masks

\* The mask of all bits changes nothing.
LEMMA AllBits == ASSUME NEW x \in Bytes PROVE and(x, 255) = x
<1>1. x \in Int /\ 0 <= x /\ x <= 255
  BY ByteRange
<1>2. /\ Bit(255, 1) /\ Bit(255, 2) /\ Bit(255, 4) /\ Bit(255, 8) /\ Bit(255, 16)
      /\ Bit(255, 32) /\ Bit(255, 64) /\ Bit(255, 128)
  BY DEF Bit
<1>3. and(x, 255) = Num(Bit(x, 1)) + 2 * Num(Bit(x, 2)) + 4 * Num(Bit(x, 4)) + 8 * Num(Bit(x, 8))
                    + 16 * Num(Bit(x, 16)) + 32 * Num(Bit(x, 32)) + 64 * Num(Bit(x, 64))
                    + 128 * Num(Bit(x, 128))
  BY <1>2, AndBits DEF Num
<1>4. /\ Num(Bit(x, 1)) = x % 2 /\ Num(Bit(x, 2)) = (x \div 2) % 2
      /\ Num(Bit(x, 4)) = (x \div 4) % 2 /\ Num(Bit(x, 8)) = (x \div 8) % 2
      /\ Num(Bit(x, 16)) = (x \div 16) % 2 /\ Num(Bit(x, 32)) = (x \div 32) % 2
      /\ Num(Bit(x, 64)) = (x \div 64) % 2 /\ Num(Bit(x, 128)) = (x \div 128) % 2
  BY <1>1 DEF Num, Bit
<1>5. x = (x % 2) + 2 * ((x \div 2) % 2) + 4 * ((x \div 4) % 2) + 8 * ((x \div 8) % 2)
          + 16 * ((x \div 16) % 2) + 32 * ((x \div 32) % 2) + 64 * ((x \div 64) % 2)
          + 128 * ((x \div 128) % 2)
  BY <1>1
<1> QED BY <1>3, <1>4, <1>5

LEMMA MaskedCodes ==
  ASSUME NEW x \in Bytes
  PROVE  /\ and(118, 255) = 118
         /\ and(x, 192) = 64 => 64 <= x /\ x <= 127
<1>1. x \in Int /\ 0 <= x /\ x <= 255
  BY ByteRange
<1>2. /\ ~Bit(192, 1) /\ ~Bit(192, 2) /\ ~Bit(192, 4) /\ ~Bit(192, 8) /\ ~Bit(192, 16)
      /\ ~Bit(192, 32) /\ Bit(192, 64) /\ Bit(192, 128)
  BY DEF Bit
<1>3. /\ Bit(255, 1) /\ Bit(255, 2) /\ Bit(255, 4) /\ Bit(255, 8) /\ Bit(255, 16)
      /\ Bit(255, 32) /\ Bit(255, 64) /\ Bit(255, 128)
  BY DEF Bit
<1>4. /\ ~Bit(118, 1) /\ Bit(118, 2) /\ Bit(118, 4) /\ ~Bit(118, 8) /\ Bit(118, 16)
      /\ Bit(118, 32) /\ Bit(118, 64) /\ ~Bit(118, 128)
  BY DEF Bit
<1>5. and(118, 255) = 118
  BY <1>3, <1>4, AndBits DEF Num
<1>6. and(x, 192) = 64 * Num(Bit(x, 64)) + 128 * Num(Bit(x, 128))
  BY <1>2, AndBits DEF Num
<1>7. and(x, 192) = 64 => Bit(x, 64) /\ ~Bit(x, 128)
  BY <1>6 DEF Num
<1>8. Bit(x, 64) /\ ~Bit(x, 128) => 64 <= x /\ x <= 127
  BY <1>1 DEF Bit
<1> QED BY <1>5, <1>7, <1>8

\* The search finds a row of the bank's table or none.  LD [HL], [HL] is not
\* found: its op-code is that of HALT, an earlier row.
LEMMA Found ==
  ASSUME NEW bank \in {"main", "cb"}, NEW op_code \in Bytes,
         NEW r, r = find_instruction(bank, op_code)
  PROVE  /\ r \in Rows
         /\ bank = "main" => MainRow(r)
         /\ bank = "cb" => CbRow(r) \/ r = unknown_instruction
         /\ bank = "main" /\ r.exec = "ld_r8_r8" =>
              64 <= op_code /\ op_code <= 127 /\ op_code # 118
<1>1. MainRow(unknown_instruction) /\ unknown_instruction.exec # "ld_r8_r8"
  <2>1. and(203, op_code_mask(unknown_instruction)) # 0
    <3>1. /\ unknown_instruction.operand1 = "NONE" /\ unknown_instruction.operand2 = "NONE"
          /\ unknown_instruction.shift = 0
      BY RowFields DEF unknown_instruction
    <3>2. op_code_mask(unknown_instruction) = 255
      BY <3>1, OperandFacts, Masks
    <3> QED BY <3>2, PrefixBits
  <2>2. /\ unknown_instruction.exec = "unknown" /\ unknown_instruction.op_code = 0
        /\ unknown_instruction.shift = 0
    BY RowFields DEF unknown_instruction
  <2> QED BY <2>1, <2>2 DEF MainRow, elsewhere, Matches
<1>2. DOMAIN instructions = 1 .. 63 /\ DOMAIN cb_instructions = 1 .. 11
  BY MainRows, CbRows DEF IsSequence
<1>3. CASE bank = "main"
  <2>1. CASE r = unknown_instruction
    BY <1>1, <1>3, <2>1 DEF Rows
  <2>2. ASSUME NEW k \in 1 .. 63, r = instructions[k], Matches(op_code, instructions[k]),
               \A j \in 1 .. 63 : Matches(op_code, instructions[j]) => k <= j
        PROVE  /\ r \in Rows /\ MainRow(r)
               /\ r.exec = "ld_r8_r8" => 64 <= op_code /\ op_code <= 127 /\ op_code # 118
    <3>1. r \in Rows /\ MainRow(r)
      BY <1>2, <2>2, MainRows DEF Rows
    <3>2. ASSUME r.exec = "ld_r8_r8" PROVE 64 <= op_code /\ op_code <= 127 /\ op_code # 118
      <4>1. k = 24
        BY <2>2, <3>2, MainRows
      <4>2. r = Row(64, "R8_DST", "R8", 0, "ld_r8_r8", "NONE")
        BY <2>2, <4>1, MainRows
      <4>3. and(op_code, 192) = 64
        <5>1. op_code_mask(r) = 192 /\ r.op_code = 64
          BY <4>2, LoadMask, RowFields
        <5> QED BY <2>2, <5>1 DEF Matches
      <4>4. op_code # 118
        <5> SUFFICES ASSUME op_code = 118 PROVE FALSE
          OBVIOUS
        <5>1. op_code_mask(instructions[23]) = 255 /\ instructions[23].op_code = 118
          BY MainRows, HaltMask, RowFields
        <5>2. Matches(op_code, instructions[23])
          BY <5>1, MaskedCodes DEF Matches
        <5> QED BY <2>2, <4>1, <5>2
      <4> QED BY <4>3, <4>4, MaskedCodes
    <3> QED BY <3>1, <3>2
  <2>3. \/ r = unknown_instruction
        \/ \E k \in 1 .. 63 : /\ r = instructions[k] /\ Matches(op_code, instructions[k])
                              /\ \A j \in 1 .. 63 : Matches(op_code, instructions[j]) => k <= j
    BY <1>3, MainSearch
  <2> QED BY <1>3, <2>1, <2>2, <2>3
<1>4. CASE bank = "cb"
  <2>1. \/ r = unknown_instruction
        \/ \E k \in 1 .. 11 : r = cb_instructions[k]
    BY <1>4, CbRows, FirstRow
  <2> QED BY <1>2, <1>4, <2>1, CbRows DEF Rows
<1> QED BY <1>3, <1>4


\* The op-code 203, and no other, is the prefix of the second bank: row 63
\* takes it, and no other row does.
LEMMA Prefix ==
  ASSUME NEW op_code \in Bytes
  PROVE  find_instruction("main", op_code).exec = "cb_bank_switch" <=> op_code = 203
<1> DEFINE r == find_instruction("main", op_code)
<1>1. \/ /\ r = unknown_instruction
         /\ \A k \in 1 .. 63 : ~Matches(op_code, instructions[k])
      \/ \E k \in 1 .. 63 : r = instructions[k] /\ Matches(op_code, instructions[k])
  BY MainSearch
<1> HIDE DEF r
<1>2. unknown_instruction.exec # "cb_bank_switch"
  BY RowFields DEF unknown_instruction
<1>3. ASSUME op_code = 203 PROVE r.exec = "cb_bank_switch"
  <2>1. /\ instructions[63].operand1 = "NONE" /\ instructions[63].operand2 = "NONE"
        /\ instructions[63].shift = 0 /\ instructions[63].op_code = 203
    BY MainRows, RowFields
  <2>2. op_code_mask(instructions[63]) = 255
    BY <2>1, OperandFacts, Masks
  <2>3. Matches(203, instructions[63])
    BY <2>1, <2>2, PrefixBits DEF Matches
  <2>4. PICK k \in 1 .. 63 : r = instructions[k] /\ Matches(203, instructions[k])
    BY <1>1, <1>3, <2>3
  <2> QED BY <2>4, MainRows DEF MainRow
<1>4. ASSUME r.exec = "cb_bank_switch" PROVE op_code = 203
  <2>1. PICK k \in 1 .. 63 : r = instructions[k] /\ Matches(op_code, instructions[k])
    BY <1>1, <1>2, <1>4
  <2>2. k = 63
    BY <1>4, <2>1, MainRows
  <2>3. /\ instructions[63].operand1 = "NONE" /\ instructions[63].operand2 = "NONE"
        /\ instructions[63].shift = 0 /\ instructions[63].op_code = 203
    BY MainRows, RowFields
  <2>4. op_code_mask(instructions[63]) = 255
    BY <2>3, OperandFacts, Masks
  <2>5. and(op_code, 255) = 203
    BY <2>1, <2>2, <2>3, <2>4 DEF Matches
  <2> QED BY <2>5, AllBits
<1> QED BY <1>3, <1>4 DEF r
-----------------------------------------------------------------------------
(* The steps that exec functions are made of.                              *)

\* t is s, but for registers, flags, SP, PC, memory and the scratch bytes.
Kept(s, t) ==
  /\ Typed(t)
  /\ t.ir = s.ir /\ t.instr = s.instr /\ t.bank = s.bank
  /\ t.cycle = s.cycle /\ t.state = s.state

LEMMA TypedFields ==
  ASSUME NEW s, Typed(s)
  PROVE  /\ s.registers \in [0 .. 7 -> Bytes] /\ s.registers[6] = 0
         /\ s.f \in [Z : BOOLEAN, N : BOOLEAN, H : BOOLEAN, C : BOOLEAN]
         /\ s.sp \in Words /\ s.pc \in Words /\ s.ir \in Bytes /\ s.w \in Bytes /\ s.z \in Bytes
         /\ s.state \in {"DONE", "EXECUTING"} /\ s.cycle \in 0 .. 5
         /\ s.bank \in {"main", "cb"} /\ s.instr \in Rows /\ IsMemory(s.m)
BY DEF Typed, IsMemory, REG_HL_MEM

LEMMA SetReg8Kept ==
  ASSUME NEW s, Typed(s), NEW r \in 0 .. 7, r # 6, NEW x \in Int
  PROVE  /\ Kept(s, set_reg8(s, r, x))
         /\ set_reg8(s, r, x).pc = s.pc /\ set_reg8(s, r, x).m = s.m
<1> DEFINE registers == [s.registers EXCEPT ![r] = Byte(x)]
<1>1. registers \in [0 .. 7 -> Bytes] /\ registers[6] = 0
  BY TypedFields, ByteIsByte
<1> HIDE DEF registers
<1>2. set_reg8(s, r, x) = [s EXCEPT !.registers = registers]
  BY DEF set_reg8, registers
<1>3. /\ Kept(s, [s EXCEPT !.registers = registers])
      /\ [s EXCEPT !.registers = registers].pc = s.pc
      /\ [s EXCEPT !.registers = registers].m = s.m
  BY <1>1 DEF Kept, Typed, REG_HL_MEM
<1> QED BY <1>2, <1>3

LEMMA FlagsKept ==
  ASSUME NEW s, Typed(s), NEW f \in [Z : BOOLEAN, N : BOOLEAN, H : BOOLEAN, C : BOOLEAN]
  PROVE  /\ Kept(s, [s EXCEPT !.f = f])
         /\ [s EXCEPT !.f = f].pc = s.pc /\ [s EXCEPT !.f = f].m = s.m
BY DEF Kept, Typed

LEMMA SpKept ==
  ASSUME NEW s, Typed(s), NEW x \in Words
  PROVE  /\ Kept(s, [s EXCEPT !.sp = x])
         /\ [s EXCEPT !.sp = x].pc = s.pc /\ [s EXCEPT !.sp = x].m = s.m
BY DEF Kept, Typed

LEMMA PcKept ==
  ASSUME NEW s, Typed(s), NEW x \in Words
  PROVE  /\ Kept(s, [s EXCEPT !.pc = x]) /\ [s EXCEPT !.pc = x].m = s.m
BY DEF Kept, Typed

LEMMA FetchKept ==
  ASSUME NEW s, Typed(s)
  PROVE  /\ Kept(s, fetch_z(s)) /\ fetch_z(s).pc = Word(s.pc + 1)
         /\ Kept(s, fetch_w(s)) /\ fetch_w(s).pc = Word(s.pc + 1)
<1>1. fetch(s.m, s.pc) \in Bytes /\ Word(s.pc + 1) \in Words
  BY TypedFields, FetchIsByte, WordIsWord, WordRange
<1> QED BY <1>1 DEF fetch_z, fetch_w, Kept, Typed

LEMMA ReadKept ==
  ASSUME NEW s, Typed(s), NEW addr \in Words
  PROVE  /\ Kept(s, read_z(s, addr)) /\ read_z(s, addr).pc = s.pc
         /\ Kept(s, [s EXCEPT !.w = fetch(s.m, addr)])
         /\ [s EXCEPT !.w = fetch(s.m, addr)].pc = s.pc
<1>1. fetch(s.m, addr) \in Bytes
  BY TypedFields, FetchIsByte
<1> QED BY <1>1 DEF read_z, Kept, Typed

LEMMA WriteKept ==
  ASSUME NEW s, Typed(s), NEW addr \in Words, NEW x \in Bytes
  PROVE  Kept(s, write(s, addr, x)) /\ write(s, addr, x).pc = s.pc
<1>1. IsMemory(store(s.m, addr, x))
  BY TypedFields, StoreIsMemory
<1> QED BY <1>1 DEF write, Kept, Typed, IsMemory

\* The high and the low byte of a word.
LEMMA Halves ==
  ASSUME NEW x \in Words
  PROVE  x \div 256 \in Bytes /\ Byte(x) \in Bytes /\ x \in Int /\ Word(x) = x
BY WordRange, ByteRange DEF Byte, Word

LEMMA Joins ==
  ASSUME NEW x \in Bytes, NEW y \in Bytes
  PROVE  256 * x + y \in Words /\ 65280 + x \in Words
BY WordRange, ByteRange

LEMMA PairRegisters ==
  ASSUME NEW r
  PROVE  Pair(r)[1] \in 0 .. 7 \ {6, 7} /\ Pair(r)[2] \in 0 .. 7 \ {6, 7}
BY DEF Pair, REG_H, REG_L

LEMMA FlagsTyped ==
  ASSUME NEW x
  PROVE  Flags(x) \in [Z : BOOLEAN, N : BOOLEAN, H : BOOLEAN, C : BOOLEAN]
BY DEF Flags, Bit

LEMMA FlagsByteIsByte == ASSUME NEW f PROVE FlagsByte(f) \in Bytes
BY ByteRange DEF FlagsByte, Num

LEMMA GetReg16IsWord ==
  ASSUME NEW s, Typed(s), NEW r
  PROVE  get_reg16(s, r) \in Words
<1>1. \A i \in 0 .. 7 : s.registers[i] \in Bytes
  BY TypedFields
<1> QED BY <1>1, TypedFields, PairRegisters, FlagsByteIsByte, Joins DEF get_reg16, REG_A

LEMMA SetReg16Kept ==
  ASSUME NEW s, Typed(s), NEW r, NEW x \in Int
  PROVE  /\ Kept(s, set_reg16(s, r, x))
         /\ set_reg16(s, r, x).pc = s.pc /\ set_reg16(s, r, x).m = s.m
<1> DEFINE high == Word(x) \div 256
           low == Byte(x)
<1>1. Word(x) \in Words /\ high \in Bytes /\ low \in Bytes
  BY WordIsWord, Halves, ByteIsByte
<1> HIDE DEF high, low
<1>2. CASE r = "SP"
  <2>1. set_reg16(s, r, x) = [s EXCEPT !.sp = Word(x)]
    BY <1>2 DEF set_reg16
  <2> QED BY <1>1, <2>1, SpKept
<1>3. CASE r = "AF"
  <2> DEFINE registers == [s.registers EXCEPT ![REG_A] = high]
             f == Flags(low)
  <2>1. set_reg16(s, r, x) = [s EXCEPT !.registers = registers, !.f = f]
    BY <1>3 DEF set_reg16, high, low
  <2>2. registers \in [0 .. 7 -> Bytes] /\ registers[6] = 0
    BY <1>1, TypedFields DEF REG_A
  <2>3. f \in [Z : BOOLEAN, N : BOOLEAN, H : BOOLEAN, C : BOOLEAN]
    BY FlagsTyped
  <2> HIDE DEF registers, f
  <2> QED BY <2>1, <2>2, <2>3 DEF Kept, Typed, REG_HL_MEM
<1>4. CASE r \notin {"SP", "AF"}
  <2> DEFINE a == Pair(r)[1]
             b == Pair(r)[2]
             registers == [s.registers EXCEPT ![a] = high, ![b] = low]
  <2>1. set_reg16(s, r, x) = [s EXCEPT !.registers = registers]
    BY <1>4 DEF set_reg16, high, low
  <2>2. a \in 0 .. 7 /\ a # 6 /\ b \in 0 .. 7 /\ b # 6
    BY PairRegisters
  <2> HIDE DEF a, b
  <2>3. registers \in [0 .. 7 -> Bytes] /\ registers[6] = 0
    BY <1>1, <2>2, TypedFields
  <2> HIDE DEF registers
  <2> QED BY <2>1, <2>3 DEF Kept, Typed, REG_HL_MEM
<1> QED BY <1>2, <1>3, <1>4

-----------------------------------------------------------------------------
(* Operands and results.                                                   *)

FlagRecords == [Z : BOOLEAN, N : BOOLEAN, H : BOOLEAN, C : BOOLEAN]

\* s is about to execute a cycle of an instruction.
Ready(s) == Typed(s) /\ s.state = "EXECUTING" /\ s.instr.shift \in {0, 3, 4}

LEMMA Decoded ==
  ASSUME NEW s, Ready(s)
  PROVE  /\ decode_reg8(s) \in 0 .. 7 /\ decode_reg8_dst(s) \in 0 .. 7
         /\ decode_bit_index(s) \in 0 .. 7 /\ decode_tgt3(s) \in Words
<1>1. 2 ^ 0 = 1 /\ 2 ^ 3 = 8 /\ 2 ^ 4 = 16
  OBVIOUS
<1>2. s.ir \in Nat
  BY TypedFields, ByteRange DEF Ready
<1>3. Field(s) \in Nat
  <2>1. CASE s.instr.shift = 0
    BY <1>1, <1>2, <2>1 DEF Field
  <2>2. CASE s.instr.shift = 3
    BY <1>1, <1>2, <2>2 DEF Field
  <2>3. CASE s.instr.shift = 4
    BY <1>1, <1>2, <2>3 DEF Field
  <2> QED BY <2>1, <2>2, <2>3 DEF Ready
<1>4. \A x \in Nat : x % 8 \in 0 .. 7 /\ x \div 8 \in Nat
  OBVIOUS
<1>5. \A x \in 0 .. 7 : x * 8 \in Words
  BY WordRange
<1> QED BY <1>3, <1>4, <1>5 DEF decode_reg8, decode_reg8_dst, decode_bit_index, decode_tgt3

\* What an operation gives back.
IsResult(res) == res.v \in Bytes /\ res.f \in FlagRecords

LEMMA ResultIsResult ==
  ASSUME NEW v \in Int, NEW n \in BOOLEAN, NEW h \in BOOLEAN, NEW c \in BOOLEAN
  PROVE  IsResult(Result(v, n, h, c))
BY ByteIsByte DEF Result, IsResult, FlagRecords

LEMMA AddIsResult ==
  ASSUME NEW a \in Bytes, NEW x \in Bytes, NEW c \in {0, 1}
  PROVE  IsResult(add_a(a, x, c)) /\ IsResult(sub_a(a, x, c))
<1>1. a + x + c \in Int /\ a - x - c \in Int
  BY ByteRange
<1>2. /\ add3_half_carries(a, x, c) \in BOOLEAN /\ add3_carries(a, x, c) \in BOOLEAN
      /\ sub3_half_borrows(a, x, c) \in BOOLEAN /\ sub3_borrows(a, x, c) \in BOOLEAN
  BY DEF add3_half_carries, add3_carries, sub3_half_borrows, sub_half_borrows, sub3_borrows
<1> QED BY <1>1, <1>2, ResultIsResult DEF add_a, sub_a

LEMMA NumIsBit == ASSUME NEW b PROVE Num(b) \in {0, 1}
BY DEF Num

LEMMA AluIsResult ==
  ASSUME NEW op \in AluOps, NEW a \in Bytes, NEW x \in Bytes, NEW f
  PROVE  IsResult(alu(op, a, x, f))
<1>1. /\ IsResult(add_a(a, x, 0)) /\ IsResult(add_a(a, x, Num(f.C)))
      /\ IsResult(sub_a(a, x, 0)) /\ IsResult(sub_a(a, x, Num(f.C)))
  BY AddIsResult, NumIsBit
<1>2. /\ and(a, x) \in Int /\ or(a, x) \in Int /\ xor(a, x) \in Int
  BY BitwiseBytes, ByteRange
<1>3. /\ IsResult(Result(and(a, x), FALSE, TRUE, FALSE))
      /\ IsResult(Result(xor(a, x), FALSE, FALSE, FALSE))
      /\ IsResult(Result(or(a, x), FALSE, FALSE, FALSE))
  BY <1>2, ResultIsResult
<1>4. IsResult([sub_a(a, x, 0) EXCEPT !.v = a])
  <2>1. sub_a(a, x, 0).f \in FlagRecords
    BY <1>1 DEF IsResult
  <2>2. /\ [sub_a(a, x, 0) EXCEPT !.v = a].v = a
        /\ [sub_a(a, x, 0) EXCEPT !.v = a].f = sub_a(a, x, 0).f
    BY DEF sub_a, Result
  <2> QED BY <2>1, <2>2 DEF IsResult
<1>5. CASE op \in {"add_a", "adc_a", "sub_a", "sbc_a"}
  BY <1>1, <1>5 DEF alu
<1>6. CASE op \in {"and_a", "xor_a", "or_a"}
  BY <1>3, <1>6 DEF alu
<1>7. CASE op = "cp_a"
  BY <1>4, <1>7 DEF alu
<1> QED BY <1>5, <1>6, <1>7 DEF AluOps

LEMMA TwiddleIsResult ==
  ASSUME NEW op \in TwiddleOps, NEW x \in Bytes, NEW f
  PROVE  IsResult(twiddle(op, x, f))
<1>1. x \in Nat /\ Num(f.C) \in {0, 1} /\ and(x, 128) \in Int
  BY ByteRange, NumIsBit, BitwiseBytes
<1>2. /\ 2 * x + x \div 128 \in Int /\ x \div 2 + 128 * (x % 2) \in Int
      /\ 2 * x + Num(f.C) \in Int /\ x \div 2 + 128 * Num(f.C) \in Int /\ 2 * x \in Int
      /\ x \div 2 + and(x, 128) \in Int /\ x \div 16 + 16 * x \in Int /\ x \div 2 \in Int
      /\ (x > 127) \in BOOLEAN /\ (x % 2 = 1) \in BOOLEAN
  BY <1>1
<1>3. CASE op = "rlc"
  BY <1>2, <1>3, ResultIsResult DEF twiddle, rotated
<1>4. CASE op = "rrc"
  BY <1>2, <1>4, ResultIsResult DEF twiddle, rotated
<1>5. CASE op = "rl"
  BY <1>2, <1>5, ResultIsResult DEF twiddle, rotated
<1>6. CASE op = "rr"
  BY <1>2, <1>6, ResultIsResult DEF twiddle, rotated
<1>7. CASE op = "sla"
  BY <1>2, <1>7, ResultIsResult DEF twiddle, shifted
<1>8. CASE op = "sra"
  BY <1>2, <1>8, ResultIsResult DEF twiddle, shifted
<1>9. CASE op = "swap_nibbles"
  BY <1>2, <1>9, ResultIsResult DEF twiddle, shifted
<1>10. CASE op = "srl"
  BY <1>2, <1>10, ResultIsResult DEF twiddle, shifted
<1> QED BY <1>3, <1>4, <1>5, <1>6, <1>7, <1>8, <1>9, <1>10 DEF TwiddleOps

LEMMA ResOrSetIsByte == ASSUME NEW op, NEW bit, NEW x PROVE res_or_set(op, bit, x) \in Bytes
BY BitwiseBytes DEF res_or_set

-----------------------------------------------------------------------------
(* One cycle of an exec function.                                          *)

\* t is s one cycle later: with the next op-code in ir if the instruction is
\* done, and otherwise in time for the cycle after it.
Stepped(s, t) ==
  /\ Typed(t)
  /\ t.instr = s.instr /\ t.bank = s.bank /\ t.cycle = s.cycle
  /\ t.state = "DONE" => t.ir = fetch(t.m, Word(t.pc - 1))
  /\ t.state # "DONE" => t.ir = s.ir /\ s.cycle <= 4

\* An instruction with n bytes of operands has moved PC over one of them in
\* each of its first n cycles, and over the next op-code when it is done.
Paced(s, t, n) ==
  /\ t.pc = Word(s.pc + Num(s.cycle < n) + Num(t.state = "DONE"))
  /\ t.state = "DONE" => n <= s.cycle

LEMMA KeptTwice ==
  ASSUME NEW s, NEW t, NEW u, Kept(s, t), Kept(t, u) PROVE Kept(s, u)
BY DEF Kept

LEMMA WordMoves ==
  ASSUME NEW x \in Words
  PROVE  Word(x) = x /\ Word(x + 1) \in Words /\ Word(x - 1) \in Words /\ Word(Word(x + 1) - 1) = x
<1>1. x \in Int /\ 0 <= x /\ x <= 65535
  BY WordRange
<1>2. Word(x + 1) \in Words /\ Word(x - 1) \in Words
  BY <1>1, WordIsWord
<1>3. CASE x = 65535
  <2>1. Word(x) = x /\ Word(x + 1) = 0
    BY <1>3 DEF Word
  <2>2. ASSUME NEW y \in Int, y + 1 = 0 PROVE Word(y) = 65535
    <3>1. y % 65536 = 65535
      BY <2>2
    <3> QED BY <3>1 DEF Word
  <2>3. Word(x + 1) - 1 \in Int /\ (Word(x + 1) - 1) + 1 = 0
    BY <2>1
  <2> QED BY <1>2, <1>3, <2>1, <2>2, <2>3
<1>4. CASE x # 65535
  BY <1>1, <1>2, <1>4 DEF Word
<1> QED BY <1>3, <1>4

LEMMA DoneSteps ==
  ASSUME NEW s, NEW t, Kept(s, t)
  PROVE  /\ Stepped(s, done(t))
         /\ done(t).state = "DONE" /\ done(t).pc = Word(t.pc + 1)
<1> DEFINE u == done(t)
           ir == fetch(t.m, t.pc)
           pc == Word(t.pc + 1)
<1>1. Typed(t) /\ IsMemory(t.m) /\ t.pc \in Words
  BY TypedFields DEF Kept
<1>2. ir \in Bytes /\ pc \in Words /\ Word(pc - 1) = t.pc
  BY <1>1, FetchIsByte, WordMoves
<1>3. u = [t EXCEPT !.ir = ir, !.pc = pc, !.state = "DONE"]
  BY DEF done
<1>4. ir = fetch(t.m, Word(pc - 1))
  BY <1>2
<1> HIDE DEF u, ir, pc
<1>5. /\ Typed(u) /\ u.m = t.m /\ u.ir = ir /\ u.pc = pc /\ u.state = "DONE"
      /\ u.instr = t.instr /\ u.bank = t.bank /\ u.cycle = t.cycle
  BY <1>1, <1>2, <1>3 DEF Typed
<1>6. Stepped(s, u)
  BY <1>4, <1>5 DEF Stepped, Kept
<1> QED BY <1>5, <1>6 DEF u, pc

\* The three ways of a cycle: it is the last one, it changes state without
\* PC, or it fetches a byte of the operand.
LEMMA Finishes ==
  ASSUME NEW s, Ready(s), NEW t, Kept(s, t), t.pc = s.pc, NEW n \in 0 .. 2, n <= s.cycle
  PROVE  Stepped(s, done(t)) /\ Paced(s, done(t), n)
<1>1. s.cycle \in Int /\ s.pc \in Int
  BY TypedFields, WordRange DEF Ready
<1>2. Num(s.cycle < n) = 0 /\ Num(done(t).state = "DONE") = 1
  BY <1>1, DoneSteps DEF Num
<1> QED BY <1>1, <1>2, DoneSteps DEF Paced

LEMMA GoesOn ==
  ASSUME NEW s, Ready(s), NEW t, Kept(s, t), t.pc = s.pc, NEW n \in 0 .. 2, n <= s.cycle,
         s.cycle <= 4
  PROVE  Stepped(s, t) /\ Paced(s, t, n)
<1>0. s.pc \in Words /\ s.cycle \in Int
  BY TypedFields DEF Ready
<1>1. Word(s.pc) = s.pc
  BY <1>0, WordMoves
<1>2. s.pc \in Int
  BY <1>0, WordRange
<1>3. Num(s.cycle < n) = 0 /\ Num(t.state = "DONE") = 0
  BY <1>0 DEF Num, Ready, Kept
<1>4. t.pc = Word(s.pc + 0 + 0)
  BY <1>1, <1>2
<1>5. Paced(s, t, n)
  BY <1>3, <1>4 DEF Paced, Kept, Ready
<1> QED BY <1>5 DEF Stepped, Kept, Ready

LEMMA FetchSteps ==
  ASSUME NEW s, Ready(s), NEW n \in 0 .. 2, s.cycle < n
  PROVE  /\ Stepped(s, fetch_z(s)) /\ Paced(s, fetch_z(s), n)
         /\ Stepped(s, fetch_w(s)) /\ Paced(s, fetch_w(s), n)
<1>1. s.cycle \in Int /\ s.pc \in Int
  BY TypedFields, WordRange DEF Ready
<1>2. /\ Kept(s, fetch_z(s)) /\ fetch_z(s).pc = Word(s.pc + 1)
      /\ Kept(s, fetch_w(s)) /\ fetch_w(s).pc = Word(s.pc + 1)
  BY FetchKept DEF Ready
<1>3. Num(s.cycle < n) = 1 /\ Num(fetch_z(s).state = "DONE") = 0 /\ Num(fetch_w(s).state = "DONE") = 0
  BY <1>1, <1>2 DEF Num, Ready, Kept
<1> QED BY <1>1, <1>2, <1>3 DEF Paced, Stepped, Kept, Ready

\* The same for an instruction that sets PC.
LEMMA KeptSteps ==
  ASSUME NEW s, Ready(s), NEW t, Kept(s, t), s.cycle <= 4 PROVE Stepped(s, t)
BY DEF Stepped, Kept, Ready

LEMMA SelfKept == ASSUME NEW s, Ready(s) PROVE Kept(s, s)
BY DEF Ready, Kept

\* t is s with PC where it was.
InPlace(s, t) == Kept(s, t) /\ t.pc = s.pc
Steps(s, t, n) == Stepped(s, t) /\ Paced(s, t, n)

LEMMA InPlaceSteps ==
  ASSUME NEW s, Ready(s), NEW t, InPlace(s, t)
  PROVE  /\ Typed(t)
         /\ \A r \in 0 .. 7 \ {6} : \A x \in Int : InPlace(s, set_reg8(t, r, x))
         /\ \A r : \A x \in Int : InPlace(s, set_reg16(t, r, x))
         /\ \A f \in FlagRecords : InPlace(s, [t EXCEPT !.f = f])
         /\ \A x \in Words : InPlace(s, [t EXCEPT !.sp = x])
         /\ \A x \in Words : Kept(s, [t EXCEPT !.pc = x])
         /\ \A addr \in Words : /\ InPlace(s, read_z(t, addr))
                                /\ InPlace(s, [t EXCEPT !.w = fetch(t.m, addr)])
         /\ \A addr \in Words : \A x \in Bytes : InPlace(s, write(t, addr, x))
<1>1. Typed(t) /\ Kept(s, t) /\ t.pc = s.pc
  BY DEF InPlace, Kept
<1>2. \A r \in 0 .. 7 \ {6} : \A x \in Int : InPlace(s, set_reg8(t, r, x))
  BY <1>1, SetReg8Kept, KeptTwice DEF InPlace
<1>3. \A r : \A x \in Int : InPlace(s, set_reg16(t, r, x))
  BY <1>1, SetReg16Kept, KeptTwice DEF InPlace
<1>4. \A f \in FlagRecords : InPlace(s, [t EXCEPT !.f = f])
  BY <1>1, FlagsKept, KeptTwice DEF InPlace, FlagRecords
<1>5. \A x \in Words : InPlace(s, [t EXCEPT !.sp = x])
  BY <1>1, SpKept, KeptTwice DEF InPlace
<1>6. \A x \in Words : Kept(s, [t EXCEPT !.pc = x])
  BY <1>1, PcKept, KeptTwice
<1>7. \A addr \in Words : /\ InPlace(s, read_z(t, addr))
                          /\ InPlace(s, [t EXCEPT !.w = fetch(t.m, addr)])
  BY <1>1, ReadKept, KeptTwice DEF InPlace
<1>8. \A addr \in Words : \A x \in Bytes : InPlace(s, write(t, addr, x))
  BY <1>1, WriteKept, KeptTwice DEF InPlace
<1> QED BY <1>1, <1>2, <1>3, <1>4, <1>5, <1>6, <1>7, <1>8

\* What the exec functions find in the structure.
LEMMA Operands ==
  ASSUME NEW s, Ready(s)
  PROVE  /\ InPlace(s, s)
         /\ s.cycle \in 0 .. 5 /\ s.z \in Bytes /\ s.w \in Bytes /\ s.sp \in Words /\ s.pc \in Words
         /\ s.f \in FlagRecords
         /\ \A r \in 0 .. 7 : get_reg8(s, r) \in Bytes
         /\ \A r : get_reg16(s, r) \in Words
         /\ hl(s) \in Words /\ wz(s) \in Words /\ int8(s.z) \in Int
<1>1. Typed(s) /\ InPlace(s, s)
  BY DEF Ready, InPlace, Kept
<1>2. \A r : get_reg16(s, r) \in Words
  BY <1>1, GetReg16IsWord
<1>3. int8(s.z) \in Int
  BY <1>1, TypedFields, ByteRange DEF int8
<1> QED BY <1>1, <1>2, <1>3, TypedFields, Joins DEF hl, wz, get_reg8, FlagRecords

LEMMA FlagUpdates ==
  ASSUME NEW f \in FlagRecords, NEW b \in BOOLEAN
  PROVE  /\ [f EXCEPT !.C = b] \in FlagRecords /\ [f EXCEPT !.Z = b] \in FlagRecords
         /\ [f EXCEPT !.N = b] \in FlagRecords /\ [f EXCEPT !.H = b] \in FlagRecords
BY DEF FlagRecords

\* The words and the bytes that are computed from them.
LEMMA WordsAround ==
  ASSUME NEW x \in Words
  PROVE  /\ x \in Int /\ x + 1 \in Int /\ x - 1 \in Int
         /\ Word(x + 1) \in Words /\ Word(x - 1) \in Words
         /\ x \div 256 \in Bytes /\ Byte(x) \in Bytes
         /\ \A y \in Int : x + y \in Int /\ Word(x + y) \in Words
<1>1. x \in Int
  BY WordRange
<1>2. x + 1 \in Int /\ x - 1 \in Int /\ \A y \in Int : x + y \in Int
  BY <1>1
<1>3. \A y \in Int : Word(x + y) \in Words
  BY <1>2, WordIsWord
<1> QED BY <1>1, <1>2, <1>3, WordIsWord, Halves

LEMMA BytesAround ==
  ASSUME NEW x \in Bytes
  PROVE  x \in Int /\ 65280 + x \in Words /\ 255 - x \in Int /\ \A y \in Words : x + y \in Int
<1>1. x \in Int /\ 0 <= x /\ x <= 255
  BY ByteRange
<1>2. 65280 + x \in Words
  BY <1>1, WordRange
<1>3. \A y \in Words : x + y \in Int
  BY <1>1, WordRange
<1> QED BY <1>1, <1>2, <1>3

\* The three ways of a cycle, for a state with PC where it was.
LEMMA Ways ==
  ASSUME NEW s, Ready(s), NEW n \in 0 .. 2
  PROVE  /\ \A t : InPlace(s, t) /\ n <= s.cycle => Steps(s, done(t), n)
         /\ \A t : InPlace(s, t) /\ n <= s.cycle /\ s.cycle <= 4 => Steps(s, t, n)
         /\ s.cycle < n => Steps(s, fetch_z(s), n) /\ Steps(s, fetch_w(s), n)
BY Finishes, GoesOn, FetchSteps DEF InPlace, Steps

-----------------------------------------------------------------------------
(* The exec functions that leave PC to the fetches.                        *)

LEMMA NopSteps == ASSUME NEW s, Ready(s) PROVE Steps(s, done(s), 0)
BY Ways, Operands

LEMMA LdR16Imm16Steps == ASSUME NEW s, Ready(s) PROVE Steps(s, exec_ld_r16_imm16(s), 2)
<1>1. InPlace(s, set_reg16(s, decode_reg16(s), wz(s)))
  BY Operands, InPlaceSteps, WordsAround
<1> QED BY <1>1, Ways, Operands DEF exec_ld_r16_imm16

\* Moved leaves PC alone.
LEMMA MovedInPlace ==
  ASSUME NEW s, Ready(s), NEW t, InPlace(s, t), NEW r PROVE InPlace(s, Moved(t, r))
<1>1. hl(t) \in Words
  BY GetReg16IsWord, InPlaceSteps DEF hl
<1> QED BY <1>1, InPlaceSteps, WordsAround DEF Moved

LEMMA LdR16memASteps == ASSUME NEW s, Ready(s) PROVE Steps(s, exec_ld_r16mem_a(s), 0)
<1> DEFINE r == decode_reg16mem(s)
<1> HIDE DEF r
<1>1. InPlace(s, write(Moved(s, r), get_reg16(s, r), get_reg8(s, REG_A)))
  BY Operands, InPlaceSteps, MovedInPlace DEF REG_A
<1>2. exec_ld_r16mem_a(s) = IF s.cycle = 0 THEN write(Moved(s, r), get_reg16(s, r), get_reg8(s, REG_A))
                            ELSE done(s)
  BY DEF exec_ld_r16mem_a, r
<1> QED BY <1>1, <1>2, Ways, Operands

LEMMA LdAR16memSteps == ASSUME NEW s, Ready(s) PROVE Steps(s, exec_ld_a_r16mem(s), 0)
<1> DEFINE r == decode_reg16mem(s)
           x == fetch(s.m, get_reg16(s, r))
<1>1. x \in Int
  BY Operands, TypedFields, FetchIsByte, BytesAround DEF Ready
<1> HIDE DEF r, x
<1>2. InPlace(s, Moved(set_reg8(s, REG_A, x), r))
  BY <1>1, Operands, InPlaceSteps, MovedInPlace DEF REG_A
<1>3. exec_ld_a_r16mem(s) = IF s.cycle = 0 THEN Moved(set_reg8(s, REG_A, x), r) ELSE done(s)
  BY DEF exec_ld_a_r16mem, r, x
<1> QED BY <1>2, <1>3, Ways, Operands

LEMMA LdImm16memSpSteps == ASSUME NEW s, Ready(s) PROVE Steps(s, exec_ld_imm16mem_sp(s), 2)
<1>1. InPlace(s, write(s, wz(s), Byte(s.sp)))
  BY Operands, InPlaceSteps, WordsAround
<1>2. InPlace(s, write(s, Word(wz(s) + 1), s.sp \div 256))
  BY Operands, InPlaceSteps, WordsAround
<1> QED BY <1>1, <1>2, Ways, Operands DEF exec_ld_imm16mem_sp

LEMMA IncDecR16Steps ==
  ASSUME NEW s, Ready(s) PROVE Steps(s, exec_inc_r16(s), 0) /\ Steps(s, exec_dec_r16(s), 0)
<1> DEFINE r == decode_reg16(s)
<1>1. InPlace(s, set_reg16(s, r, get_reg16(s, r) + 1)) /\ InPlace(s, set_reg16(s, r, get_reg16(s, r) - 1))
  BY Operands, InPlaceSteps, WordsAround
<1> QED BY <1>1, Ways, Operands DEF exec_inc_r16, exec_dec_r16

LEMMA AddHlR16Steps == ASSUME NEW s, Ready(s) PROVE Steps(s, exec_add_hl_r16(s), 0)
<1> DEFINE x == get_reg16(s, decode_reg16(s))
           sum == add_a(get_reg8(s, REG_H), x \div 256, Num(s.f.C))
           low == set_reg8(s, REG_L, get_reg8(s, REG_L) + x)
           c == add3_carries(get_reg8(s, REG_L), Byte(x), 0)
           high == set_reg8(s, REG_H, sum.v)
<1>1. x \in Words /\ get_reg8(s, REG_H) \in Bytes /\ get_reg8(s, REG_L) \in Bytes
  BY Operands DEF REG_H, REG_L
<1>2. x \div 256 \in Bytes /\ get_reg8(s, REG_L) + x \in Int /\ c \in BOOLEAN
  BY <1>1, WordsAround, BytesAround DEF add3_carries
<1>3. sum.v \in Int /\ sum.f \in FlagRecords
  BY <1>1, <1>2, AddIsResult, NumIsBit, BytesAround DEF IsResult
<1> HIDE DEF x, sum, c
<1>4. InPlace(s, low) /\ InPlace(s, high)
  BY <1>2, <1>3, Operands, InPlaceSteps DEF REG_H, REG_L
<1>5. low.f = s.f /\ s.f.Z \in BOOLEAN
  BY Operands DEF set_reg8, FlagRecords
<1>6. InPlace(s, [low EXCEPT !.f = [low.f EXCEPT !.C = c]])
  BY <1>2, <1>4, <1>5, Operands, FlagUpdates, InPlaceSteps
<1>7. InPlace(s, [high EXCEPT !.f = [sum.f EXCEPT !.Z = s.f.Z]])
  BY <1>3, <1>4, <1>5, FlagUpdates, InPlaceSteps
<1>8. exec_add_hl_r16(s) = IF s.cycle = 0 THEN [low EXCEPT !.f.C = c]
                           ELSE done([high EXCEPT !.f = [sum.f EXCEPT !.Z = s.f.Z]])
  BY DEF exec_add_hl_r16, x, sum, c
<1>9. [low EXCEPT !.f.C = c] = [low EXCEPT !.f = [low.f EXCEPT !.C = c]]
  OBVIOUS
<1> HIDE DEF low, high
<1> QED BY <1>6, <1>7, <1>8, <1>9, Ways, Operands

LEMMA IncDecR8Steps == ASSUME NEW s, Ready(s) PROVE Steps(s, exec_inc_dec_r8(s), 0)
<1> DEFINE r == decode_reg8(s)
           x == IF r = REG_HL_MEM THEN s.z ELSE get_reg8(s, r)
           res == incremented(s, x)
<1>1. r \in 0 .. 7 /\ x \in Bytes
  BY Decoded, Operands
<1>2. res.v \in Bytes /\ res.f \in FlagRecords
  <2>1. IsResult(add_a(x, 1, 0)) /\ IsResult(sub_a(x, 1, 0))
    <3>1. 1 \in Bytes
      BY ByteRange
    <3> QED BY <1>1, <3>1, AddIsResult
  <2>2. s.f.C \in BOOLEAN
    BY Operands DEF FlagRecords
  <2> DEFINE sum == IF s.instr.exec = "inc_r8" THEN add_a(x, 1, 0) ELSE sub_a(x, 1, 0)
  <2>3. res = [sum EXCEPT !.f.C = s.f.C]
    BY DEF incremented
  <2>4. sum.v \in Bytes /\ sum.f \in FlagRecords /\ DOMAIN sum = {"v", "f"}
    BY <2>1 DEF IsResult, add_a, sub_a, Result
  <2> HIDE DEF sum, res
  <2>5. res.v = sum.v /\ res.f = [sum.f EXCEPT !.C = s.f.C]
    BY <2>3, <2>4
  <2> QED BY <2>2, <2>4, <2>5, FlagUpdates
<1> HIDE DEF res
<1>3. InPlace(s, read_z(s, hl(s))) /\ InPlace(s, write(s, hl(s), res.v))
  BY <1>2, Operands, InPlaceSteps
<1>4. InPlace(s, [write(s, hl(s), res.v) EXCEPT !.f = res.f])
  BY <1>2, <1>3, InPlaceSteps
<1>5. r # 6 => InPlace(s, [set_reg8(s, r, res.v) EXCEPT !.f = res.f])
  <2>1. r # 6 => InPlace(s, set_reg8(s, r, res.v))
    <3>1. res.v \in Int /\ (r # 6 => r \in 0 .. 7 \ {6})
      BY <1>1, <1>2, BytesAround
    <3> HIDE DEF r
    <3> QED BY <3>1, Operands, InPlaceSteps
  <2> QED BY <1>2, <2>1, InPlaceSteps
<1>6. exec_inc_dec_r8(s) =
        CASE r # REG_HL_MEM -> done([set_reg8(s, r, res.v) EXCEPT !.f = res.f])
          [] r = REG_HL_MEM /\ s.cycle = 0 -> read_z(s, hl(s))
          [] r = REG_HL_MEM /\ s.cycle = 1 -> [write(s, hl(s), res.v) EXCEPT !.f = res.f]
          [] OTHER -> done(s)
  BY DEF exec_inc_dec_r8, res
<1> HIDE DEF r, x
<1> QED BY <1>3, <1>4, <1>5, <1>6, Ways, Operands DEF REG_HL_MEM

LEMMA LdR8Imm8Steps == ASSUME NEW s, Ready(s) PROVE Steps(s, exec_ld_r8_imm8(s), 1)
<1> DEFINE r == decode_reg8(s)
<1>1. r \in 0 .. 7 /\ s.z \in Int
  BY Decoded, Operands, BytesAround
<1>2. InPlace(s, write(s, hl(s), s.z)) /\ (r # 6 => InPlace(s, set_reg8(s, r, s.z)))
  BY <1>1, Operands, InPlaceSteps
<1>3. exec_ld_r8_imm8(s) =
        CASE s.cycle = 0 -> fetch_z(s)
          [] s.cycle = 1 /\ r = REG_HL_MEM -> write(s, hl(s), s.z)
          [] s.cycle = 1 /\ r # REG_HL_MEM -> done(set_reg8(s, r, s.z))
          [] OTHER -> done(s)
  BY DEF exec_ld_r8_imm8
<1> HIDE DEF r
<1> QED BY <1>2, <1>3, Ways, Operands DEF REG_HL_MEM

\* A result goes to A and the flags.
LEMMA SetAInPlace ==
  ASSUME NEW s, Ready(s), NEW res, IsResult(res)
  PROVE  InPlace(s, set_a(s, res))
<1>1. res.v \in Int /\ res.f \in FlagRecords
  BY BytesAround DEF IsResult
<1>2. InPlace(s, set_reg8(s, REG_A, res.v))
  BY <1>1, Operands, InPlaceSteps DEF REG_A
<1> QED BY <1>1, <1>2, InPlaceSteps DEF set_a

LEMMA RotateASteps ==
  ASSUME NEW s, Ready(s), s.instr.op \in RotateOps PROVE Steps(s, exec_rotate_a(s), 0)
<1> DEFINE res == twiddle(s.instr.op, get_reg8(s, REG_A), s.f)
           t == set_a(s, res)
<1>1. IsResult(res)
  <2>1. s.instr.op \in TwiddleOps /\ get_reg8(s, REG_A) \in Bytes
    BY Operands DEF RotateOps, TwiddleOps, REG_A
  <2> QED BY <2>1, TwiddleIsResult
<1> HIDE DEF res
<1>2. InPlace(s, t) /\ t.f \in FlagRecords
  <2>1. InPlace(s, t)
    BY <1>1, SetAInPlace
  <2> QED BY <2>1, TypedFields DEF InPlace, Kept, FlagRecords
<1>3. exec_rotate_a(s) = done([t EXCEPT !.f.Z = FALSE])
  BY DEF exec_rotate_a, res
<1> HIDE DEF t
<1>4. [t EXCEPT !.f.Z = FALSE] = [t EXCEPT !.f = [t.f EXCEPT !.Z = FALSE]]
  OBVIOUS
<1>5. InPlace(s, [t EXCEPT !.f = [t.f EXCEPT !.Z = FALSE]])
  BY <1>2, FlagUpdates, InPlaceSteps
<1> QED BY <1>3, <1>4, <1>5, Ways, Operands

LEMMA DaaSteps == ASSUME NEW s, Ready(s) PROVE Steps(s, exec_daa(s), 0)
<1> DEFINE a == get_reg8(s, REG_A)
           low == s.f.H \/ (~s.f.N /\ a % 16 > 9)
           high == s.f.C \/ (~s.f.N /\ a > 153)
           adj == 6 * Num(low) + 96 * Num(high)
           v == Byte(IF s.f.N THEN a - adj ELSE a + adj)
           f == [s.f EXCEPT !.Z = v = 0, !.H = FALSE, !.C = high]
           t == set_reg8(s, REG_A, v)
<1>1. a \in Bytes /\ s.f \in FlagRecords
  BY Operands DEF REG_A
<1>2. v \in Int
  <2>1. a \in Int /\ adj \in Int
    BY <1>1, BytesAround DEF Num
  <2> HIDE DEF adj, a
  <2> QED BY <2>1, ByteIsByte, BytesAround
<1>3. high \in BOOLEAN
  BY <1>1 DEF FlagRecords
<1>4. f \in FlagRecords
  <2> HIDE DEF v, high
  <2> QED BY <1>1, <1>3 DEF FlagRecords
<1>5. exec_daa(s) = done([t EXCEPT !.f = [@ EXCEPT !.Z = v = 0, !.H = FALSE, !.C = high]])
  BY DEF exec_daa
<1>6. t.f = s.f
  BY DEF set_reg8
<1> HIDE DEF v, high
<1>7. exec_daa(s) = done([t EXCEPT !.f = f])
  BY <1>5, <1>6
<1>8. InPlace(s, t)
  BY <1>2, Operands, InPlaceSteps DEF REG_A
<1> HIDE DEF t, f
<1>9. InPlace(s, [t EXCEPT !.f = f])
  BY <1>4, <1>8, InPlaceSteps
<1> QED BY <1>7, <1>9, Ways, Operands

LEMMA CplSteps == ASSUME NEW s, Ready(s) PROVE Steps(s, exec_cpl(s), 0)
<1> DEFINE v == 255 - get_reg8(s, REG_A)
           t == set_reg8(s, REG_A, v)
           f == [[s.f EXCEPT !.N = TRUE] EXCEPT !.H = TRUE]
<1>1. v \in Int
  BY Operands, BytesAround DEF REG_A
<1> HIDE DEF v
<1>2. InPlace(s, t)
  BY <1>1, Operands, InPlaceSteps DEF REG_A
<1>3. f \in FlagRecords
  BY Operands, FlagUpdates
<1>4. t.f = s.f
  BY DEF set_reg8
<1>5. exec_cpl(s) = done([t EXCEPT !.f.N = TRUE, !.f.H = TRUE])
  BY DEF exec_cpl, v
<1> HIDE DEF t
<1>6. exec_cpl(s) = done([t EXCEPT !.f = f])
  BY <1>4, <1>5
<1> HIDE DEF f
<1>7. InPlace(s, [t EXCEPT !.f = f])
  BY <1>2, <1>3, InPlaceSteps
<1> QED BY <1>6, <1>7, Ways, Operands

LEMMA ScfCcfSteps == ASSUME NEW s, Ready(s) PROVE Steps(s, exec_scf_ccf(s), 0)
<1> DEFINE f == [s.f EXCEPT !.N = FALSE, !.H = FALSE, !.C = s.instr.exec = "scf" \/ ~s.f.C]
<1>1. f \in FlagRecords
  BY Operands DEF FlagRecords
<1>2. exec_scf_ccf(s) = done([s EXCEPT !.f = f])
  BY DEF exec_scf_ccf
<1> HIDE DEF f
<1>3. InPlace(s, [s EXCEPT !.f = f])
  BY <1>1, Operands, InPlaceSteps
<1> QED BY <1>2, <1>3, Ways, Operands

LEMMA BitTwiddleR8Steps ==
  ASSUME NEW s, Ready(s), s.instr.op \in TwiddleOps PROVE Steps(s, exec_bit_twiddle_r8(s), 0)
<1> DEFINE r == decode_reg8(s)
           onReg == twiddle(s.instr.op, get_reg8(s, r), s.f)
           onZ == twiddle(s.instr.op, s.z, s.f)
<1>1. r \in 0 .. 7
  BY Decoded
<1>2. IsResult(onReg) /\ IsResult(onZ)
  BY <1>1, Operands, TwiddleIsResult
<1>3. exec_bit_twiddle_r8(s) =
        CASE s.cycle = 1 /\ r # REG_HL_MEM -> done([set_reg8(s, r, onReg.v) EXCEPT !.f = onReg.f])
          [] s.cycle = 1 /\ r = REG_HL_MEM -> read_z(s, hl(s))
          [] s.cycle = 2 -> [write(s, hl(s), onZ.v) EXCEPT !.f = onZ.f]
          [] OTHER -> done(s)
  BY DEF exec_bit_twiddle_r8
<1> HIDE DEF r, onReg, onZ
<1>4. /\ onReg.v \in Int /\ onReg.f \in FlagRecords /\ onZ.v \in Bytes /\ onZ.f \in FlagRecords
  BY <1>2, BytesAround DEF IsResult
<1>5. r # 6 => InPlace(s, [set_reg8(s, r, onReg.v) EXCEPT !.f = onReg.f])
  <2>1. r # 6 => InPlace(s, set_reg8(s, r, onReg.v))
    BY <1>1, <1>4, Operands, InPlaceSteps
  <2> QED BY <1>4, <2>1, InPlaceSteps
<1>6. InPlace(s, read_z(s, hl(s))) /\ InPlace(s, write(s, hl(s), onZ.v))
  BY <1>4, Operands, InPlaceSteps
<1>7. InPlace(s, [write(s, hl(s), onZ.v) EXCEPT !.f = onZ.f])
  BY <1>4, <1>6, InPlaceSteps
<1> QED BY <1>3, <1>5, <1>6, <1>7, Ways, Operands DEF REG_HL_MEM

LEMMA BitB3R8Steps == ASSUME NEW s, Ready(s) PROVE Steps(s, exec_bit_b3_r8(s), 0)
<1> DEFINE r == decode_reg8(s)
           x == IF r = REG_HL_MEM THEN s.z ELSE get_reg8(s, r)
           b == ~Bit(x, 2 ^ decode_bit_index(s))
           f == [s.f EXCEPT !.Z = b, !.N = FALSE, !.H = TRUE]
           t == [s EXCEPT !.z = x, !.f = f]
<1>1. x \in Bytes
  BY Decoded, Operands
<1>2. f \in FlagRecords
  <2>1. b \in BOOLEAN
    BY DEF Bit
  <2> HIDE DEF b
  <2> QED BY <2>1, Operands DEF FlagRecords
<1>3. exec_bit_b3_r8(s) = IF s.cycle = 1 /\ r = REG_HL_MEM THEN read_z(s, hl(s)) ELSE done(t)
  BY DEF exec_bit_b3_r8
<1> HIDE DEF r, x, f
<1>4. InPlace(s, t)
  BY <1>1, <1>2 DEF InPlace, Kept, Ready, Typed, FlagRecords
<1>5. InPlace(s, read_z(s, hl(s)))
  BY Operands, InPlaceSteps
<1> HIDE DEF t
<1> QED BY <1>3, <1>4, <1>5, Ways, Operands

LEMMA ResSetB3R8Steps == ASSUME NEW s, Ready(s) PROVE Steps(s, exec_res_set_b3_r8(s), 0)
<1> DEFINE r == decode_reg8(s)
           onReg == res_or_set(s.instr.op, decode_bit_index(s), get_reg8(s, r))
           onZ == res_or_set(s.instr.op, decode_bit_index(s), s.z)
<1>1. r \in 0 .. 7 /\ onReg \in Int /\ onZ \in Bytes
  BY Decoded, ResOrSetIsByte, BytesAround
<1>2. exec_res_set_b3_r8(s) =
        CASE s.cycle = 1 /\ r # REG_HL_MEM -> done(set_reg8(s, r, onReg))
          [] s.cycle = 1 /\ r = REG_HL_MEM -> read_z(s, hl(s))
          [] s.cycle = 2 -> write(s, hl(s), onZ)
          [] OTHER -> done(s)
  BY DEF exec_res_set_b3_r8
<1> HIDE DEF r, onReg, onZ
<1>3. /\ r # 6 => InPlace(s, set_reg8(s, r, onReg))
      /\ InPlace(s, read_z(s, hl(s))) /\ InPlace(s, write(s, hl(s), onZ))
  BY <1>1, Operands, InPlaceSteps
<1> QED BY <1>2, <1>3, Ways, Operands DEF REG_HL_MEM

\* LD [HL], [HL] would write the slot that no register has.
LEMMA LdR8R8Steps ==
  ASSUME NEW s, Ready(s), ~(decode_reg8(s) = 6 /\ decode_reg8_dst(s) = 6)
  PROVE  Steps(s, exec_ld_r8_r8(s), 0)
<1> DEFINE src == decode_reg8(s)
           dst == decode_reg8_dst(s)
<1>1. src \in 0 .. 7 /\ dst \in 0 .. 7
  BY Decoded
<1>2. exec_ld_r8_r8(s) =
        CASE src # REG_HL_MEM /\ dst # REG_HL_MEM -> done(set_reg8(s, dst, get_reg8(s, src)))
          [] src = REG_HL_MEM /\ s.cycle = 0 -> read_z(s, hl(s))
          [] src = REG_HL_MEM /\ s.cycle # 0 -> done(set_reg8(s, dst, s.z))
          [] dst = REG_HL_MEM /\ s.cycle = 0 -> write(s, hl(s), get_reg8(s, src))
          [] OTHER -> done(s)
  BY DEF exec_ld_r8_r8
<1>3. ~(src = 6 /\ dst = 6)
  OBVIOUS
<1> HIDE DEF src, dst
<1>4. get_reg8(s, src) \in Bytes /\ get_reg8(s, src) \in Int /\ s.z \in Int
  BY <1>1, Operands, BytesAround
<1>5. dst # 6 => InPlace(s, set_reg8(s, dst, get_reg8(s, src))) /\ InPlace(s, set_reg8(s, dst, s.z))
  BY <1>1, <1>4, Operands, InPlaceSteps
<1>6. InPlace(s, read_z(s, hl(s))) /\ InPlace(s, write(s, hl(s), get_reg8(s, src)))
  BY <1>4, Operands, InPlaceSteps
<1> QED BY <1>2, <1>3, <1>5, <1>6, Ways, Operands DEF REG_HL_MEM

LEMMA OpAR8Steps ==
  ASSUME NEW s, Ready(s), s.instr.op \in AluOps PROVE Steps(s, exec_op_a_r8(s), 0)
<1> DEFINE r == decode_reg8(s)
           x == IF r = REG_HL_MEM THEN s.z ELSE get_reg8(s, r)
           res == alu(s.instr.op, get_reg8(s, REG_A), x, s.f)
<1>1. x \in Bytes /\ get_reg8(s, REG_A) \in Bytes
  BY Decoded, Operands DEF REG_A
<1>2. IsResult(res)
  BY <1>1, AluIsResult
<1>3. exec_op_a_r8(s) = IF r = REG_HL_MEM /\ s.cycle = 0 THEN read_z(s, hl(s)) ELSE done(set_a(s, res))
  BY DEF exec_op_a_r8
<1> HIDE DEF r, res
<1>4. InPlace(s, set_a(s, res)) /\ InPlace(s, read_z(s, hl(s)))
  BY <1>2, SetAInPlace, Operands, InPlaceSteps
<1> QED BY <1>3, <1>4, Ways, Operands

LEMMA OpAImm8Steps ==
  ASSUME NEW s, Ready(s), s.instr.op \in AluOps PROVE Steps(s, exec_op_a_imm8(s), 1)
<1> DEFINE res == alu(s.instr.op, get_reg8(s, REG_A), s.z, s.f)
<1>1. get_reg8(s, REG_A) \in Bytes /\ s.z \in Bytes
  BY Operands DEF REG_A
<1>2. IsResult(res)
  BY <1>1, AluIsResult
<1>3. exec_op_a_imm8(s) = IF s.cycle = 0 THEN fetch_z(s) ELSE done(set_a(s, res))
  BY DEF exec_op_a_imm8
<1> HIDE DEF res
<1>4. InPlace(s, set_a(s, res))
  BY <1>2, SetAInPlace
<1> QED BY <1>3, <1>4, Ways, Operands

LEMMA LoadAInPlace ==
  ASSUME NEW s, Ready(s), NEW x \in Int PROVE InPlace(s, set_reg8(s, REG_A, x))
<1>1. 7 \in 0 .. 7 \ {6} /\ REG_A = 7
  BY DEF REG_A
<1>2. InPlace(s, set_reg8(s, 7, x))
  BY <1>1, Operands, InPlaceSteps
<1> QED BY <1>1, <1>2

\* A byte from the stack.
LEMMA PopInPlace ==
  ASSUME NEW s, Ready(s) PROVE InPlace(s, pop_z(s)) /\ InPlace(s, pop_w(s))
<1> DEFINE t == read_z(s, s.sp)
           u == [s EXCEPT !.w = fetch(s.m, s.sp)]
           sp == Word(s.sp + 1)
<1>1. s.sp \in Words /\ sp \in Words
  BY Operands, WordsAround
<1>2. t.sp = s.sp /\ u.sp = s.sp
  BY DEF read_z
<1>3. InPlace(s, t) /\ InPlace(s, u)
  BY <1>1, Operands, InPlaceSteps
<1>4. pop_z(s) = [t EXCEPT !.sp = sp] /\ pop_w(s) = [u EXCEPT !.sp = sp]
  BY <1>2 DEF pop_z, pop_w
<1> HIDE DEF t, u, sp
<1> QED BY <1>1, <1>3, <1>4, InPlaceSteps

LEMMA PopR16Steps == ASSUME NEW s, Ready(s) PROVE Steps(s, exec_pop_r16(s), 0)
<1>1. InPlace(s, set_reg16(s, decode_reg16stk(s), wz(s)))
  BY Operands, InPlaceSteps, WordsAround
<1> QED BY <1>1, PopInPlace, Ways, Operands DEF exec_pop_r16

LEMMA PushR16Steps == ASSUME NEW s, Ready(s) PROVE Steps(s, exec_push_r16(s), 0)
<1> DEFINE x == get_reg16(s, decode_reg16stk(s))
           high == write(s, s.sp, x \div 256)
           sp == Word(s.sp - 1)
<1>1. x \div 256 \in Bytes /\ Byte(x) \in Bytes /\ s.sp \in Words /\ sp \in Words
  BY Operands, WordsAround
<1>2. /\ InPlace(s, [s EXCEPT !.sp = sp]) /\ InPlace(s, high)
      /\ InPlace(s, write(s, s.sp, Byte(x)))
  <2> HIDE DEF x, sp
  <2> QED BY <1>1, Operands, InPlaceSteps
<1>3. high.sp = s.sp
  BY DEF write
<1>4. exec_push_r16(s) =
        CASE s.cycle = 0 -> [s EXCEPT !.sp = sp]
          [] s.cycle = 1 -> [high EXCEPT !.sp = sp]
          [] s.cycle = 2 -> write(s, s.sp, Byte(x))
          [] OTHER -> done(s)
  BY <1>3 DEF exec_push_r16
<1> HIDE DEF high, sp, x
<1>5. InPlace(s, [high EXCEPT !.sp = sp])
  BY <1>1, <1>2, InPlaceSteps
<1> QED BY <1>2, <1>4, <1>5, Ways, Operands

LEMMA LdhSteps ==
  ASSUME NEW s, Ready(s)
  PROVE  /\ Steps(s, exec_ldh_cmem_a(s), 0) /\ Steps(s, exec_ldh_a_cmem(s), 0)
         /\ Steps(s, exec_ldh_imm8mem_a(s), 1) /\ Steps(s, exec_ldh_a_imm8mem(s), 1)
<1>1. /\ 65280 + get_reg8(s, REG_C) \in Words /\ 65280 + s.z \in Words
      /\ get_reg8(s, REG_A) \in Bytes /\ s.z \in Int /\ s.w \in Int
  BY Operands, BytesAround DEF REG_A, REG_C
<1> DEFINE c == 65280 + get_reg8(s, REG_C)
           imm == 65280 + s.z
           a == get_reg8(s, REG_A)
<1>2. /\ exec_ldh_cmem_a(s) = IF s.cycle = 0 THEN write(s, c, a) ELSE done(s)
      /\ exec_ldh_a_cmem(s) = IF s.cycle = 0 THEN read_z(s, c) ELSE done(set_reg8(s, REG_A, s.z))
      /\ exec_ldh_imm8mem_a(s) = CASE s.cycle = 0 -> fetch_z(s)
                                   [] s.cycle = 1 -> write(s, imm, a)
                                   [] OTHER -> done(s)
      /\ exec_ldh_a_imm8mem(s) = CASE s.cycle = 0 -> fetch_z(s)
                                   [] s.cycle = 1 -> [s EXCEPT !.w = fetch(s.m, imm)]
                                   [] OTHER -> done(set_reg8(s, REG_A, s.w))
  BY DEF exec_ldh_cmem_a, exec_ldh_a_cmem, exec_ldh_imm8mem_a, exec_ldh_a_imm8mem
<1>3. c \in Words /\ imm \in Words /\ a \in Bytes /\ s.z \in Int /\ s.w \in Int
  BY <1>1
<1> HIDE DEF c, imm, a
<1>4. /\ InPlace(s, write(s, c, a)) /\ InPlace(s, read_z(s, c)) /\ InPlace(s, write(s, imm, a))
      /\ InPlace(s, [s EXCEPT !.w = fetch(s.m, imm)])
      /\ InPlace(s, set_reg8(s, REG_A, s.z)) /\ InPlace(s, set_reg8(s, REG_A, s.w))
  <2>1. InPlace(s, set_reg8(s, REG_A, s.z)) /\ InPlace(s, set_reg8(s, REG_A, s.w))
    BY <1>3, LoadAInPlace
  <2> QED BY <1>3, <2>1, Operands, InPlaceSteps
<1>5. Steps(s, exec_ldh_cmem_a(s), 0) /\ Steps(s, exec_ldh_a_cmem(s), 0)
  BY <1>2, <1>4, Ways, Operands
<1>6. Steps(s, exec_ldh_imm8mem_a(s), 1) /\ Steps(s, exec_ldh_a_imm8mem(s), 1)
  BY <1>2, <1>4, Ways, Operands
<1> QED BY <1>5, <1>6

LEMMA LdImm16memSteps ==
  ASSUME NEW s, Ready(s)
  PROVE  Steps(s, exec_ld_imm16mem_a(s), 2) /\ Steps(s, exec_ld_a_imm16mem(s), 2)
<1>1. /\ InPlace(s, write(s, wz(s), get_reg8(s, REG_A))) /\ InPlace(s, read_z(s, wz(s)))
      /\ InPlace(s, set_reg8(s, REG_A, s.z))
  <2>1. get_reg8(s, REG_A) \in Bytes
    BY Operands DEF REG_A
  <2>2. InPlace(s, set_reg8(s, REG_A, s.z))
    BY Operands, LoadAInPlace, BytesAround
  <2> QED BY <2>1, <2>2, Operands, InPlaceSteps
<1>2. Steps(s, exec_ld_imm16mem_a(s), 2)
  BY <1>1, Ways, Operands DEF exec_ld_imm16mem_a
<1>3. Steps(s, exec_ld_a_imm16mem(s), 2)
  BY <1>1, Ways, Operands DEF exec_ld_a_imm16mem
<1> QED BY <1>2, <1>3

LEMMA SpSteps ==
  ASSUME NEW s, Ready(s)
  PROVE  /\ Steps(s, exec_add_sp_imm8(s), 1) /\ Steps(s, exec_ld_hl_sp_plus_imm8(s), 1)
         /\ Steps(s, exec_ld_sp_hl(s), 0)
<1> DEFINE x == Word(s.sp + int8(s.z))
           sum == add_a(Byte(s.sp), s.z, 0)
<1>1. x \in Words /\ s.sp + int8(s.z) \in Int
  BY Operands, WordsAround
<1>2. InPlace(s, sp_flags(s))
  <2>1. IsResult(sum)
    BY Operands, WordsAround, AddIsResult
  <2>2. [sum.f EXCEPT !.Z = FALSE] \in FlagRecords
    BY <2>1, FlagUpdates DEF IsResult
  <2> QED BY <2>2, Operands, InPlaceSteps DEF sp_flags
<1>3. /\ InPlace(s, [s EXCEPT !.sp = x]) /\ InPlace(s, set_reg16(s, "HL", s.sp + int8(s.z)))
      /\ InPlace(s, [s EXCEPT !.sp = hl(s)])
  <2> HIDE DEF x
  <2> QED BY <1>1, Operands, InPlaceSteps
<1>4. Steps(s, exec_add_sp_imm8(s), 1)
  <2>1. exec_add_sp_imm8(s) = CASE s.cycle = 0 -> fetch_z(s)
                                [] s.cycle = 1 -> sp_flags(s)
                                [] s.cycle = 2 -> s
                                [] OTHER -> done([s EXCEPT !.sp = x])
    BY DEF exec_add_sp_imm8
  <2> HIDE DEF x
  <2> QED BY <2>1, <1>2, <1>3, Ways, Operands
<1>5. Steps(s, exec_ld_hl_sp_plus_imm8(s), 1)
  BY <1>2, <1>3, Ways, Operands DEF exec_ld_hl_sp_plus_imm8
<1>6. Steps(s, exec_ld_sp_hl(s), 0)
  BY <1>3, Ways, Operands DEF exec_ld_sp_hl
<1> QED BY <1>4, <1>5, <1>6

-----------------------------------------------------------------------------
(* The exec functions that may set PC.                                     *)

LEMMA JumpWays ==
  ASSUME NEW s, Ready(s)
  PROVE  /\ \A t : Kept(s, t) => Stepped(s, done(t))
         /\ \A t : Kept(s, t) /\ s.cycle <= 4 => Stepped(s, t)
         /\ Kept(s, s) /\ Kept(s, fetch_z(s)) /\ Kept(s, fetch_w(s))
         /\ Kept(s, pop_z(s)) /\ Kept(s, pop_w(s))
         /\ s.cycle \in 0 .. 5
         /\ \A x \in Words : Kept(s, [s EXCEPT !.pc = x]) /\ Kept(s, [s EXCEPT !.sp = x])
BY DoneSteps, KeptSteps, FetchKept, PopInPlace, Operands, InPlaceSteps DEF InPlace, Ready

\* A return address goes to the stack.
LEMMA PushKept ==
  ASSUME NEW s, Ready(s), NEW x \in Words
  PROVE  /\ Kept(s, [s EXCEPT !.sp = Word(s.sp - 1)])
         /\ Kept(s, push_high(s))
         /\ Kept(s, [write(s, s.sp, Byte(s.pc)) EXCEPT !.pc = x])
<1> DEFINE t == write(s, s.sp, s.pc \div 256)
           u == write(s, s.sp, Byte(s.pc))
           sp == Word(s.sp - 1)
<1>1. sp \in Words /\ s.pc \div 256 \in Bytes /\ Byte(s.pc) \in Bytes /\ s.sp \in Words
  BY Operands, WordsAround
<1>2. InPlace(s, t) /\ InPlace(s, u)
  BY <1>1, Operands, InPlaceSteps
<1>3. t.sp = s.sp
  BY DEF write
<1>4. push_high(s) = [t EXCEPT !.sp = sp]
  BY <1>3 DEF push_high
<1> HIDE DEF t, sp
<1>5. Kept(s, [s EXCEPT !.sp = sp]) /\ Kept(s, [t EXCEPT !.sp = sp])
  BY <1>1, <1>2, Operands, InPlaceSteps DEF InPlace
<1>6. Kept(s, [u EXCEPT !.pc = x])
  BY <1>2, InPlaceSteps
<1> QED BY <1>4, <1>5, <1>6 DEF sp

LEMMA JrSteps ==
  ASSUME NEW s, Ready(s)
  PROVE  Stepped(s, exec_jr_imm8(s)) /\ Stepped(s, exec_jr_cond_imm8(s))
<1> DEFINE x == Word(s.pc + int8(s.z))
<1>1. x \in Words
  BY Operands, WordsAround
<1>2. exec_jr_imm8(s) = CASE s.cycle = 0 -> fetch_z(s)
                          [] s.cycle = 1 -> [s EXCEPT !.pc = x]
                          [] OTHER -> done(s)
  BY DEF exec_jr_imm8
<1>3. exec_jr_cond_imm8(s) = CASE s.cycle = 0 -> fetch_z(s)
                               [] s.cycle = 1 /\ eval_cond(s) -> [s EXCEPT !.pc = x]
                               [] OTHER -> done(s)
  BY DEF exec_jr_cond_imm8
<1> HIDE DEF x
<1>4. Kept(s, [s EXCEPT !.pc = x])
  BY <1>1, JumpWays
<1>5. Stepped(s, exec_jr_imm8(s))
  BY <1>2, <1>4, JumpWays
<1>6. Stepped(s, exec_jr_cond_imm8(s))
  BY <1>3, <1>4, JumpWays
<1> QED BY <1>5, <1>6

LEMMA RetSteps ==
  ASSUME NEW s, Ready(s)
  PROVE  Stepped(s, exec_ret(s)) /\ Stepped(s, exec_ret_cond(s))
<1>1. Kept(s, [s EXCEPT !.pc = wz(s)])
  BY Operands, JumpWays
<1>2. Stepped(s, exec_ret(s))
  BY <1>1, JumpWays DEF exec_ret
<1>3. Stepped(s, exec_ret_cond(s))
  BY <1>1, JumpWays DEF exec_ret_cond
<1> QED BY <1>2, <1>3

LEMMA JpSteps ==
  ASSUME NEW s, Ready(s)
  PROVE  Stepped(s, exec_jp(s)) /\ Stepped(s, exec_jp_hl(s))
<1>1. Kept(s, [s EXCEPT !.pc = wz(s)]) /\ Kept(s, [s EXCEPT !.pc = hl(s)])
  BY Operands, JumpWays
<1>2. Stepped(s, exec_jp(s))
  BY <1>1, JumpWays DEF exec_jp
<1>3. Stepped(s, exec_jp_hl(s))
  BY <1>1, JumpWays DEF exec_jp_hl
<1> QED BY <1>2, <1>3

LEMMA CallSteps ==
  ASSUME NEW s, Ready(s)
  PROVE  Stepped(s, exec_call(s)) /\ Stepped(s, exec_rst_tgt3(s))
<1>1. /\ Kept(s, [s EXCEPT !.sp = Word(s.sp - 1)]) /\ Kept(s, push_high(s))
      /\ Kept(s, [write(s, s.sp, Byte(s.pc)) EXCEPT !.pc = wz(s)])
      /\ Kept(s, [write(s, s.sp, Byte(s.pc)) EXCEPT !.pc = decode_tgt3(s)])
  BY Operands, Decoded, PushKept
<1>2. exec_call(s) = CASE s.cycle = 0 -> fetch_z(s)
                       [] s.cycle = 1 -> fetch_w(s)
                       [] s.cycle = 2 /\ (s.instr.op = "check_cond" => eval_cond(s)) ->
                            [s EXCEPT !.sp = Word(s.sp - 1)]
                       [] s.cycle = 3 -> push_high(s)
                       [] s.cycle = 4 -> [write(s, s.sp, Byte(s.pc)) EXCEPT !.pc = wz(s)]
                       [] OTHER -> done(s)
  BY DEF exec_call
<1>3. exec_rst_tgt3(s) = CASE s.cycle = 0 -> [s EXCEPT !.sp = Word(s.sp - 1)]
                           [] s.cycle = 1 -> push_high(s)
                           [] s.cycle = 2 -> [write(s, s.sp, Byte(s.pc)) EXCEPT !.pc = decode_tgt3(s)]
                           [] OTHER -> done(s)
  BY DEF exec_rst_tgt3
<1>4. Stepped(s, exec_call(s))
  BY <1>1, <1>2, JumpWays
<1>5. Stepped(s, exec_rst_tgt3(s))
  BY <1>1, <1>3, JumpWays
<1> QED BY <1>4, <1>5

-----------------------------------------------------------------------------
(* cpu_mcycle.                                                             *)

\* The instruction that s executes is one of its bank, and not the one that
\* no op-code selects.
Chosen(s) ==
  /\ s.bank = "main" => MainRow(s.instr)
  /\ s.bank = "cb" => CbRow(s.instr)
  /\ s.instr.exec \notin elsewhere
  /\ s.instr.exec = "ld_r8_r8" => 64 <= s.ir /\ s.ir <= 127 /\ s.ir # 118

LEMMA LoadOperands ==
  ASSUME NEW s, Ready(s), s.instr.shift = 0, 64 <= s.ir, s.ir <= 127, s.ir # 118
  PROVE  ~(decode_reg8(s) = 6 /\ decode_reg8_dst(s) = 6)
<1>1. s.ir \in Int /\ 2 ^ 0 = 1
  BY TypedFields, ByteRange DEF Ready
<1>2. Field(s) = s.ir
  BY <1>1 DEF Field
<1> QED BY <1>1, <1>2 DEF decode_reg8, decode_reg8_dst

\* One cycle of any instruction but the prefix of the second bank.
LEMMA ExecSteps ==
  ASSUME NEW s, Ready(s), Chosen(s), s.instr.exec # "cb_bank_switch"
  PROVE  /\ Stepped(s, exec(s))
         /\ s.instr.exec \notin jumps => Paced(s, exec(s), OperandBytes(s.instr.exec))
<1> DEFINE e == s.instr.exec
<1>1. CASE e \in {"nop", "daa", "cpl", "scf", "ccf"}
  <2>1. exec(s) \in {done(s), exec_daa(s), exec_cpl(s), exec_scf_ccf(s)} /\ OperandBytes(e) = 0
    BY <1>1 DEF exec, OperandBytes, OneByte, TwoBytes
  <2> QED BY <2>1, NopSteps, DaaSteps, CplSteps, ScfCcfSteps DEF Steps
<1>2. CASE e \in {"ld_r16_imm16", "ld_imm16mem_sp", "ld_imm16mem_a", "ld_a_imm16mem"}
  <2>1. /\ exec(s) \in {exec_ld_r16_imm16(s), exec_ld_imm16mem_sp(s), exec_ld_imm16mem_a(s),
                        exec_ld_a_imm16mem(s)}
        /\ OperandBytes(e) = 2
    BY <1>2 DEF exec, OperandBytes, OneByte, TwoBytes
  <2> QED BY <2>1, LdR16Imm16Steps, LdImm16memSpSteps, LdImm16memSteps DEF Steps
<1>3. CASE e \in {"ld_r16mem_a", "ld_a_r16mem", "inc_r16", "dec_r16", "add_hl_r16"}
  <2>1. /\ exec(s) \in {exec_ld_r16mem_a(s), exec_ld_a_r16mem(s), exec_inc_r16(s),
                        exec_dec_r16(s), exec_add_hl_r16(s)}
        /\ OperandBytes(e) = 0
    BY <1>3 DEF exec, OperandBytes, OneByte, TwoBytes
  <2> QED BY <2>1, LdR16memASteps, LdAR16memSteps, IncDecR16Steps, AddHlR16Steps DEF Steps
<1>4. CASE e \in {"inc_r8", "dec_r8", "ld_sp_hl", "pop_r16", "push_r16"}
  <2>1. /\ exec(s) \in {exec_inc_dec_r8(s), exec_ld_sp_hl(s), exec_pop_r16(s), exec_push_r16(s)}
        /\ OperandBytes(e) = 0
    BY <1>4 DEF exec, OperandBytes, OneByte, TwoBytes
  <2> QED BY <2>1, IncDecR8Steps, SpSteps, PopR16Steps, PushR16Steps DEF Steps
<1>5. CASE e \in {"ld_r8_imm8", "add_sp_imm8", "ld_hl_sp_plus_imm8", "ldh_imm8mem_a", "ldh_a_imm8mem"}
  <2>1. /\ exec(s) \in {exec_ld_r8_imm8(s), exec_add_sp_imm8(s), exec_ld_hl_sp_plus_imm8(s),
                        exec_ldh_imm8mem_a(s), exec_ldh_a_imm8mem(s)}
        /\ OperandBytes(e) = 1
    BY <1>5 DEF exec, OperandBytes, OneByte, TwoBytes
  <2> QED BY <2>1, LdR8Imm8Steps, SpSteps, LdhSteps DEF Steps
<1>6. CASE e \in {"ldh_cmem_a", "ldh_a_cmem"}
  <2>1. exec(s) \in {exec_ldh_cmem_a(s), exec_ldh_a_cmem(s)} /\ OperandBytes(e) = 0
    BY <1>6 DEF exec, OperandBytes, OneByte, TwoBytes
  <2> QED BY <2>1, LdhSteps DEF Steps
<1>7. CASE e \in jumps
  <2>1. exec(s) \in {exec_jr_imm8(s), exec_jr_cond_imm8(s), exec_ret(s), exec_ret_cond(s),
                     exec_jp(s), exec_jp_hl(s), exec_call(s), exec_rst_tgt3(s)}
    BY <1>7 DEF exec, jumps
  <2> QED BY <1>7, <2>1, JrSteps, RetSteps, JpSteps, CallSteps
<1>8. CASE e = "rotate_a"
  <2>1. s.instr.op \in RotateOps
    BY <1>8
       DEF Chosen, MainRow, CbRow, PlainExecs, NoBytes, OneByte, TwoBytes, jumps, elsewhere,
           Ready, Typed
  <2>2. exec(s) = exec_rotate_a(s) /\ OperandBytes(e) = 0
    BY <1>8 DEF exec, OperandBytes, OneByte, TwoBytes
  <2> QED BY <2>1, <2>2, RotateASteps DEF Steps
<1>9. CASE e \in {"op_a_r8", "op_a_imm8"}
  <2>1. s.instr.op \in AluOps
    BY <1>9
       DEF Chosen, MainRow, CbRow, PlainExecs, NoBytes, OneByte, TwoBytes, jumps, elsewhere,
           Ready, Typed
  <2>2. \/ exec(s) = exec_op_a_r8(s) /\ OperandBytes(e) = 0
        \/ exec(s) = exec_op_a_imm8(s) /\ OperandBytes(e) = 1
    BY <1>9 DEF exec, OperandBytes, OneByte, TwoBytes
  <2> QED BY <2>1, <2>2, OpAR8Steps, OpAImm8Steps DEF Steps
<1>10. CASE e = "ld_r8_r8"
  <2>1. s.instr.shift = 0
    BY <1>10
       DEF Chosen, MainRow, CbRow, PlainExecs, NoBytes, OneByte, TwoBytes, jumps, elsewhere,
           Ready, Typed
  <2>2. exec(s) = exec_ld_r8_r8(s) /\ OperandBytes(e) = 0
    BY <1>10 DEF exec, OperandBytes, OneByte, TwoBytes
  <2>3. 64 <= s.ir /\ s.ir <= 127 /\ s.ir # 118
    BY <1>10 DEF Chosen
  <2> QED BY <2>1, <2>2, <2>3, LoadOperands, LdR8R8Steps DEF Steps
<1>11. CASE e \in {"bit_b3_r8", "res_set_b3_r8"}
  <2>1. exec(s) \in {exec_bit_b3_r8(s), exec_res_set_b3_r8(s)} /\ OperandBytes(e) = 0
    BY <1>11 DEF exec, OperandBytes, OneByte, TwoBytes
  <2> QED BY <2>1, BitB3R8Steps, ResSetB3R8Steps DEF Steps
<1>12. CASE e = "bit_twiddle_r8"
  <2>1. s.instr.op \in TwiddleOps
    BY <1>12
       DEF Chosen, MainRow, CbRow, PlainExecs, NoBytes, OneByte, TwoBytes, jumps, elsewhere,
           Ready, Typed
  <2>2. exec(s) = exec_bit_twiddle_r8(s) /\ OperandBytes(e) = 0
    BY <1>12 DEF exec, OperandBytes, OneByte, TwoBytes
  <2> QED BY <2>1, <2>2, BitTwiddleR8Steps DEF Steps
<1>13. \/ e \in PlainExecs
       \/ e \in {"rotate_a", "op_a_r8", "op_a_imm8", "ld_r8_r8", "bit_b3_r8", "res_set_b3_r8",
                 "bit_twiddle_r8"}
  BY DEF Chosen, MainRow, CbRow, Ready, Typed
<1> HIDE DEF e
<1> QED BY <1>1, <1>2, <1>3, <1>4, <1>5, <1>6, <1>7, <1>8, <1>9, <1>10, <1>11, <1>12, <1>13
        DEF PlainExecs, NoBytes, OneByte, TwoBytes, jumps


\* What holds of the instruction in progress: it is one of its bank that this
\* module executes, or the prefix of the second bank has just been taken.
InstrInv ==
  /\ g.instr = NULL => \/ g.state = "DONE"
                       \/ g.state = "EXECUTING" /\ g.bank = "cb" /\ g.cycle = 1
  /\ g.instr # NULL => Chosen(g) /\ g.instr.exec # "cb_bank_switch" /\ g.state = "EXECUTING"

\* The state in which cpu_mcycle calls exec.
Called(s) == [s EXCEPT !.instr = Current(s), !.state = "EXECUTING"]

LEMMA CalledFields ==
  ASSUME NEW s, Typed(s), Current(s) \in Rows
  PROVE  /\ Typed(Called(s)) /\ Called(s).instr = Current(s) /\ Called(s).state = "EXECUTING"
         /\ Called(s).registers = s.registers /\ Called(s).f = s.f /\ Called(s).sp = s.sp
         /\ Called(s).pc = s.pc /\ Called(s).ir = s.ir /\ Called(s).m = s.m
         /\ Called(s).bank = s.bank /\ Called(s).cycle = s.cycle
<1> DEFINE i == Current(s)
<1>1. Called(s) = [s EXCEPT !.instr = i, !.state = "EXECUTING"]
  BY DEF Called
<1> HIDE DEF i
<1>2. i \in Rows
  BY DEF i
<1> QED BY <1>1, <1>2 DEF Typed, i

\* Neither NULL nor an unknown op-code is an instruction of a table.
LEMMA NoRow ==
  /\ NULL.exec = "NULL" /\ unknown_instruction.exec = "unknown"
  /\ ~MainRow(NULL) /\ ~CbRow(NULL)
<1>1. NULL.exec = "NULL" /\ unknown_instruction.exec = "unknown"
  BY RowFields DEF NULL, unknown_instruction
<1>2. "NULL" \notin PlainExecs \cup elsewhere
  BY DEF PlainExecs, NoBytes, OneByte, TwoBytes, jumps, elsewhere
<1> QED BY <1>1, <1>2 DEF MainRow, CbRow

\* The instruction called is one of the bank.
LEMMA CalledIsChosen ==
  ASSUME TypeOK, InstrInv, Current(g).exec \notin elsewhere
  PROVE  /\ Current(g) \in Rows
         /\ Ready(Called(g)) /\ Chosen(Called(g))
<1>1. Typed(g) /\ g.bank \in {"main", "cb"} /\ g.ir \in Bytes /\ g.instr \in Rows
  BY TypedFields DEF TypeOK
<1>2. CASE g.instr = NULL
  <2>1. Current(g) = find_instruction(g.bank, g.ir)
    BY <1>2 DEF Current
  <2>2. /\ Current(g) \in Rows
        /\ g.bank = "main" => MainRow(Current(g))
        /\ g.bank = "cb" => CbRow(Current(g)) \/ Current(g) = unknown_instruction
        /\ g.bank = "main" /\ Current(g).exec = "ld_r8_r8" => 64 <= g.ir /\ g.ir <= 127 /\ g.ir # 118
    BY <1>1, <2>1, Found
  <2>3. Current(g) # unknown_instruction
    BY NoRow DEF elsewhere
  <2>4. g.bank = "cb" => Current(g).exec # "ld_r8_r8"
    BY <2>2, <2>3 DEF CbRow
  <2>5. Current(g).shift \in {0, 3, 4}
    BY <1>1, <2>2, <2>3 DEF MainRow, CbRow
  <2> QED BY <1>1, <2>2, <2>3, <2>4, <2>5, CalledFields DEF Ready, Chosen
<1>3. CASE g.instr # NULL
  <2>1. Current(g) = g.instr
    BY <1>3 DEF Current
  <2>2. Chosen(g)
    BY <1>3 DEF InstrInv
  <2>3. Current(g).shift \in {0, 3, 4}
    BY <1>1, <2>1, <2>2 DEF Chosen, MainRow, CbRow
  <2> QED BY <1>1, <2>1, <2>2, <2>3, CalledFields DEF Ready, Chosen
<1> QED BY <1>2, <1>3

\* The prefix is an instruction of one cycle of the first bank.
LEMMA PrefixCalled ==
  ASSUME TypeOK, InstrInv, Current(g).exec = "cb_bank_switch"
  PROVE  /\ g.state = "DONE" /\ Between(g)
         /\ cpu_mcycle(g) = [g EXCEPT !.instr = NULL, !.state = "EXECUTING", !.cycle = 1,
                                      !.bank = "cb", !.ir = fetch(g.m, g.pc), !.pc = Word(g.pc + 1)]
<1>1. Current(g).exec \notin elsewhere
  BY DEF elsewhere
<1>2. Chosen(Called(g)) /\ Current(g) \in Rows
  BY <1>1, CalledIsChosen
<1>3. Typed(g)
  BY DEF TypeOK
<1>4. g.bank = "main"
  BY <1>2, <1>3, CalledFields, TypedFields DEF Chosen, CbRow
<1>5. g.instr = NULL
  <2> SUFFICES ASSUME g.instr # NULL PROVE FALSE
    OBVIOUS
  <2> QED BY DEF Current, InstrInv
<1>6. g.state = "DONE" /\ Between(g) /\ g.cycle = 0
  BY <1>4, <1>5 DEF InstrInv, TypeOK, Between
<1>7. cpu_mcycle(g) = AfterExec(exec_cb_bank_switch(Called(g)))
  <2>1. exec(Called(g)) = exec_cb_bank_switch(Called(g))
    BY <1>2, <1>3, CalledFields DEF exec
  <2> QED BY <2>1 DEF cpu_mcycle, Called
<1> DEFINE ir == fetch(g.m, g.pc)
           pc == Word(g.pc + 1)
           i == Current(g)
<1>8. exec_cb_bank_switch(Called(g))
        = [Called(g) EXCEPT !.ir = ir, !.pc = pc, !.bank = "cb", !.instr = NULL]
  BY <1>2, <1>3, CalledFields DEF exec_cb_bank_switch
<1>9. Called(g) = [g EXCEPT !.instr = i, !.state = "EXECUTING"]
  BY DEF Called
<1> HIDE DEF ir, pc, i
<1> DEFINE t == [Called(g) EXCEPT !.ir = ir, !.pc = pc, !.bank = "cb", !.instr = NULL]
<1>10. t = [g EXCEPT !.instr = NULL, !.state = "EXECUTING", !.bank = "cb", !.ir = ir, !.pc = pc]
  BY <1>3, <1>9 DEF Typed
<1> HIDE DEF t
<1>11. AfterExec(t) = [t EXCEPT !.cycle = 1]
  <2>1. t.state = "EXECUTING" /\ t.cycle = 0
    BY <1>3, <1>6, <1>10 DEF Typed
  <2> QED BY <2>1 DEF AfterExec
<1>12. [t EXCEPT !.cycle = 1]
         = [g EXCEPT !.instr = NULL, !.state = "EXECUTING", !.cycle = 1, !.bank = "cb", !.ir = ir, !.pc = pc]
  BY <1>3, <1>10 DEF Typed
<1> QED BY <1>6, <1>7, <1>8, <1>11, <1>12 DEF t, ir, pc

\* Each field on its own.
LEMMA FieldUpdates ==
  ASSUME NEW s, Typed(s)
  PROVE  /\ \A x \in Rows : Typed([s EXCEPT !.instr = x])
         /\ \A x \in {"DONE", "EXECUTING"} : Typed([s EXCEPT !.state = x])
         /\ \A x \in {"main", "cb"} : Typed([s EXCEPT !.bank = x])
         /\ \A x : x \in 0 .. 5 => Typed([s EXCEPT !.cycle = x])
         /\ \A x \in Bytes : Typed([s EXCEPT !.ir = x])
         /\ \A x \in Bytes : Typed([s EXCEPT !.w = x])
         /\ \A x \in Bytes : Typed([s EXCEPT !.z = x])
<1>1. \A x \in Rows : Typed([s EXCEPT !.instr = x])
  BY DEF Typed
<1>2. \A x \in {"DONE", "EXECUTING"} : Typed([s EXCEPT !.state = x])
  BY DEF Typed
<1>3. \A x \in {"main", "cb"} : Typed([s EXCEPT !.bank = x])
  BY DEF Typed
<1>4. \A x : x \in 0 .. 5 => Typed([s EXCEPT !.cycle = x])
  BY DEF Typed
<1>5. \A x \in Bytes : Typed([s EXCEPT !.ir = x])
  BY DEF Typed
<1>6. \A x \in Bytes : Typed([s EXCEPT !.w = x])
  BY DEF Typed
<1>7. \A x \in Bytes : Typed([s EXCEPT !.z = x])
  BY DEF Typed
<1> QED BY <1>1, <1>2, <1>3, <1>4, <1>5, <1>6, <1>7

\* After the call of exec.
LEMMA AfterStep ==
  ASSUME NEW s, NEW t, Typed(s), Stepped(s, t), NEW u, u = AfterExec(t)
  PROVE  /\ Typed(u) /\ u.m = t.m /\ u.pc = t.pc /\ u.state = t.state
         /\ t.state = "DONE" => /\ Between(u) /\ u.registers = t.registers /\ u.f = t.f
                                /\ u.sp = t.sp
         /\ t.state # "DONE" => /\ u.instr = s.instr /\ u.bank = s.bank /\ u.ir = s.ir
                                /\ u.cycle = s.cycle + 1 /\ u.state = "EXECUTING"
<1>1. Typed(t) /\ t.instr = s.instr /\ t.bank = s.bank /\ t.cycle = s.cycle
  BY DEF Stepped
<1>2. t.cycle \in 0 .. 5 /\ t.state \in {"DONE", "EXECUTING"}
  BY <1>1, TypedFields
<1>3. NULL \in Rows /\ 0 \in Bytes
  BY ByteRange DEF Rows
<1>4. CASE t.state = "DONE"
  <2>1. u = [t EXCEPT !.bank = "main", !.instr = NULL, !.cycle = 0, !.w = 0, !.z = 0]
    BY <1>4 DEF AfterExec
  <2>2. /\ Typed(u) /\ u.m = t.m /\ u.pc = t.pc /\ u.state = t.state /\ u.ir = t.ir
        /\ u.registers = t.registers /\ u.f = t.f /\ u.sp = t.sp
        /\ u.bank = "main" /\ u.instr = NULL /\ u.cycle = 0 /\ u.w = 0 /\ u.z = 0
    <3> DEFINE v1 == [t EXCEPT !.bank = "main"]
               v2 == [v1 EXCEPT !.instr = NULL]
               v3 == [v2 EXCEPT !.cycle = 0]
               v4 == [v3 EXCEPT !.w = 0]
               v5 == [v4 EXCEPT !.z = 0]
    <3>1. u = v5
      BY <1>1, <2>1 DEF Typed
    <3>2. /\ v5.m = t.m /\ v5.pc = t.pc /\ v5.state = t.state /\ v5.ir = t.ir
          /\ v5.registers = t.registers /\ v5.f = t.f /\ v5.sp = t.sp
          /\ v5.bank = "main" /\ v5.instr = NULL /\ v5.cycle = 0 /\ v5.w = 0 /\ v5.z = 0
      BY <1>1 DEF Typed
    <3>3. Typed(v1)
      BY <1>1, FieldUpdates
    <3> HIDE DEF v1
    <3>4. Typed(v2)
      BY <1>3, <3>3, FieldUpdates
    <3> HIDE DEF v2
    <3>5. Typed(v3)
      <4>1. 0 \in 0 .. 5
        OBVIOUS
      <4>2. \A x : x \in 0 .. 5 => Typed([v2 EXCEPT !.cycle = x])
        BY <3>4, FieldUpdates
      <4> QED BY <4>1, <4>2, Zenon
    <3> HIDE DEF v3
    <3>6. Typed(v4)
      BY <1>3, <3>5, FieldUpdates
    <3> HIDE DEF v4
    <3>7. Typed(v5)
      BY <1>3, <3>6, FieldUpdates
    <3> HIDE DEF v5
    <3> QED BY <3>1, <3>2, <3>7
  <2>3. t.ir = fetch(t.m, Word(t.pc - 1))
    BY <1>4 DEF Stepped
  <2>4. Between(u)
    BY <1>4, <2>2, <2>3 DEF Between
  <2> QED BY <1>4, <2>2, <2>4
<1>5. CASE t.state # "DONE"
  <2>1. t.ir = s.ir /\ s.cycle <= 4
    BY <1>5 DEF Stepped
  <2> DEFINE c == t.cycle + 1
  <2>2. c \in 0 .. 5 /\ c = s.cycle + 1
    BY <1>1, <1>2, <2>1
  <2>3. u = [t EXCEPT !.cycle = c]
    BY <1>5 DEF AfterExec
  <2> HIDE DEF c
  <2>4. /\ Typed(u) /\ u.m = t.m /\ u.pc = t.pc /\ u.state = t.state /\ u.ir = t.ir
        /\ u.bank = t.bank /\ u.instr = t.instr /\ u.cycle = c
    BY <1>1, <2>2, <2>3 DEF Typed
  <2> QED BY <1>1, <1>2, <1>5, <2>1, <2>2, <2>4
<1> QED BY <1>4, <1>5

\* Any other instruction takes a step of its exec function.
LEMMA ExecCalled ==
  ASSUME TypeOK, InstrInv, Current(g).exec \notin elsewhere, Current(g).exec # "cb_bank_switch"
  PROVE  /\ Typed(Called(g)) /\ Chosen(Called(g)) /\ Called(g).instr = Current(g)
         /\ Stepped(Called(g), exec(Called(g)))
         /\ Current(g).exec \notin jumps =>
              Paced(Called(g), exec(Called(g)), OperandBytes(Current(g).exec))
         /\ cpu_mcycle(g) = AfterExec(exec(Called(g)))
<1>1. Typed(g)
  BY DEF TypeOK
<1>2. Ready(Called(g)) /\ Chosen(Called(g)) /\ Current(g) \in Rows
  BY CalledIsChosen
<1>3. Typed(Called(g)) /\ Called(g).instr = Current(g)
  BY <1>1, <1>2, CalledFields
<1>4. cpu_mcycle(g) = AfterExec(exec(Called(g)))
  BY DEF cpu_mcycle, Called
<1> QED BY <1>2, <1>3, <1>4, ExecSteps

-----------------------------------------------------------------------------
(* Type correctness.                                                       *)

LEMMA InitInv == Init => TypeOK /\ InstrInv
<1> SUFFICES ASSUME Init PROVE TypeOK /\ InstrInv
  OBVIOUS
<1>1. PICK start \in Starts : g = start.g
  BY DEF Init
<1>2. Typed(g) /\ Between(g)
  BY <1>1, StartAssumption
<1> QED BY <1>2 DEF TypeOK, InstrInv, Between

LEMMA NextInv == TypeOK /\ InstrInv /\ [Next]_vars => TypeOK' /\ InstrInv'
<1> SUFFICES ASSUME TypeOK, InstrInv, [Next]_vars PROVE TypeOK' /\ InstrInv'
  OBVIOUS
<1>1. CASE mcycle
  <2>1. Current(g).exec \notin elsewhere /\ g' = cpu_mcycle(g)
    BY <1>1 DEF mcycle
  <2>2. CASE Current(g).exec = "cb_bank_switch"
    <3> DEFINE ir == fetch(g.m, g.pc)
               pc == Word(g.pc + 1)
    <3>1. Typed(g) /\ IsMemory(g.m) /\ g.pc \in Words
      BY TypedFields DEF TypeOK
    <3>2. ir \in Bytes /\ pc \in Words
      BY <3>1, FetchIsByte, WordMoves
    <3>3. g' = [g EXCEPT !.instr = NULL, !.state = "EXECUTING", !.cycle = 1, !.bank = "cb",
                         !.ir = ir, !.pc = pc]
      BY <2>1, <2>2, PrefixCalled
    <3>4. NULL \in Rows
      BY DEF Rows
    <3> HIDE DEF ir, pc
    <3>5. /\ Typed(g') /\ g'.state = "EXECUTING" /\ g'.instr = NULL /\ g'.bank = "cb"
          /\ g'.cycle = 1
      <4> DEFINE v1 == [g EXCEPT !.instr = NULL]
                 v2 == [v1 EXCEPT !.state = "EXECUTING"]
                 v3 == [v2 EXCEPT !.cycle = 1]
                 v4 == [v3 EXCEPT !.bank = "cb"]
                 v5 == [v4 EXCEPT !.ir = ir]
                 v6 == [v5 EXCEPT !.pc = pc]
      <4>1. g' = v6
        BY <3>1, <3>3 DEF Typed
      <4>2. v6.state = "EXECUTING" /\ v6.instr = NULL /\ v6.bank = "cb" /\ v6.cycle = 1
        BY <3>1 DEF Typed
      <4>3. Typed(v1)
        BY <3>1, <3>4, FieldUpdates
      <4> HIDE DEF v1
      <4>4. Typed(v2)
        BY <4>3, FieldUpdates
      <4> HIDE DEF v2
      <4>5. Typed(v3)
        <5>1. 1 \in 0 .. 5
          OBVIOUS
        <5>2. \A x : x \in 0 .. 5 => Typed([v2 EXCEPT !.cycle = x])
          BY <4>4, FieldUpdates
        <5> QED BY <5>1, <5>2, Zenon
      <4> HIDE DEF v3
      <4>6. Typed(v4)
        BY <4>5, FieldUpdates
      <4> HIDE DEF v4
      <4>7. Typed(v5)
        BY <3>2, <4>6, FieldUpdates
      <4> HIDE DEF v5
      <4>8. Typed(v6)
        BY <3>2, <4>7, PcKept DEF Kept
      <4> HIDE DEF v6
      <4> QED BY <4>1, <4>2, <4>8
    <3> QED BY <3>5 DEF TypeOK, InstrInv
  <2>3. CASE Current(g).exec # "cb_bank_switch"
    <3> DEFINE s == Called(g)
               t == exec(s)
    <3>1. /\ Typed(s) /\ Chosen(s) /\ s.instr = Current(g) /\ Stepped(s, t) /\ g' = AfterExec(t)
      BY <2>1, <2>3, ExecCalled
    <3> HIDE DEF s, t
    <3>2. CASE t.state = "DONE"
      <4>1. Typed(g') /\ Between(g') /\ g'.state = "DONE"
        BY <3>1, <3>2, AfterStep
      <4> QED BY <4>1 DEF TypeOK, InstrInv, Between
    <3>3. CASE t.state # "DONE"
      <4>1. /\ Typed(g') /\ g'.instr = s.instr /\ g'.bank = s.bank /\ g'.ir = s.ir
            /\ g'.state = "EXECUTING"
        BY <3>1, <3>3, AfterStep
      <4>2. Chosen(g') /\ g'.instr.exec # "cb_bank_switch"
        BY <2>3, <3>1, <4>1 DEF Chosen
      <4>3. g'.instr # NULL
        BY <4>1, <4>2, NoRow, TypedFields DEF Chosen
      <4> QED BY <4>1, <4>2, <4>3 DEF TypeOK, InstrInv
    <3> QED BY <3>2, <3>3
  <2> QED BY <2>2, <2>3
<1>2. CASE UNCHANGED vars
  BY <1>2 DEF vars, TypeOK, InstrInv
<1> QED BY <1>1, <1>2 DEF Next

\* Registers, PC, SP, flags and memory stay in their width whatever the program
\* is, and between two instructions no bank, scratch byte or cycle count is left
\* over and ir holds the byte before pc (gameboy.h:242-260, cpu.c:436-442).
THEOREM TypeCorrect == Spec => []TypeOK
<1>1. Init => TypeOK /\ InstrInv
  BY InitInv
<1>2. TypeOK /\ InstrInv /\ [Next]_vars => TypeOK' /\ InstrInv'
  BY NextInv
<1> QED BY <1>1, <1>2, PTL DEF Spec

-----------------------------------------------------------------------------
(* The bytes an instruction takes.                                         *)

\* How far PC is past the start of the instruction before a cycle of it: past
\* the op-code, with its prefix, and the bytes of operands fetched so far.
Ahead(s) ==
  LET n == OperandBytes(s.instr.exec)
  IN (IF s.bank = "cb" THEN 2 ELSE 1) + IF s.cycle < n THEN s.cycle ELSE n

\* s executes the instruction that starts at the PC of a.
Begun(s, a) ==
  /\ <<s.bank, s.instr>> = AtPc(a)
  /\ s.instr.exec \notin jumps => s.pc = Word(a.pc + Ahead(s))

\* Between instructions arch is the state; the prefix has been taken from where
\* arch points to; or the instruction there is in progress.
SizeInv ==
  /\ arch.pc \in Words
  /\ g.state = "DONE" => arch = Arch(g)
  /\ g.state # "DONE" /\ g.instr = NULL =>
       /\ g.pc = Word(arch.pc + 2)
       /\ fetch(arch.m, arch.pc) = 203 /\ g.ir = fetch(arch.m, Word(arch.pc + 1))
  /\ g.instr # NULL => Begun(g, arch)

LEMMA WordAdds ==
  ASSUME NEW x \in Int
  PROVE  Word(Word(x) + 0) = Word(x + 0) /\ Word(Word(x) + 1) = Word(x + 1)
<1>1. Word(x) \in Words /\ Word(x) \in Int
  BY WordIsWord, WordRange
<1>2. Word(x) + 0 = Word(x) /\ x + 0 = x /\ Word(Word(x)) = Word(x)
  BY <1>1, WordMoves
<1>3. Word(Word(x) + 1) = Word(x + 1)
  BY DEF Word
<1> QED BY <1>2, <1>3

\* Where PC is between two instructions.
LEMMA ArchPc ==
  ASSUME NEW s, Typed(s)
  PROVE  /\ Arch(s).pc \in Words /\ Arch(s).m = s.m /\ Arch(s).pc = Word(s.pc - 1)
         /\ s.pc = Word(Arch(s).pc + 1)
<1>1. s.pc \in Words /\ s.pc \in Int
  BY TypedFields, WordRange
<1>2. Arch(s).pc = Word(s.pc - 1) /\ Arch(s).m = s.m
  BY DEF Arch
<1>3. s.pc - 1 \in Int /\ (s.pc - 1) + 1 = s.pc
  BY <1>1
<1>4. Word(Word(s.pc - 1) + 1) = Word(s.pc)
  <2>1. Word(Word(s.pc - 1) + 1) = Word((s.pc - 1) + 1)
    BY <1>3, WordAdds
  <2> QED BY <1>3, <2>1
<1> QED BY <1>1, <1>2, <1>4, WordMoves

\* The instruction that cpu_mcycle calls is the one that starts at arch's PC.
LEMMA CalledBegun ==
  ASSUME TypeOK, InstrInv, SizeInv, Current(g).exec \notin elsewhere,
         Current(g).exec # "cb_bank_switch"
  PROVE  Begun(Called(g), arch)
<1>1. Typed(g) /\ Current(g) \in Rows
  BY CalledIsChosen DEF TypeOK
<1>2. /\ Called(g).bank = g.bank /\ Called(g).instr = Current(g) /\ Called(g).pc = g.pc
      /\ Called(g).cycle = g.cycle /\ g.bank \in {"main", "cb"} /\ g.ir \in Bytes
      /\ g.cycle \in Int
  BY <1>1, CalledFields, TypedFields
<1>3. OperandBytes(Current(g).exec) \in 0 .. 2
  BY DEF OperandBytes
<1>4. CASE g.instr # NULL
  <2>1. Current(g) = g.instr
    BY <1>4 DEF Current
  <2> QED BY <1>2, <1>4, <2>1 DEF SizeInv, Begun, Ahead
<1>5. CASE g.state = "DONE"
  <2>1. /\ g.bank = "main" /\ g.instr = NULL /\ g.cycle = 0
        /\ g.ir = fetch(g.m, Word(g.pc - 1)) /\ arch = Arch(g)
    BY <1>5 DEF TypeOK, Between, SizeInv
  <2>2. Current(g) = find_instruction("main", g.ir)
    BY <2>1 DEF Current
  <2>3. g.ir # 203
    BY <1>2, <2>2, Prefix
  <2>4. g.ir = fetch(arch.m, arch.pc)
    BY <1>1, <2>1, ArchPc
  <2>5. AtPc(arch) = <<"main", Current(g)>>
    BY <2>2, <2>3, <2>4 DEF AtPc
  <2>6. Ahead(Called(g)) = 1
    BY <1>2, <1>3, <2>1 DEF Ahead
  <2>7. g.pc = Word(arch.pc + 1)
    BY <1>1, <2>1, ArchPc
  <2> QED BY <1>2, <2>1, <2>5, <2>6, <2>7 DEF Begun
<1>6. CASE g.state # "DONE" /\ g.instr = NULL
  <2>1. g.bank = "cb" /\ g.cycle = 1
    BY <1>6 DEF InstrInv
  <2>2. Current(g) = find_instruction("cb", g.ir)
    BY <1>6, <2>1 DEF Current
  <2>3. AtPc(arch) = <<"cb", Current(g)>> /\ g.pc = Word(arch.pc + 2)
    BY <1>6, <2>2 DEF AtPc, SizeInv
  <2>4. OperandBytes(Current(g).exec) = 0
    <3>1. CbRow(Current(g))
      BY <1>2, <2>1, CalledIsChosen DEF Chosen
    <3> QED BY <3>1 DEF CbRow, OperandBytes, OneByte, TwoBytes
  <2>5. Ahead(Called(g)) = 2
    BY <1>2, <2>1, <2>4 DEF Ahead
  <2> QED BY <1>2, <2>1, <2>3, <2>5 DEF Begun
<1> QED BY <1>4, <1>5, <1>6

\* instruction_size counts the op-code, its prefix and the operands.
LEMMA SizeOfChosen ==
  ASSUME NEW s, Chosen(s), s.bank \in {"main", "cb"}, s.instr.exec \notin jumps
  PROVE  instruction_size(s.bank, s.instr)
           = (IF s.bank = "cb" THEN 2 ELSE 1) + OperandBytes(s.instr.exec)
<1> DEFINE a == operand_size(s.instr.operand1)
           b == operand_size(s.instr.operand2)
           n == OperandBytes(s.instr.exec)
<1>1. a \in Nat /\ b \in Nat /\ n \in Nat
  BY DEF operand_size, OperandBytes
<1>2. a + b = n
  <2>1. CASE s.bank = "main"
    BY <2>1 DEF Chosen, MainRow
  <2>2. CASE s.bank = "cb"
    <3>1. CbRow(s.instr)
      BY <2>2 DEF Chosen
    <3>2. n = 0
      BY <3>1 DEF CbRow, OperandBytes, OneByte, TwoBytes
    <3> QED BY <3>1, <3>2 DEF CbRow
  <2> QED BY <2>1, <2>2
<1>3. instruction_size(s.bank, s.instr) = (IF s.bank = "cb" THEN 2 ELSE 1) + a + b
  BY DEF instruction_size
<1> HIDE DEF a, b, n
<1>4. (IF s.bank = "cb" THEN 2 ELSE 1) + a + b = (IF s.bank = "cb" THEN 2 ELSE 1) + n
  BY <1>1, <1>2
<1> QED BY <1>3, <1>4 DEF n

\* A cycle keeps the count.
LEMMA PacedAhead ==
  ASSUME NEW s, Typed(s), Chosen(s), s.instr.exec \notin jumps, NEW a, a.pc \in Words,
         s.pc = Word(a.pc + Ahead(s)),
         NEW t, Stepped(s, t), Paced(s, t, OperandBytes(s.instr.exec)), NEW u, u = AfterExec(t)
  PROVE  /\ t.state # "DONE" => u.pc = Word(a.pc + Ahead(u))
         /\ t.state = "DONE" => Arch(u).pc = Word(a.pc + instruction_size(s.bank, s.instr))
<1> DEFINE n == OperandBytes(s.instr.exec)
           k == IF s.bank = "cb" THEN 2 ELSE 1
           c == s.cycle
           pc == a.pc
<1>1. n \in 0 .. 2 /\ k \in 1 .. 2
  BY DEF OperandBytes
<1>2. c \in 0 .. 5 /\ pc \in Int /\ Typed(u) /\ u.pc = t.pc /\ s.bank \in {"main", "cb"}
  BY AfterStep, TypedFields, WordRange
<1>3. Ahead(s) = k + IF c < n THEN c ELSE n
  BY DEF Ahead
<1>4. /\ t.pc = Word(s.pc + Num(c < n) + Num(t.state = "DONE"))
      /\ t.state = "DONE" => n <= c
  BY DEF Paced
<1>5. CASE t.state # "DONE"
  <2>1. u.instr = s.instr /\ u.bank = s.bank /\ u.cycle = c + 1
    BY <1>5, AfterStep
  <2>2. Ahead(u) = k + IF c + 1 < n THEN c + 1 ELSE n
    BY <2>1 DEF Ahead
  <2> HIDE DEF n, k, c, pc
  <2>3. t.pc = Word(s.pc + Num(c < n))
    <3>1. s.pc \in Int /\ Num(c < n) \in Int /\ Num(t.state = "DONE") = 0
      BY <1>5, TypedFields, WordRange DEF Num
    <3> QED BY <1>4, <3>1
  <2>4. s.pc = Word(pc + Ahead(s))
    BY DEF pc
  <2>5. Ahead(s) \in Int /\ Num(c < n) \in Int /\ Ahead(s) + Num(c < n) = Ahead(u)
    BY <1>1, <1>2, <1>3, <2>2 DEF Num
  <2>6. Word(Word(pc + Ahead(s)) + Num(c < n)) = Word((pc + Ahead(s)) + Num(c < n))
    <3>1. pc + Ahead(s) \in Int
      BY <1>2, <2>5
    <3>2. Num(c < n) = 0 \/ Num(c < n) = 1
      BY DEF Num
    <3> QED BY <3>1, <3>2, WordAdds
  <2>7. (pc + Ahead(s)) + Num(c < n) = pc + Ahead(u)
    BY <1>2, <2>5
  <2>8. u.pc = Word(pc + Ahead(u))
    BY <1>2, <2>3, <2>4, <2>6, <2>7
  <2> QED BY <1>5, <2>8 DEF pc
<1>6. CASE t.state = "DONE"
  <2>1. Ahead(s) = k + n /\ n <= c
    BY <1>1, <1>2, <1>3, <1>4, <1>6
  <2>2. instruction_size(s.bank, s.instr) = k + n
    BY <1>2, SizeOfChosen
  <2> HIDE DEF n, k, c, pc
  <2>3. s.pc \in Words /\ s.pc \in Int
    BY TypedFields, WordRange
  <2>4. Num(c < n) = 0 /\ Num(t.state = "DONE") = 1
    BY <1>1, <1>2, <1>6, <2>1 DEF Num
  <2>5. u.pc = Word(s.pc + 1)
    BY <1>2, <1>4, <2>3, <2>4
  <2>6. Arch(u).pc = s.pc
    BY <2>3, <2>5, WordMoves DEF Arch
  <2>7. s.pc = Word(pc + (k + n))
    BY <2>1 DEF pc
  <2> QED BY <1>6, <2>2, <2>6, <2>7 DEF pc
<1> QED BY <1>5, <1>6

\* The size that SizeMatches speaks of.
SizeStep ==
  LET at == AtPc(arch)
      size == instruction_size(at[1], at[2])
  IN arch' # arch => arch'.pc = Word(arch.pc + size) \/ at[2].exec \in jumps

LEMMA SizeInit == Init => SizeInv
<1> SUFFICES ASSUME Init PROVE SizeInv
  OBVIOUS
<1>1. PICK start \in Starts : g = start.g /\ arch = Arch(start.g)
  BY DEF Init
<1>2. Typed(g) /\ Between(g)
  BY <1>1, StartAssumption
<1>3. arch.pc \in Words
  BY <1>1, <1>2, ArchPc
<1> QED BY <1>1, <1>2, <1>3 DEF SizeInv, Between

LEMMA SizeNext ==
  ASSUME TypeOK, InstrInv, SizeInv, mcycle
  PROVE  SizeInv' /\ SizeStep
<1>1. /\ Current(g).exec \notin elsewhere /\ g' = cpu_mcycle(g)
      /\ arch' = IF g'.state = "DONE" THEN Arch(g') ELSE arch
  BY DEF mcycle
<1>2. TypeOK' /\ InstrInv'
  BY NextInv DEF Next
<1>3. CASE Current(g).exec = "cb_bank_switch"
  <2> DEFINE ir == fetch(g.m, g.pc)
             pc == Word(g.pc + 1)
  <2>1. Typed(g) /\ g.pc \in Int
    BY TypedFields, WordRange DEF TypeOK
  <2>2. /\ g.state = "DONE" /\ g.bank = "main" /\ g.instr = NULL
        /\ g.ir = fetch(g.m, Word(g.pc - 1)) /\ arch = Arch(g)
    BY <1>3, PrefixCalled DEF Between, SizeInv
  <2>3. g' = [g EXCEPT !.instr = NULL, !.state = "EXECUTING", !.cycle = 1, !.bank = "cb",
                       !.ir = ir, !.pc = pc]
    BY <1>1, <1>3, PrefixCalled
  <2> HIDE DEF ir, pc
  <2>4. g'.instr = NULL /\ g'.state = "EXECUTING" /\ g'.ir = ir /\ g'.pc = pc
    BY <2>1, <2>3 DEF Typed
  <2>5. arch' = arch
    BY <1>1, <2>4
  <2>6. /\ arch.pc \in Words /\ arch.m = g.m /\ arch.pc = Word(g.pc - 1)
        /\ g.pc = Word(arch.pc + 1)
    BY <2>1, <2>2, ArchPc
  <2>7. g.ir = 203
    <3>1. Current(g) = find_instruction("main", g.ir) /\ g.ir \in Bytes
      BY <2>1, <2>2, TypedFields DEF Current
    <3> QED BY <1>3, <3>1, Prefix
  <2>8. pc = Word(arch.pc + 2)
    <3>1. arch.pc \in Int
      BY <2>6, WordRange
    <3>2. arch.pc + 1 \in Int /\ (arch.pc + 1) + 1 = arch.pc + 2
      BY <3>1
    <3>3. Word(Word(arch.pc + 1) + 1) = Word((arch.pc + 1) + 1)
      BY <3>2, WordAdds
    <3> QED BY <2>6, <3>2, <3>3 DEF pc
  <2>9. SizeInv'
    BY <2>2, <2>4, <2>5, <2>6, <2>7, <2>8 DEF SizeInv, ir
  <2> QED BY <2>5, <2>9 DEF SizeStep
<1>4. CASE Current(g).exec # "cb_bank_switch"
  <2> DEFINE s == Called(g)
             t == exec(s)
  <2>1. /\ Typed(s) /\ Chosen(s) /\ s.instr = Current(g) /\ Stepped(s, t) /\ g' = AfterExec(t)
        /\ s.instr.exec \notin jumps => Paced(s, t, OperandBytes(s.instr.exec))
    BY <1>1, <1>4, ExecCalled
  <2>2. Begun(s, arch)
    BY <1>1, <1>4, CalledBegun
  <2> HIDE DEF s, t
  <2>3. arch.pc \in Words
    BY DEF SizeInv
  <2>4. g'.state = t.state /\ Typed(g')
    BY <2>1, AfterStep
  <2>5. s.instr.exec \notin jumps =>
          /\ t.state # "DONE" => g'.pc = Word(arch.pc + Ahead(g'))
          /\ t.state = "DONE" => Arch(g').pc = Word(arch.pc + instruction_size(s.bank, s.instr))
    BY <2>1, <2>2, <2>3, PacedAhead DEF Begun
  <2>6. CASE t.state = "DONE"
    <3>1. arch' = Arch(g') /\ Between(g')
      BY <1>1, <2>1, <2>4, <2>6, AfterStep
    <3>2. arch'.pc \in Words
      BY <2>4, <3>1, ArchPc
    <3>3. SizeInv'
      BY <2>4, <2>6, <3>1, <3>2 DEF SizeInv, Between
    <3>4. AtPc(arch)[1] = s.bank /\ AtPc(arch)[2] = s.instr
      BY <2>2 DEF Begun
    <3>5. SizeStep
      BY <2>5, <2>6, <3>1, <3>4 DEF SizeStep
    <3> QED BY <3>3, <3>5
  <2>7. CASE t.state # "DONE"
    <3>1. arch' = arch
      BY <1>1, <2>4, <2>7
    <3>2. g'.instr = s.instr /\ g'.bank = s.bank
      BY <2>1, <2>7, AfterStep
    <3>3. Begun(g', arch)
      BY <2>2, <2>5, <2>7, <3>2 DEF Begun
    <3>4. g'.instr # NULL
      <4>1. s.bank \in {"main", "cb"}
        BY <2>1, TypedFields
      <4> QED BY <2>1, <3>2, <4>1, NoRow DEF Chosen
    <3>5. SizeInv'
      BY <2>3, <2>4, <2>7, <3>1, <3>3, <3>4 DEF SizeInv
    <3> QED BY <3>1, <3>5 DEF SizeStep
  <2> QED BY <2>6, <2>7
<1> QED BY <1>3, <1>4

\* An instruction that does not jump takes as many bytes as instruction_size
\* says, whatever the program does to its own memory meanwhile: what the
\* disassembler and the debugger go by (cpu.c:2242-2254, debug.c:857).
THEOREM SizesMatch == Spec => SizeMatches
<1> DEFINE Inv == TypeOK /\ InstrInv /\ SizeInv
<1>1. Init => Inv
  BY InitInv, SizeInit
<1>2. Inv /\ [Next]_vars => Inv' /\ (SizeStep \/ UNCHANGED arch)
  <2> SUFFICES ASSUME Inv, [Next]_vars PROVE Inv' /\ (SizeStep \/ UNCHANGED arch)
    OBVIOUS
  <2>1. TypeOK' /\ InstrInv'
    BY NextInv
  <2>2. CASE mcycle
    BY <2>1, <2>2, SizeNext
  <2>3. CASE UNCHANGED vars
    BY <2>1, <2>3 DEF vars, SizeInv
  <2> QED BY <2>2, <2>3 DEF Next
<1>3. Inv /\ [Next]_vars => [SizeStep]_arch
  BY <1>2
<1>4. Spec => []Inv
  BY <1>1, <1>2, PTL DEF Spec
<1>5. Spec => [][SizeStep]_arch
  BY <1>3, <1>4, PTL DEF Spec
<1>6. SizeMatches <=> [][SizeStep]_arch
  BY PTL DEF SizeMatches, SizeStep
<1> QED BY <1>5, <1>6, PTL

-----------------------------------------------------------------------------
(* What Isa takes from Memory, and its memory map.                         *)

\* An instance has copies of the operators of the modules it extends.
LEMMA IsaCopies ==
  /\ \A x : InstructionSet!Word(x) = Word(x) /\ InstructionSet!Byte(x) = Byte(x)
  /\ \A b : InstructionSet!Num(b) = Num(b)
  /\ \A x, y : InstructionSet!and(x, y) = and(x, y) /\ InstructionSet!or(x, y) = or(x, y)
  /\ \A m, addr : InstructionSet!At(m, addr) = At(m, addr)
  /\ \A m, addr, x : InstructionSet!Put(m, addr, x) = Put(m, addr, x)
<1>1. \A x : InstructionSet!Word(x) = Word(x) /\ InstructionSet!Byte(x) = Byte(x)
  BY DEF InstructionSet!Word, Word, InstructionSet!Byte, Byte
<1>2. \A b : InstructionSet!Num(b) = Num(b)
  BY DEF InstructionSet!Num, Num
<1>3. \A f : InstructionSet!Octet(f) = Octet(f)
  BY <1>2 DEF InstructionSet!Octet, Octet
<1>4. \A x, b : InstructionSet!Bit(x, b) = Bit(x, b)
  BY DEF InstructionSet!Bit, Bit
<1>5. \A x, y : InstructionSet!and(x, y) = and(x, y) /\ InstructionSet!or(x, y) = or(x, y)
  BY <1>3, <1>4 DEF InstructionSet!and, and, InstructionSet!or, or, InstructionSet!Weights, Weights
<1>6. \A m, addr : InstructionSet!At(m, addr) = At(m, addr)
  BY <1>1 DEF InstructionSet!At, At, InstructionSet!Blank, Blank
<1>7. \A m, addr, x : InstructionSet!Put(m, addr, x) = Put(m, addr, x)
  BY DEF InstructionSet!Put, Put
<1> QED BY <1>1, <1>2, <1>5, <1>6, <1>7

LEMMA IsaStores ==
  /\ \A m, addr, x : InstructionSet!do_rom_store(m, addr, x) = do_rom_store(m, addr, x)
  /\ \A m, addr, x : InstructionSet!do_io_store(m, addr, x) = do_io_store(m, addr, x)
<1>1. \A x, b : InstructionSet!Bit(x, b) = Bit(x, b)
  BY DEF InstructionSet!Bit, Bit
<1>2. \A m, addr, x : InstructionSet!do_rom_store(m, addr, x) = do_rom_store(m, addr, x)
  BY DEF InstructionSet!do_rom_store, do_rom_store
<1>3. \A m : InstructionSet!ppu_enable(m) = ppu_enable(m)
  <2> TAKE m
  <2>1. /\ InstructionSet!MEM_STAT = MEM_STAT /\ InstructionSet!OAM_SCAN = OAM_SCAN
        /\ InstructionSet!MEM_LY = MEM_LY /\ InstructionSet!MEM_LYC = MEM_LYC
        /\ InstructionSet!STAT_MODE_2_IRQ = STAT_MODE_2_IRQ
        /\ InstructionSet!STAT_LYC_IRQ = STAT_LYC_IRQ
        /\ InstructionSet!MEM_IF = MEM_IF /\ InstructionSet!IF_LCD = IF_LCD
        /\ InstructionSet!STAT_LC_EQ_LYC = STAT_LC_EQ_LYC
    BY DEF InstructionSet!MEM_STAT, MEM_STAT, InstructionSet!OAM_SCAN, OAM_SCAN, InstructionSet!MEM_LY,
           MEM_LY, InstructionSet!MEM_LYC, MEM_LYC, InstructionSet!STAT_MODE_2_IRQ, STAT_MODE_2_IRQ,
           InstructionSet!STAT_LYC_IRQ, STAT_LYC_IRQ, InstructionSet!MEM_IF, MEM_IF,
           InstructionSet!IF_LCD, IF_LCD, InstructionSet!STAT_LC_EQ_LYC, STAT_LC_EQ_LYC
  <2> DEFINE stat == and(At(m, MEM_STAT), 248) + OAM_SCAN
             match == At(m, MEM_LY) # At(m, MEM_LYC) /\ At(m, MEM_LYC) = 0
             irq == Bit(stat, STAT_MODE_2_IRQ) \/ (match /\ Bit(stat, STAT_LYC_IRQ))
             if == or(At(m, MEM_IF), IF irq THEN IF_LCD ELSE 0)
             mode == stat + (IF match THEN STAT_LC_EQ_LYC ELSE 0)
  <2>2. ppu_enable(m) = Put(Put(Put(m, MEM_IF, if), MEM_STAT, mode), MEM_LY, 0)
    BY DEF ppu_enable
  <2>3. InstructionSet!ppu_enable(m) = Put(Put(Put(m, MEM_IF, if), MEM_STAT, mode), MEM_LY, 0)
    BY <1>1, <2>1, IsaCopies DEF InstructionSet!ppu_enable
  <2> HIDE DEF if, mode
  <2> QED BY <2>2, <2>3
<1>4. \A m, x : InstructionSet!pressed(m, x) = pressed(m, x)
  BY <1>1, IsaCopies
     DEF InstructionSet!pressed, pressed, InstructionSet!SELECT_BUTTONS, SELECT_BUTTONS,
         InstructionSet!SELECT_DPAD, SELECT_DPAD
<1>5. \A m : InstructionSet!ppu_enabled(m) = ppu_enabled(m)
  BY <1>1, IsaCopies
     DEF InstructionSet!ppu_enabled, ppu_enabled, InstructionSet!MEM_LCDC, MEM_LCDC,
         InstructionSet!LCDC_ENABLED, LCDC_ENABLED
<1>6. \A m, addr, x : InstructionSet!do_io_store(m, addr, x) = do_io_store(m, addr, x)
  BY <1>1, <1>3, <1>4, <1>5, IsaCopies
     DEF InstructionSet!do_io_store, do_io_store, InstructionSet!MEM_P1_JOYPAD, MEM_P1_JOYPAD,
         InstructionSet!MEM_DIV, MEM_DIV, InstructionSet!MEM_LCDC, MEM_LCDC, InstructionSet!LCDC_ENABLED,
         LCDC_ENABLED, InstructionSet!MEM_STAT, MEM_STAT, InstructionSet!MEM_LY, MEM_LY,
         InstructionSet!MEM_DMA, MEM_DMA
<1> QED BY <1>2, <1>6

\* The region of an address, by its bounds.
LEMMA RegionBounds ==
  ASSUME NEW addr \in Words
  PROVE  /\ find_mem_region(addr) = "ROM" <=> addr < 32768
         /\ find_mem_region(addr) = "VRAM" <=> 32768 <= addr /\ addr < 40960
         /\ find_mem_region(addr) = "ECHO_RAM" <=> 57344 <= addr /\ addr < 65024
         /\ find_mem_region(addr) = "OAM" <=> 65024 <= addr /\ addr < 65184
         /\ find_mem_region(addr) = "Prohibited" <=> 65184 <= addr /\ addr < 65280
         /\ find_mem_region(addr) = "IO" <=> 65280 <= addr /\ addr < 65408
<1>1. addr \in Int /\ 0 <= addr /\ addr <= 65535
  BY WordRange
<1>2. PICK i \in DOMAIN mem_regions : /\ mem_regions[i].start <= addr /\ addr <= mem_regions[i].end
                                       /\ find_mem_region(addr) = mem_regions[i].name
  BY RegionIsFound
<1>3. i \in 1 .. 10
  BY <1>2, RegionsTile
<1>4. CASE i = 1
  <2>1. find_mem_region(addr) = "ROM" /\ 0 <= addr /\ addr <= 32767
    BY <1>2, <1>4, RegionsTile
  <2> QED BY <1>1, <2>1
<1>5. CASE i = 2
  <2>1. find_mem_region(addr) = "VRAM" /\ 32768 <= addr /\ addr <= 40959
    BY <1>2, <1>5, RegionsTile
  <2> QED BY <1>1, <2>1
<1>6. CASE i \in {3, 4}
  <2>1. find_mem_region(addr) \in {"EXT_RAM", "WORK_RAM"} /\ 40960 <= addr /\ addr <= 57343
    BY <1>1, <1>2, <1>6, RegionsTile
  <2> QED BY <1>1, <2>1
<1>7. CASE i = 5
  <2>1. find_mem_region(addr) = "ECHO_RAM" /\ 57344 <= addr /\ addr <= 65023
    BY <1>2, <1>7, RegionsTile
  <2> QED BY <1>1, <2>1
<1>8. CASE i = 6
  <2>1. find_mem_region(addr) = "OAM" /\ 65024 <= addr /\ addr <= 65183
    BY <1>2, <1>8, RegionsTile
  <2> QED BY <1>1, <2>1
<1>9. CASE i = 7
  <2>1. find_mem_region(addr) = "Prohibited" /\ 65184 <= addr /\ addr <= 65279
    BY <1>2, <1>9, RegionsTile
  <2> QED BY <1>1, <2>1
<1>10. CASE i = 8
  <2>1. find_mem_region(addr) = "IO" /\ 65280 <= addr /\ addr <= 65407
    BY <1>2, <1>10, RegionsTile
  <2> QED BY <1>1, <2>1
<1>11. CASE i \in {9, 10}
  <2>1. find_mem_region(addr) \in {"HIGH_RAM", "IE"} /\ 65408 <= addr
    BY <1>1, <1>2, <1>11, RegionsTile
  <2> QED BY <1>1, <2>1
<1> QED BY <1>3, <1>4, <1>5, <1>6, <1>7, <1>8, <1>9, <1>10, <1>11

\* The addresses that the PPU or a DMA takes from the CPU.
LEMMA ClosedIsBlocked ==
  ASSUME NEW m, IsMemory(m), NEW addr \in Words
  PROVE  InstructionSet!Closed(m, addr) <=> dma_blocks(m, addr) \/ region_blocks(m, addr)
<1>1. addr \in Int /\ 0 <= addr /\ addr <= 65535
  BY WordRange
<1>2. /\ InstructionSet!MEM_LCDC = MEM_LCDC /\ InstructionSet!MEM_STAT = MEM_STAT
      /\ MEM_LCDC \in Words /\ MEM_STAT \in Words
  BY RegistersAreWords
     DEF Registers, InstructionSet!MEM_LCDC, MEM_LCDC, InstructionSet!MEM_STAT, MEM_STAT
<1> DEFINE lcdc == At(m, MEM_LCDC)
           mode == At(m, MEM_STAT) % 4
<1>3. lcdc \in Int /\ 0 <= lcdc /\ lcdc <= 255 /\ mode \in 0 .. 3
  BY <1>2, AtIsByte, ByteRange
<1>4. ppu_enabled(m) <=> lcdc > 127
  <2>1. ppu_enabled(m) <=> (lcdc \div 128) % 2 = 1
    BY DEF ppu_enabled, LCDC_ENABLED, Bit
  <2> HIDE DEF lcdc
  <2> QED BY <1>3, <2>1
<1>5. InstructionSet!Closed(m, addr) <=>
        LET on == IF lcdc > 127 THEN mode ELSE 0 IN
        \/ m.dma /\ (addr < 65408 \/ addr = 65535)
        \/ 32768 <= addr /\ addr < 40960 /\ on = 3
        \/ 65024 <= addr /\ addr < 65184 /\ on > 1
        \/ 65184 <= addr /\ addr < 65280
  BY <1>2, IsaCopies DEF InstructionSet!Closed
<1>6. dma_blocks(m, addr) <=> m.dma /\ (addr < 65408 \/ addr = 65535)
  BY <1>1 DEF dma_blocks, MEM_HIGH_RAM_START, MEM_HIGH_RAM_END
<1>7. region_blocks(m, addr) <=>
        \/ 65184 <= addr /\ addr < 65280
        \/ 32768 <= addr /\ addr < 40960 /\ lcdc > 127 /\ mode = 3
        \/ 65024 <= addr /\ addr < 65184 /\ lcdc > 127 /\ mode \in {2, 3}
  BY <1>4, RegionBounds DEF region_blocks, ppu_mode, DRAWING, OAM_SCAN
<1> HIDE DEF lcdc, mode
<1> QED BY <1>1, <1>3, <1>5, <1>6, <1>7

LEMMA HomeIsEcho ==
  ASSUME NEW addr \in Words
  PROVE  InstructionSet!Home(addr)
           = IF find_mem_region(addr) = "ECHO_RAM" THEN echo(addr) ELSE addr
<1>1. addr \in Int /\ echo(addr) = addr - 8192
  BY WordRange DEF echo, MEM_ECHO_RAM_START
<1> QED BY <1>1, RegionBounds DEF InstructionSet!Home

LEMMA RdIsFetch ==
  ASSUME NEW m, IsMemory(m), NEW addr \in Words
  PROVE  InstructionSet!Rd(m, addr) = fetch(m, addr)
BY ClosedIsBlocked, HomeIsEcho, IsaCopies DEF InstructionSet!Rd, fetch

LEMMA WrIsStore ==
  ASSUME NEW m, IsMemory(m), NEW addr \in Words, NEW x
  PROVE  InstructionSet!Wr(m, addr, x) = store(m, addr, x)
<1>1. addr \in Int
  BY WordRange
<1> DEFINE shut == dma_blocks(m, addr) \/ region_blocks(m, addr)
<1>2. InstructionSet!Wr(m, addr, x)
        = CASE shut -> m
            [] ~shut /\ addr < 32768 -> do_rom_store(m, addr, x)
            [] 65280 <= addr /\ addr < 65408 /\ ~shut -> do_io_store(m, addr, x)
            [] OTHER -> Put(m, InstructionSet!Home(addr), x)
  BY ClosedIsBlocked, IsaCopies, IsaStores DEF InstructionSet!Wr
<1>3. store(m, addr, x)
        = IF shut THEN m
          ELSE CASE find_mem_region(addr) = "ROM" -> do_rom_store(m, addr, x)
                 [] find_mem_region(addr) = "IO" -> do_io_store(m, addr, x)
                 [] find_mem_region(addr) = "ECHO_RAM" -> Put(m, echo(addr), x)
                 [] OTHER -> Put(m, addr, x)
  BY DEF store
<1> HIDE DEF shut
<1>4. CASE shut
  <2>1. InstructionSet!Wr(m, addr, x) = m
    BY <1>2, <1>4
  <2> QED BY <1>3, <1>4, <2>1
<1>5. CASE ~shut /\ addr < 32768
  BY <1>1, <1>2, <1>3, <1>5, RegionBounds
<1>6. CASE ~shut /\ 65280 <= addr /\ addr < 65408
  BY <1>1, <1>2, <1>3, <1>6, RegionBounds
<1>7. CASE ~shut /\ ~(addr < 32768) /\ ~(65280 <= addr /\ addr < 65408)
  <2>1. InstructionSet!Wr(m, addr, x) = Put(m, InstructionSet!Home(addr), x)
    BY <1>1, <1>2, <1>7
  <2>2. store(m, addr, x) = Put(m, IF find_mem_region(addr) = "ECHO_RAM" THEN echo(addr) ELSE addr, x)
    BY <1>1, <1>3, <1>7, RegionBounds
  <2> QED BY <2>1, <2>2, HomeIsEcho
<1> QED BY <1>4, <1>5, <1>6, <1>7

-----------------------------------------------------------------------------
(* The arithmetic of Isa.                                                  *)

\* A result of Cpu as one of Isa.
Both(res) == <<res.v, res.f>>

LEMMA ResultIsOut ==
  ASSUME NEW v, NEW n, NEW h, NEW c
  PROVE  Both(Result(v, n, h, c)) = InstructionSet!Out(v, n, h, c)
BY DEF Both, Result, Byte, InstructionSet!Out

LEMMA AddIsPlus ==
  ASSUME NEW a \in Bytes, NEW x \in Bytes, NEW c \in {0, 1}
  PROVE  Both(add_a(a, x, c)) = InstructionSet!Plus(a, x, c)
<1>1. a \in Int /\ 0 <= a /\ a <= 255 /\ x \in Int /\ 0 <= x /\ x <= 255
  BY ByteRange
<1>2. add3_half_carries(a, x, c) <=> (a % 16) + (x % 16) + c > 15
  BY <1>1 DEF add3_half_carries
<1>3. Both(add_a(a, x, c))
        = InstructionSet!Out(a + x + c, FALSE, add3_half_carries(a, x, c), add3_carries(a, x, c))
  BY ResultIsOut DEF add_a
<1>4. add3_half_carries(a, x, c) = ((a % 16) + (x % 16) + c > 15)
  BY <1>2 DEF add3_half_carries
<1>5. add3_carries(a, x, c) = (a + x + c > 255)
  BY DEF add3_carries
<1> QED BY <1>3, <1>4, <1>5, Zenon DEF InstructionSet!Plus

LEMMA SubIsMinus ==
  ASSUME NEW a \in Bytes, NEW x \in Bytes, NEW c \in {0, 1}
  PROVE  Both(sub_a(a, x, c)) = InstructionSet!Minus(a, x, c)
<1>1. a \in Int /\ 0 <= a /\ a <= 255 /\ x \in Int /\ 0 <= x /\ x <= 255
  BY ByteRange
<1>2. Byte(a - x) % 16 = (a - x) % 16
  BY <1>1 DEF Byte
<1>3. sub3_half_borrows(a, x, c) <=> (a % 16) - (x % 16) - c < 0
  <2>1. sub3_half_borrows(a, x, c) <=> x % 16 > a % 16 \/ c % 16 > (a - x) % 16
    BY <1>2 DEF sub3_half_borrows, sub_half_borrows
  <2> QED BY <1>1, <2>1
<1>4. sub3_borrows(a, x, c) <=> a - x - c < 0
  BY <1>1 DEF sub3_borrows
<1>5. sub3_half_borrows(a, x, c) \in BOOLEAN /\ sub3_borrows(a, x, c) \in BOOLEAN
  BY DEF sub3_half_borrows, sub_half_borrows, sub3_borrows
<1>6. Both(sub_a(a, x, c))
        = InstructionSet!Out(a - x - c, TRUE, sub3_half_borrows(a, x, c), sub3_borrows(a, x, c))
  BY ResultIsOut DEF sub_a
<1>7. /\ sub3_half_borrows(a, x, c) = ((a % 16) - (x % 16) - c < 0)
      /\ sub3_borrows(a, x, c) = (a - x - c < 0)
  BY <1>3, <1>4, <1>5
<1> QED BY <1>6, <1>7, Zenon DEF InstructionSet!Minus

\* A byte in terms of its bits, and the three operators bit by bit.
LEMMA Bits ==
  ASSUME NEW x \in Bytes
  PROVE  /\ x = Num(Bit(x, 1)) + 2 * Num(Bit(x, 2)) + 4 * Num(Bit(x, 4)) + 8 * Num(Bit(x, 8))
              + 16 * Num(Bit(x, 16)) + 32 * Num(Bit(x, 32)) + 64 * Num(Bit(x, 64))
              + 128 * Num(Bit(x, 128))
BY AllBits, AndBits DEF Bit

LEMMA OrBits ==
  ASSUME NEW x, NEW y
  PROVE  or(x, y) = Num(Bit(x, 1) \/ Bit(y, 1)) + 2 * Num(Bit(x, 2) \/ Bit(y, 2))
              + 4 * Num(Bit(x, 4) \/ Bit(y, 4)) + 8 * Num(Bit(x, 8) \/ Bit(y, 8))
              + 16 * Num(Bit(x, 16) \/ Bit(y, 16)) + 32 * Num(Bit(x, 32) \/ Bit(y, 32))
              + 64 * Num(Bit(x, 64) \/ Bit(y, 64)) + 128 * Num(Bit(x, 128) \/ Bit(y, 128))
BY Zenon DEF or, Octet, Weights

LEMMA XorBits ==
  ASSUME NEW x, NEW y
  PROVE  xor(x, y) = Num(Bit(x, 1) # Bit(y, 1)) + 2 * Num(Bit(x, 2) # Bit(y, 2))
              + 4 * Num(Bit(x, 4) # Bit(y, 4)) + 8 * Num(Bit(x, 8) # Bit(y, 8))
              + 16 * Num(Bit(x, 16) # Bit(y, 16)) + 32 * Num(Bit(x, 32) # Bit(y, 32))
              + 64 * Num(Bit(x, 64) # Bit(y, 64)) + 128 * Num(Bit(x, 128) # Bit(y, 128))
BY Zenon DEF xor, Octet, Weights

\* OR is what is in one of the two, and XOR what is in one only.
LEMMA SumOfBits ==
  ASSUME NEW x \in Bytes, NEW y \in Bytes
  PROVE  or(x, y) = x + y - and(x, y) /\ xor(x, y) = or(x, y) - and(x, y)
<1> DEFINE a(b) == Num(Bit(x, b) /\ Bit(y, b))
           o(b) == Num(Bit(x, b) \/ Bit(y, b))
           e(b) == Num(Bit(x, b) # Bit(y, b))
           p(b) == Num(Bit(x, b))
           q(b) == Num(Bit(y, b))
<1>1. \A b : /\ a(b) \in Int /\ o(b) \in Int /\ e(b) \in Int /\ p(b) \in Int /\ q(b) \in Int
             /\ o(b) = p(b) + q(b) - a(b) /\ e(b) = o(b) - a(b)
  BY DEF Num, Bit
<1>2. /\ x = p(1) + 2 * p(2) + 4 * p(4) + 8 * p(8) + 16 * p(16) + 32 * p(32) + 64 * p(64) + 128 * p(128)
      /\ y = q(1) + 2 * q(2) + 4 * q(4) + 8 * q(8) + 16 * q(16) + 32 * q(32) + 64 * q(64) + 128 * q(128)
  BY Bits
<1>3. and(x, y) = a(1) + 2 * a(2) + 4 * a(4) + 8 * a(8) + 16 * a(16) + 32 * a(32) + 64 * a(64) + 128 * a(128)
  BY AndBits
<1>4. or(x, y) = o(1) + 2 * o(2) + 4 * o(4) + 8 * o(8) + 16 * o(16) + 32 * o(32) + 64 * o(64) + 128 * o(128)
  BY OrBits
<1>5. xor(x, y) = e(1) + 2 * e(2) + 4 * e(4) + 8 * e(8) + 16 * e(16) + 32 * e(32) + 64 * e(64) + 128 * e(128)
  BY XorBits
<1> HIDE DEF a, o, e, p, q
<1> QED BY <1>1, <1>2, <1>3, <1>4, <1>5

LEMMA AluIsArith ==
  ASSUME NEW i \in 0 .. 7, NEW a \in Bytes, NEW x \in Bytes, NEW f
  PROVE  Both(alu(alu_ops[i + 1], a, x, f)) = InstructionSet!Arith(i, a, x, f)
<1>1. Num(f.C) \in {0, 1} /\ InstructionSet!Num(f.C) = Num(f.C) /\ 0 \in {0, 1}
  BY NumIsBit, IsaCopies
<1>2. InstructionSet!and(a, x) = and(a, x) /\ InstructionSet!or(a, x) = or(a, x)
  BY IsaCopies
<1>3. CASE i = 0
  <2>1. alu_ops[i + 1] = "add_a"
    BY <1>3 DEF alu_ops
  <2> QED BY <1>1, <1>3, <2>1, AddIsPlus DEF alu, InstructionSet!Arith
<1>4. CASE i = 1
  <2>1. alu_ops[i + 1] = "adc_a"
    BY <1>4 DEF alu_ops
  <2> QED BY <1>1, <1>4, <2>1, AddIsPlus DEF alu, InstructionSet!Arith
<1>5. CASE i = 2
  <2>1. alu_ops[i + 1] = "sub_a"
    BY <1>5 DEF alu_ops
  <2> QED BY <1>1, <1>5, <2>1, SubIsMinus DEF alu, InstructionSet!Arith
<1>6. CASE i = 3
  <2>1. alu_ops[i + 1] = "sbc_a"
    BY <1>6 DEF alu_ops
  <2> QED BY <1>1, <1>6, <2>1, SubIsMinus DEF alu, InstructionSet!Arith
<1>7. CASE i = 4
  <2>1. alu_ops[i + 1] = "and_a"
    BY <1>7 DEF alu_ops
  <2>2. alu("and_a", a, x, f) = Result(and(a, x), FALSE, TRUE, FALSE)
    BY DEF alu
  <2>3. InstructionSet!Arith(i, a, x, f) = InstructionSet!Out(and(a, x), FALSE, TRUE, FALSE)
    BY <1>2, <1>7 DEF InstructionSet!Arith
  <2> QED BY <2>1, <2>2, <2>3, ResultIsOut, Zenon
<1>8. CASE i = 5
  <2>1. alu_ops[i + 1] = "xor_a"
    BY <1>8 DEF alu_ops
  <2>2. alu("xor_a", a, x, f) = Result(xor(a, x), FALSE, FALSE, FALSE)
    BY DEF alu
  <2>3. InstructionSet!Arith(i, a, x, f) = InstructionSet!Out(or(a, x) - and(a, x), FALSE, FALSE, FALSE)
    BY <1>2, <1>8 DEF InstructionSet!Arith
  <2>4. xor(a, x) = or(a, x) - and(a, x)
    BY SumOfBits
  <2> QED BY <2>1, <2>2, <2>3, <2>4, ResultIsOut, Zenon
<1>9. CASE i = 6
  <2>1. alu_ops[i + 1] = "or_a"
    BY <1>9 DEF alu_ops
  <2>2. alu("or_a", a, x, f) = Result(or(a, x), FALSE, FALSE, FALSE)
    BY DEF alu
  <2>3. InstructionSet!Arith(i, a, x, f) = InstructionSet!Out(a + x - and(a, x), FALSE, FALSE, FALSE)
    BY <1>2, <1>9 DEF InstructionSet!Arith
  <2>4. or(a, x) = a + x - and(a, x)
    BY SumOfBits
  <2> QED BY <2>1, <2>2, <2>3, <2>4, ResultIsOut, Zenon
<1>10. CASE i = 7
  <2>1. alu_ops[i + 1] = "cp_a"
    BY <1>10 DEF alu_ops
  <2>2. alu("cp_a", a, x, f) = [sub_a(a, x, 0) EXCEPT !.v = a]
    BY DEF alu
  <2>3. Both([sub_a(a, x, 0) EXCEPT !.v = a]) = <<a, sub_a(a, x, 0).f>>
    BY DEF Both, sub_a, Result
  <2>4. sub_a(a, x, 0).f = InstructionSet!Minus(a, x, 0)[2]
    <3>1. Both(sub_a(a, x, 0))[2] = sub_a(a, x, 0).f
      BY DEF Both
    <3> QED BY <1>1, <3>1, SubIsMinus
  <2>5. InstructionSet!Arith(i, a, x, f) = <<a, InstructionSet!Minus(a, x, 0)[2]>>
    BY <1>10 DEF InstructionSet!Arith
  <2> QED BY <2>1, <2>2, <2>3, <2>4, <2>5
<1> QED BY <1>3, <1>4, <1>5, <1>6, <1>7, <1>8, <1>9, <1>10

\* Only the low byte of a result counts.
LEMMA SameOut ==
  ASSUME NEW v, NEW w, v % 256 = w % 256, NEW n, NEW h, NEW c
  PROVE  InstructionSet!Out(v, n, h, c) = InstructionSet!Out(w, n, h, c)
BY Zenon DEF InstructionSet!Out

LEMMA TwiddleIsShift ==
  ASSUME NEW i \in 0 .. 7, NEW x \in Bytes, NEW f
  PROVE  Both(twiddle(twiddle_ops[i + 1], x, f)) = InstructionSet!Shift(i, x, f)
<1> DEFINE high == x \div 128
           low == x % 2
           carry == Num(f.C)
<1>1. x \in Int /\ 0 <= x /\ x <= 255
  BY ByteRange
<1>2. (x > 127) = (high = 1) /\ high \in {0, 1} /\ low \in {0, 1} /\ carry \in {0, 1}
  BY <1>1, NumIsBit
<1>3. /\ 2 * x + 0 = 2 * x /\ 128 * 0 + x \div 2 = x \div 2
      /\ x \div 2 + 128 * low = 128 * low + x \div 2
      /\ x \div 2 + 128 * carry = 128 * carry + x \div 2
      /\ (16 * (x % 16) + x \div 16) % 256 = (x \div 16 + 16 * x) % 256
  BY <1>1, <1>2
<1>4. x \div 2 + and(x, 128) = 128 * high + x \div 2
  <2>1. /\ ~Bit(128, 1) /\ ~Bit(128, 2) /\ ~Bit(128, 4) /\ ~Bit(128, 8) /\ ~Bit(128, 16)
        /\ ~Bit(128, 32) /\ ~Bit(128, 64) /\ Bit(128, 128)
    BY DEF Bit
  <2>2. and(x, 128) = 128 * Num(Bit(x, 128))
    BY <2>1, AndBits DEF Num
  <2>3. Num(Bit(x, 128)) = high
    BY <1>1 DEF Bit, Num
  <2> QED BY <1>1, <1>2, <2>2, <2>3
<1>5. InstructionSet!Num(f.C) = carry
  BY IsaCopies
<1> HIDE DEF high, low, carry
<1>6. InstructionSet!Shift(i, x, f)
        = LET in == CASE i = 0 -> high [] i = 1 -> low [] i \in {2, 3} -> carry
                      [] i = 5 -> high [] OTHER -> 0
          IN IF i = 6 THEN InstructionSet!Out(16 * (x % 16) + x \div 16, FALSE, FALSE, FALSE)
             ELSE IF i % 2 = 0 THEN InstructionSet!Out(2 * x + in, FALSE, FALSE, high = 1)
             ELSE InstructionSet!Out(128 * in + x \div 2, FALSE, FALSE, low = 1)
  BY <1>5 DEF InstructionSet!Shift, high, low
<1>7. CASE i = 0
  <2>1. twiddle_ops[i + 1] = "rlc"
    BY <1>7 DEF twiddle_ops
  <2>2. twiddle("rlc", x, f) = Result(2 * x + high, FALSE, FALSE, high = 1)
    BY <1>2, <1>3, <1>4 DEF twiddle, rotated, high, low, carry
  <2>3. InstructionSet!Shift(i, x, f) = InstructionSet!Out(2 * x + high, FALSE, FALSE, high = 1)
    BY <1>6, <1>7
  <2>4. Both(Result(2 * x + high, FALSE, FALSE, high = 1)) = InstructionSet!Out(2 * x + high, FALSE, FALSE, high = 1)
    BY Zenon DEF Both, Result, Byte, InstructionSet!Out
  <2> QED BY <2>1, <2>2, <2>3, <2>4
<1>8. CASE i = 1
  <2>1. twiddle_ops[i + 1] = "rrc"
    BY <1>8 DEF twiddle_ops
  <2>2. twiddle("rrc", x, f) = Result(128 * low + x \div 2, FALSE, FALSE, low = 1)
    BY <1>2, <1>3, <1>4 DEF twiddle, rotated, high, low, carry
  <2>3. InstructionSet!Shift(i, x, f) = InstructionSet!Out(128 * low + x \div 2, FALSE, FALSE, low = 1)
    BY <1>6, <1>8
  <2>4. Both(Result(128 * low + x \div 2, FALSE, FALSE, low = 1)) = InstructionSet!Out(128 * low + x \div 2, FALSE, FALSE, low = 1)
    BY Zenon DEF Both, Result, Byte, InstructionSet!Out
  <2> QED BY <2>1, <2>2, <2>3, <2>4
<1>9. CASE i = 2
  <2>1. twiddle_ops[i + 1] = "rl"
    BY <1>9 DEF twiddle_ops
  <2>2. twiddle("rl", x, f) = Result(2 * x + carry, FALSE, FALSE, high = 1)
    BY <1>2, <1>3, <1>4 DEF twiddle, rotated, high, low, carry
  <2>3. InstructionSet!Shift(i, x, f) = InstructionSet!Out(2 * x + carry, FALSE, FALSE, high = 1)
    BY <1>6, <1>9
  <2>4. Both(Result(2 * x + carry, FALSE, FALSE, high = 1)) = InstructionSet!Out(2 * x + carry, FALSE, FALSE, high = 1)
    BY Zenon DEF Both, Result, Byte, InstructionSet!Out
  <2> QED BY <2>1, <2>2, <2>3, <2>4
<1>10. CASE i = 3
  <2>1. twiddle_ops[i + 1] = "rr"
    BY <1>10 DEF twiddle_ops
  <2>2. twiddle("rr", x, f) = Result(128 * carry + x \div 2, FALSE, FALSE, low = 1)
    BY <1>2, <1>3, <1>4 DEF twiddle, rotated, high, low, carry
  <2>3. InstructionSet!Shift(i, x, f) = InstructionSet!Out(128 * carry + x \div 2, FALSE, FALSE, low = 1)
    BY <1>6, <1>10
  <2>4. Both(Result(128 * carry + x \div 2, FALSE, FALSE, low = 1)) = InstructionSet!Out(128 * carry + x \div 2, FALSE, FALSE, low = 1)
    BY Zenon DEF Both, Result, Byte, InstructionSet!Out
  <2> QED BY <2>1, <2>2, <2>3, <2>4
<1>11. CASE i = 4
  <2>1. twiddle_ops[i + 1] = "sla"
    BY <1>11 DEF twiddle_ops
  <2>2. twiddle("sla", x, f) = Result(2 * x + 0, FALSE, FALSE, high = 1)
    BY <1>2, <1>3, <1>4 DEF twiddle, shifted, high, low, carry
  <2>3. InstructionSet!Shift(i, x, f) = InstructionSet!Out(2 * x + 0, FALSE, FALSE, high = 1)
    BY <1>6, <1>11
  <2>4. Both(Result(2 * x + 0, FALSE, FALSE, high = 1)) = InstructionSet!Out(2 * x + 0, FALSE, FALSE, high = 1)
    BY Zenon DEF Both, Result, Byte, InstructionSet!Out
  <2> QED BY <2>1, <2>2, <2>3, <2>4
<1>12. CASE i = 5
  <2>1. twiddle_ops[i + 1] = "sra"
    BY <1>12 DEF twiddle_ops
  <2>2. twiddle("sra", x, f) = Result(128 * high + x \div 2, FALSE, FALSE, low = 1)
    BY <1>2, <1>3, <1>4 DEF twiddle, shifted, high, low, carry
  <2>3. InstructionSet!Shift(i, x, f) = InstructionSet!Out(128 * high + x \div 2, FALSE, FALSE, low = 1)
    BY <1>6, <1>12
  <2>4. Both(Result(128 * high + x \div 2, FALSE, FALSE, low = 1)) = InstructionSet!Out(128 * high + x \div 2, FALSE, FALSE, low = 1)
    BY Zenon DEF Both, Result, Byte, InstructionSet!Out
  <2> QED BY <2>1, <2>2, <2>3, <2>4
<1>13. CASE i = 6
  <2>1. twiddle_ops[i + 1] = "swap_nibbles"
    BY <1>13 DEF twiddle_ops
  <2>2. twiddle("swap_nibbles", x, f) = Result(x \div 16 + 16 * x, FALSE, FALSE, FALSE)
    BY DEF twiddle, shifted, high, low, carry
  <2>3. InstructionSet!Shift(i, x, f) = InstructionSet!Out(16 * (x % 16) + x \div 16, FALSE, FALSE, FALSE)
    BY <1>6, <1>13
  <2>4. InstructionSet!Out(16 * (x % 16) + x \div 16, FALSE, FALSE, FALSE)
          = InstructionSet!Out(x \div 16 + 16 * x, FALSE, FALSE, FALSE)
    BY <1>3, Zenon DEF InstructionSet!Out
  <2>5. Both(Result(x \div 16 + 16 * x, FALSE, FALSE, FALSE))
          = InstructionSet!Out(x \div 16 + 16 * x, FALSE, FALSE, FALSE)
    BY Zenon DEF Both, Result, Byte, InstructionSet!Out
  <2> QED BY <2>1, <2>2, <2>3, <2>4, <2>5
<1>14. CASE i = 7
  <2>1. twiddle_ops[i + 1] = "srl"
    BY <1>14 DEF twiddle_ops
  <2>2. twiddle("srl", x, f) = Result(128 * 0 + x \div 2, FALSE, FALSE, low = 1)
    BY <1>2, <1>3, <1>4 DEF twiddle, shifted, high, low, carry
  <2>3. InstructionSet!Shift(i, x, f) = InstructionSet!Out(128 * 0 + x \div 2, FALSE, FALSE, low = 1)
    BY <1>6, <1>14
  <2>4. Both(Result(128 * 0 + x \div 2, FALSE, FALSE, low = 1)) = InstructionSet!Out(128 * 0 + x \div 2, FALSE, FALSE, low = 1)
    BY Zenon DEF Both, Result, Byte, InstructionSet!Out
  <2> QED BY <2>1, <2>2, <2>3, <2>4
<1> QED BY <1>7, <1>8, <1>9, <1>10, <1>11, <1>12, <1>13, <1>14

LEMMA FlagsMatch ==
  /\ \A f : InstructionSet!FlagByte(f) = FlagsByte(f)
  /\ \A x \in Bytes : InstructionSet!ByteFlags(x) = Flags(x)
<1>1. \A f : InstructionSet!FlagByte(f) = FlagsByte(f)
  BY IsaCopies DEF InstructionSet!FlagByte, FlagsByte
<1>2. ASSUME NEW x \in Bytes PROVE InstructionSet!ByteFlags(x) = Flags(x)
  <2>1. (x > 127) = ((x \div 128) % 2 = 1)
    BY ByteRange
  <2> QED BY <2>1, Zenon DEF InstructionSet!ByteFlags, Flags, Bit
<1> QED BY <1>1, <1>2

\* A bit that is taken away or put there.
LEMMA ResSetBit ==
  ASSUME NEW b \in 0 .. 7, NEW x \in Bytes
  PROVE  /\ res_or_set("res_bit", b, x) = IF Bit(x, 2 ^ b) THEN x - 2 ^ b ELSE x
         /\ res_or_set("set_bit", b, x) = IF Bit(x, 2 ^ b) THEN x ELSE x + 2 ^ b
<1>1. /\ res_or_set("res_bit", b, x) = and(x, 255 - 2 ^ b)
      /\ res_or_set("set_bit", b, x) = or(x, 2 ^ b)
  BY DEF res_or_set
<1> DEFINE p(v) == Num(Bit(x, v))
<1>2. \A v : p(v) = IF Bit(x, v) THEN 1 ELSE 0
  BY DEF Num
<1>3. x = p(1) + 2 * p(2) + 4 * p(4) + 8 * p(8) + 16 * p(16) + 32 * p(32) + 64 * p(64) + 128 * p(128)
  BY Bits
<1>4. \A y : and(x, y) = (IF Bit(y, 1) THEN p(1) ELSE 0) + 2 * (IF Bit(y, 2) THEN p(2) ELSE 0)
                + 4 * (IF Bit(y, 4) THEN p(4) ELSE 0) + 8 * (IF Bit(y, 8) THEN p(8) ELSE 0)
                + 16 * (IF Bit(y, 16) THEN p(16) ELSE 0) + 32 * (IF Bit(y, 32) THEN p(32) ELSE 0)
                + 64 * (IF Bit(y, 64) THEN p(64) ELSE 0) + 128 * (IF Bit(y, 128) THEN p(128) ELSE 0)
  BY AndBits DEF Num
<1>5. \A y : or(x, y) = (IF Bit(y, 1) THEN 1 ELSE p(1)) + 2 * (IF Bit(y, 2) THEN 1 ELSE p(2))
                + 4 * (IF Bit(y, 4) THEN 1 ELSE p(4)) + 8 * (IF Bit(y, 8) THEN 1 ELSE p(8))
                + 16 * (IF Bit(y, 16) THEN 1 ELSE p(16)) + 32 * (IF Bit(y, 32) THEN 1 ELSE p(32))
                + 64 * (IF Bit(y, 64) THEN 1 ELSE p(64)) + 128 * (IF Bit(y, 128) THEN 1 ELSE p(128))
  BY OrBits DEF Num
<1> HIDE DEF p
<1>6. CASE b = 0
  <2>1. /\ ~Bit(254, 1) /\ Bit(254, 2) /\ Bit(254, 4) /\ Bit(254, 8)
        /\ Bit(254, 16) /\ Bit(254, 32) /\ Bit(254, 64) /\ Bit(254, 128)
    BY DEF Bit
  <2>2. /\ Bit(1, 1) /\ ~Bit(1, 2) /\ ~Bit(1, 4) /\ ~Bit(1, 8)
        /\ ~Bit(1, 16) /\ ~Bit(1, 32) /\ ~Bit(1, 64) /\ ~Bit(1, 128)
    BY DEF Bit
  <2>3. 2 ^ b = 1
    BY <1>6
  <2>4. and(x, 254) = (IF Bit(x, 1) THEN x - 1 ELSE x) /\ or(x, 1) = IF Bit(x, 1) THEN x ELSE x + 1
    BY <1>2, <1>3, <1>4, <1>5, <2>1, <2>2
  <2>5. 255 - 1 = 254
    OBVIOUS
  <2> QED BY <1>1, <2>3, <2>4, <2>5
<1>7. CASE b = 1
  <2>1. /\ Bit(253, 1) /\ ~Bit(253, 2) /\ Bit(253, 4) /\ Bit(253, 8)
        /\ Bit(253, 16) /\ Bit(253, 32) /\ Bit(253, 64) /\ Bit(253, 128)
    BY DEF Bit
  <2>2. /\ ~Bit(2, 1) /\ Bit(2, 2) /\ ~Bit(2, 4) /\ ~Bit(2, 8)
        /\ ~Bit(2, 16) /\ ~Bit(2, 32) /\ ~Bit(2, 64) /\ ~Bit(2, 128)
    BY DEF Bit
  <2>3. 2 ^ b = 2
    BY <1>7
  <2>4. and(x, 253) = (IF Bit(x, 2) THEN x - 2 ELSE x) /\ or(x, 2) = IF Bit(x, 2) THEN x ELSE x + 2
    BY <1>2, <1>3, <1>4, <1>5, <2>1, <2>2
  <2>5. 255 - 2 = 253
    OBVIOUS
  <2> QED BY <1>1, <2>3, <2>4, <2>5
<1>8. CASE b = 2
  <2>1. /\ Bit(251, 1) /\ Bit(251, 2) /\ ~Bit(251, 4) /\ Bit(251, 8)
        /\ Bit(251, 16) /\ Bit(251, 32) /\ Bit(251, 64) /\ Bit(251, 128)
    BY DEF Bit
  <2>2. /\ ~Bit(4, 1) /\ ~Bit(4, 2) /\ Bit(4, 4) /\ ~Bit(4, 8)
        /\ ~Bit(4, 16) /\ ~Bit(4, 32) /\ ~Bit(4, 64) /\ ~Bit(4, 128)
    BY DEF Bit
  <2>3. 2 ^ b = 4
    BY <1>8
  <2>4. and(x, 251) = (IF Bit(x, 4) THEN x - 4 ELSE x) /\ or(x, 4) = IF Bit(x, 4) THEN x ELSE x + 4
    BY <1>2, <1>3, <1>4, <1>5, <2>1, <2>2
  <2>5. 255 - 4 = 251
    OBVIOUS
  <2> QED BY <1>1, <2>3, <2>4, <2>5
<1>9. CASE b = 3
  <2>1. /\ Bit(247, 1) /\ Bit(247, 2) /\ Bit(247, 4) /\ ~Bit(247, 8)
        /\ Bit(247, 16) /\ Bit(247, 32) /\ Bit(247, 64) /\ Bit(247, 128)
    BY DEF Bit
  <2>2. /\ ~Bit(8, 1) /\ ~Bit(8, 2) /\ ~Bit(8, 4) /\ Bit(8, 8)
        /\ ~Bit(8, 16) /\ ~Bit(8, 32) /\ ~Bit(8, 64) /\ ~Bit(8, 128)
    BY DEF Bit
  <2>3. 2 ^ b = 8
    BY <1>9
  <2>4. and(x, 247) = (IF Bit(x, 8) THEN x - 8 ELSE x) /\ or(x, 8) = IF Bit(x, 8) THEN x ELSE x + 8
    BY <1>2, <1>3, <1>4, <1>5, <2>1, <2>2
  <2>5. 255 - 8 = 247
    OBVIOUS
  <2> QED BY <1>1, <2>3, <2>4, <2>5
<1>10. CASE b = 4
  <2>1. /\ Bit(239, 1) /\ Bit(239, 2) /\ Bit(239, 4) /\ Bit(239, 8)
        /\ ~Bit(239, 16) /\ Bit(239, 32) /\ Bit(239, 64) /\ Bit(239, 128)
    BY DEF Bit
  <2>2. /\ ~Bit(16, 1) /\ ~Bit(16, 2) /\ ~Bit(16, 4) /\ ~Bit(16, 8)
        /\ Bit(16, 16) /\ ~Bit(16, 32) /\ ~Bit(16, 64) /\ ~Bit(16, 128)
    BY DEF Bit
  <2>3. 2 ^ b = 16
    BY <1>10
  <2>4. and(x, 239) = (IF Bit(x, 16) THEN x - 16 ELSE x) /\ or(x, 16) = IF Bit(x, 16) THEN x ELSE x + 16
    BY <1>2, <1>3, <1>4, <1>5, <2>1, <2>2
  <2>5. 255 - 16 = 239
    OBVIOUS
  <2> QED BY <1>1, <2>3, <2>4, <2>5
<1>11. CASE b = 5
  <2>1. /\ Bit(223, 1) /\ Bit(223, 2) /\ Bit(223, 4) /\ Bit(223, 8)
        /\ Bit(223, 16) /\ ~Bit(223, 32) /\ Bit(223, 64) /\ Bit(223, 128)
    BY DEF Bit
  <2>2. /\ ~Bit(32, 1) /\ ~Bit(32, 2) /\ ~Bit(32, 4) /\ ~Bit(32, 8)
        /\ ~Bit(32, 16) /\ Bit(32, 32) /\ ~Bit(32, 64) /\ ~Bit(32, 128)
    BY DEF Bit
  <2>3. 2 ^ b = 32
    BY <1>11
  <2>4. and(x, 223) = (IF Bit(x, 32) THEN x - 32 ELSE x) /\ or(x, 32) = IF Bit(x, 32) THEN x ELSE x + 32
    BY <1>2, <1>3, <1>4, <1>5, <2>1, <2>2
  <2>5. 255 - 32 = 223
    OBVIOUS
  <2> QED BY <1>1, <2>3, <2>4, <2>5
<1>12. CASE b = 6
  <2>1. /\ Bit(191, 1) /\ Bit(191, 2) /\ Bit(191, 4) /\ Bit(191, 8)
        /\ Bit(191, 16) /\ Bit(191, 32) /\ ~Bit(191, 64) /\ Bit(191, 128)
    BY DEF Bit
  <2>2. /\ ~Bit(64, 1) /\ ~Bit(64, 2) /\ ~Bit(64, 4) /\ ~Bit(64, 8)
        /\ ~Bit(64, 16) /\ ~Bit(64, 32) /\ Bit(64, 64) /\ ~Bit(64, 128)
    BY DEF Bit
  <2>3. 2 ^ b = 64
    BY <1>12
  <2>4. and(x, 191) = (IF Bit(x, 64) THEN x - 64 ELSE x) /\ or(x, 64) = IF Bit(x, 64) THEN x ELSE x + 64
    BY <1>2, <1>3, <1>4, <1>5, <2>1, <2>2
  <2>5. 255 - 64 = 191
    OBVIOUS
  <2> QED BY <1>1, <2>3, <2>4, <2>5
<1>13. CASE b = 7
  <2>1. /\ Bit(127, 1) /\ Bit(127, 2) /\ Bit(127, 4) /\ Bit(127, 8)
        /\ Bit(127, 16) /\ Bit(127, 32) /\ Bit(127, 64) /\ ~Bit(127, 128)
    BY DEF Bit
  <2>2. /\ ~Bit(128, 1) /\ ~Bit(128, 2) /\ ~Bit(128, 4) /\ ~Bit(128, 8)
        /\ ~Bit(128, 16) /\ ~Bit(128, 32) /\ ~Bit(128, 64) /\ Bit(128, 128)
    BY DEF Bit
  <2>3. 2 ^ b = 128
    BY <1>13
  <2>4. and(x, 127) = (IF Bit(x, 128) THEN x - 128 ELSE x) /\ or(x, 128) = IF Bit(x, 128) THEN x ELSE x + 128
    BY <1>2, <1>3, <1>4, <1>5, <2>1, <2>2
  <2>5. 255 - 128 = 127
    OBVIOUS
  <2> QED BY <1>1, <2>3, <2>4, <2>5
<1> QED BY <1>6, <1>7, <1>8, <1>9, <1>10, <1>11, <1>12, <1>13

\* The adjustment of DAA in digits: q and r are those of A, h, c and n the
\* flags as numbers, and 10 * tens + ones the number that they stand for.
LEMMA AdjustSum ==
  ASSUME NEW q \in 0 .. 15, NEW r \in 0 .. 15, NEW h \in {0, 1}, NEW c \in {0, 1},
         NEW ones, ones = r + 16 * h, NEW tens, tens = q + 16 * c - h,
         ones \in 0 .. 19, tens \in 0 .. 18,
         NEW low \in {0, 1}, low = 1 <=> h = 1 \/ r > 9,
         NEW high \in {0, 1}, high = 1 <=> c = 1 \/ 16 * q + r > 153,
         NEW w, w = 10 * tens + ones
  PROVE  /\ (16 * q + r + 6 * low + 96 * high) % 256 = 16 * ((w % 100) \div 10) + (w % 10)
         /\ high = 1 <=> w \notin 0 .. 99
<1>1. PICK k \in {0, 1} : k = 1 <=> ones > 9
  OBVIOUS
<1>2. PICK j \in {0, 1} : j = 1 <=> tens + k > 9
  OBVIOUS
<1>3. w % 10 = ones - 10 * k /\ (w % 100) \div 10 = tens + k - 10 * j /\ (j = 1 <=> w > 99)
  BY <1>1, <1>2
<1>4. r + 6 * low = (ones - 10 * k) + 16 * (k - h + 0) /\ low = k
  BY <1>1
<1>5. high = j
  BY <1>1, <1>2
<1>6. 16 * q + r + 6 * low + 96 * high
        = 16 * (tens + k - 10 * j) + (ones - 10 * k) + 256 * (j - c)
  BY <1>4, <1>5
<1>7. (16 * q + r + 6 * low + 96 * high) % 256 = 16 * (tens + k - 10 * j) + (ones - 10 * k)
  BY <1>1, <1>2, <1>6
<1> QED BY <1>1, <1>2, <1>3, <1>5, <1>7

LEMMA AdjustDifference ==
  ASSUME NEW q \in 0 .. 15, NEW r \in 0 .. 15, NEW h \in {0, 1}, NEW c \in {0, 1},
         NEW ones, ones = r - 16 * h, NEW tens, tens = q - 16 * c + h,
         ones \in -10 .. 9, tens \in -9 .. 9,
         NEW w, w = 10 * tens + ones
  PROVE  /\ (16 * q + r - (6 * h + 96 * c)) % 256 = 16 * ((w % 100) \div 10) + (w % 10)
         /\ c = 1 <=> w \notin 0 .. 99
<1>1. PICK k \in {0, 1} : k = 1 <=> ones < 0
  OBVIOUS
<1>2. PICK j \in {0, 1} : j = 1 <=> tens - k < 0
  OBVIOUS
<1>3. w % 10 = ones + 10 * k /\ (w % 100) \div 10 = tens - k + 10 * j /\ (j = 1 <=> w < 0)
  BY <1>1, <1>2
<1>4. h = k /\ c = j
  BY <1>1, <1>2
<1>5. 16 * q + r - (6 * h + 96 * c) = 16 * (tens - k + 10 * j) + (ones + 10 * k)
  BY <1>4
<1>6. (16 * q + r - (6 * h + 96 * c)) % 256 = 16 * (tens - k + 10 * j) + (ones + 10 * k)
  BY <1>1, <1>2, <1>5
<1> QED BY <1>1, <1>2, <1>3, <1>4, <1>6

-----------------------------------------------------------------------------
(* A state in the middle of an instruction.                                *)

\* What a program sees.
Arc(R, F, S, P, M) == [registers |-> R, f |-> F, sp |-> S, pc |-> P, m |-> M]

LEMMA ArcFields ==
  ASSUME NEW R, NEW F, NEW S, NEW P, NEW M, NEW q, q = Arc(R, F, S, P, M)
  PROVE  /\ q.registers = R /\ q.f = F /\ q.sp = S /\ q.pc = P /\ q.m = M
         /\ \A v : [q EXCEPT !.registers = v] = Arc(v, F, S, P, M)
         /\ \A v : [q EXCEPT !.f = v] = Arc(R, v, S, P, M)
         /\ \A v : [q EXCEPT !.sp = v] = Arc(R, F, v, P, M)
         /\ \A v : [q EXCEPT !.pc = v] = Arc(R, F, S, v, M)
         /\ \A v : [q EXCEPT !.m = v] = Arc(R, F, S, P, v)
BY DEF Arc

IsState(s) ==
  s = [registers |-> s.registers, f |-> s.f, sp |-> s.sp, pc |-> s.pc, ir |-> s.ir, w |-> s.w,
       z |-> s.z, state |-> s.state, cycle |-> s.cycle, bank |-> s.bank, instr |-> s.instr,
       m |-> s.m]

\* s is in cycle c of the instruction i with op-code b, with q to be seen and
\* z and w as scratch bytes.
During(s, i, b, c, q, z, w) ==
  /\ IsState(s)
  /\ s.instr = i /\ s.ir = b /\ s.cycle = c /\ s.state = "EXECUTING" /\ s.z = z /\ s.w = w
  /\ q = Arc(s.registers, s.f, s.sp, s.pc, s.m)

LEMMA DuringFields ==
  ASSUME NEW s, NEW i, NEW b, NEW c, NEW z, NEW w, NEW R, NEW F, NEW S, NEW P, NEW M,
         During(s, i, b, c, Arc(R, F, S, P, M), z, w)
  PROVE  /\ s.registers = R /\ s.f = F /\ s.sp = S /\ s.pc = P /\ s.m = M
         /\ s.instr = i /\ s.ir = b /\ s.cycle = c /\ s.state = "EXECUTING" /\ s.z = z /\ s.w = w
BY DEF During, Arc

\* A change of a field.
LEMMA Changes ==
  ASSUME NEW s, NEW i, NEW b, NEW c, NEW z, NEW w, NEW R, NEW F, NEW S, NEW P, NEW M,
         During(s, i, b, c, Arc(R, F, S, P, M), z, w)
  PROVE  /\ \A v : During([s EXCEPT !.registers = v], i, b, c, Arc(v, F, S, P, M), z, w)
         /\ \A v : During([s EXCEPT !.f = v], i, b, c, Arc(R, v, S, P, M), z, w)
         /\ \A v : During([s EXCEPT !.sp = v], i, b, c, Arc(R, F, v, P, M), z, w)
         /\ \A v : During([s EXCEPT !.pc = v], i, b, c, Arc(R, F, S, v, M), z, w)
         /\ \A v : During([s EXCEPT !.m = v], i, b, c, Arc(R, F, S, P, v), z, w)
         /\ \A v : During([s EXCEPT !.z = v], i, b, c, Arc(R, F, S, P, M), v, w)
         /\ \A v : During([s EXCEPT !.w = v], i, b, c, Arc(R, F, S, P, M), z, v)
         /\ \A v : During([s EXCEPT !.cycle = v], i, b, v, Arc(R, F, S, P, M), z, w)
<1>0. s.registers = R /\ s.f = F /\ s.sp = S /\ s.pc = P /\ s.m = M
  BY DuringFields
<1>1. \A v : During([s EXCEPT !.registers = v], i, b, c, Arc(v, F, S, P, M), z, w)
  BY <1>0 DEF During, IsState
<1>2. \A v : During([s EXCEPT !.f = v], i, b, c, Arc(R, v, S, P, M), z, w)
  BY <1>0 DEF During, IsState
<1>3. \A v : During([s EXCEPT !.sp = v], i, b, c, Arc(R, F, v, P, M), z, w)
  BY <1>0 DEF During, IsState
<1>4. \A v : During([s EXCEPT !.pc = v], i, b, c, Arc(R, F, S, v, M), z, w)
  BY <1>0 DEF During, IsState
<1>5. \A v : During([s EXCEPT !.m = v], i, b, c, Arc(R, F, S, P, v), z, w)
  BY <1>0 DEF During, IsState
<1>6. \A v : During([s EXCEPT !.z = v], i, b, c, Arc(R, F, S, P, M), v, w)
  BY <1>0 DEF During, IsState
<1>7. \A v : During([s EXCEPT !.w = v], i, b, c, Arc(R, F, S, P, M), z, v)
  BY <1>0 DEF During, IsState
<1>8. \A v : During([s EXCEPT !.cycle = v], i, b, v, Arc(R, F, S, P, M), z, w)
  BY <1>0 DEF During, IsState
<1> QED BY <1>1, <1>2, <1>3, <1>4, <1>5, <1>6, <1>7, <1>8

LEMMA ReadsDuring ==
  ASSUME NEW s, NEW i, NEW b, NEW c, NEW z, NEW w, NEW R, NEW F, NEW S, NEW P, NEW M,
         During(s, i, b, c, Arc(R, F, S, P, M), z, w)
  PROVE  /\ During(fetch_z(s), i, b, c, Arc(R, F, S, Word(P + 1), M), fetch(M, P), w)
         /\ During(fetch_w(s), i, b, c, Arc(R, F, S, Word(P + 1), M), z, fetch(M, P))
         /\ During(pop_z(s), i, b, c, Arc(R, F, Word(S + 1), P, M), fetch(M, S), w)
         /\ During(pop_w(s), i, b, c, Arc(R, F, Word(S + 1), P, M), z, fetch(M, S))
         /\ \A addr : During(read_z(s, addr), i, b, c, Arc(R, F, S, P, M), fetch(M, addr), w)
<1>0. s.registers = R /\ s.f = F /\ s.sp = S /\ s.pc = P /\ s.m = M
  BY DuringFields
<1>1. During(fetch_z(s), i, b, c, Arc(R, F, S, Word(P + 1), M), fetch(M, P), w)
  <2> DEFINE t == [s EXCEPT !.z = fetch(M, P)]
  <2>1. During(t, i, b, c, Arc(R, F, S, P, M), fetch(M, P), w)
    BY Changes
  <2>2. fetch_z(s) = [t EXCEPT !.pc = Word(P + 1)]
    BY <1>0 DEF During, IsState, fetch_z
  <2> HIDE DEF t
  <2>3. During([t EXCEPT !.pc = Word(P + 1)], i, b, c, Arc(R, F, S, Word(P + 1), M), fetch(M, P), w)
    BY <2>1, Changes
  <2> QED BY <2>2, <2>3
<1>2. During(fetch_w(s), i, b, c, Arc(R, F, S, Word(P + 1), M), z, fetch(M, P))
  <2> DEFINE t == [s EXCEPT !.w = fetch(M, P)]
  <2>1. During(t, i, b, c, Arc(R, F, S, P, M), z, fetch(M, P))
    BY Changes
  <2>2. fetch_w(s) = [t EXCEPT !.pc = Word(P + 1)]
    BY <1>0 DEF During, IsState, fetch_w
  <2> HIDE DEF t
  <2>3. During([t EXCEPT !.pc = Word(P + 1)], i, b, c, Arc(R, F, S, Word(P + 1), M), z, fetch(M, P))
    BY <2>1, Changes
  <2> QED BY <2>2, <2>3
<1>3. \A addr : During(read_z(s, addr), i, b, c, Arc(R, F, S, P, M), fetch(M, addr), w)
  BY <1>0, Changes DEF read_z
<1>4. During(pop_z(s), i, b, c, Arc(R, F, Word(S + 1), P, M), fetch(M, S), w)
  <2> DEFINE t == [s EXCEPT !.z = fetch(M, S)]
  <2>1. During(t, i, b, c, Arc(R, F, S, P, M), fetch(M, S), w)
    BY Changes
  <2>2. pop_z(s) = [t EXCEPT !.sp = Word(S + 1)]
    BY <1>0 DEF During, IsState, pop_z, read_z
  <2> HIDE DEF t
  <2>3. During([t EXCEPT !.sp = Word(S + 1)], i, b, c, Arc(R, F, Word(S + 1), P, M), fetch(M, S), w)
    BY <2>1, Changes
  <2> QED BY <2>2, <2>3
<1>5. During(pop_w(s), i, b, c, Arc(R, F, Word(S + 1), P, M), z, fetch(M, S))
  <2> DEFINE t == [s EXCEPT !.w = fetch(M, S)]
  <2>1. During(t, i, b, c, Arc(R, F, S, P, M), z, fetch(M, S))
    BY Changes
  <2>2. pop_w(s) = [t EXCEPT !.sp = Word(S + 1)]
    BY <1>0 DEF During, IsState, pop_w
  <2> HIDE DEF t
  <2>3. During([t EXCEPT !.sp = Word(S + 1)], i, b, c, Arc(R, F, Word(S + 1), P, M), z, fetch(M, S))
    BY <2>1, Changes
  <2> QED BY <2>2, <2>3
<1> QED BY <1>1, <1>2, <1>3, <1>4, <1>5

\* The registers with a new value in register r, or in the pair p: BC, DE, HL.
RegWith(R, r, v)  == [R EXCEPT ![r] = v]
RegsWith(R, p, v) == [R EXCEPT ![2 * p] = Word(v) \div 256, ![2 * p + 1] = Byte(v)]

LEMMA WritesDuring ==
  ASSUME NEW s, NEW i, NEW b, NEW c, NEW z, NEW w, NEW R, NEW F, NEW S, NEW P, NEW M,
         During(s, i, b, c, Arc(R, F, S, P, M), z, w)
  PROVE  /\ \A addr, v : During(write(s, addr, v), i, b, c, Arc(R, F, S, P, store(M, addr, v)), z, w)
         /\ \A r, v : During(set_reg8(s, r, v), i, b, c, Arc(RegWith(R, r, Byte(v)), F, S, P, M), z, w)
         /\ \A v : During(set_reg16(s, "SP", v), i, b, c, Arc(R, F, Word(v), P, M), z, w)
         /\ \A v : During(set_reg16(s, "AF", v), i, b, c,
                     Arc(RegWith(R, 7, Word(v) \div 256), Flags(Byte(v)), S, P, M), z, w)
         /\ \A p \in 0 .. 2 : \A r, v : Pair(r) = <<2 * p, 2 * p + 1>> /\ r \notin {"SP", "AF"} =>
              During(set_reg16(s, r, v), i, b, c,
                     Arc(RegsWith(R, p, v), F, S, P, M), z, w)
<1>0. s.registers = R /\ s.f = F /\ s.sp = S /\ s.pc = P /\ s.m = M
  BY DuringFields
<1>1. \A addr, v : During(write(s, addr, v), i, b, c, Arc(R, F, S, P, store(M, addr, v)), z, w)
  <2> TAKE addr, v
  <2>1. write(s, addr, v) = [s EXCEPT !.m = store(M, addr, v)]
    BY <1>0 DEF write
  <2> QED BY <2>1, Changes
<1>2. \A r, v : During(set_reg8(s, r, v), i, b, c, Arc(RegWith(R, r, Byte(v)), F, S, P, M), z, w)
  <2> TAKE r, v
  <2> DEFINE registers == RegWith(R, r, Byte(v))
  <2>1. set_reg8(s, r, v) = [s EXCEPT !.registers = registers]
    BY <1>0 DEF set_reg8, RegWith
  <2> HIDE DEF registers
  <2>2. During([s EXCEPT !.registers = registers], i, b, c, Arc(registers, F, S, P, M), z, w)
    BY Changes
  <2> QED BY <2>1, <2>2 DEF registers
<1>3. \A v : During(set_reg16(s, "SP", v), i, b, c, Arc(R, F, Word(v), P, M), z, w)
  <2> TAKE v
  <2>1. set_reg16(s, "SP", v) = [s EXCEPT !.sp = Word(v)]
    BY DEF set_reg16
  <2> QED BY <2>1, Changes
<1>4. \A v : During(set_reg16(s, "AF", v), i, b, c,
               Arc(RegWith(R, 7, Word(v) \div 256), Flags(Byte(v)), S, P, M), z, w)
  <2> TAKE v
  <2> DEFINE registers == RegWith(R, 7, Word(v) \div 256)
             f == Flags(Byte(v))
  <2>1. set_reg16(s, "AF", v) = [[s EXCEPT !.registers = registers] EXCEPT !.f = f]
    BY <1>0 DEF set_reg16, During, IsState, REG_A, RegWith
  <2> HIDE DEF registers, f
  <2> DEFINE t == [s EXCEPT !.registers = registers]
  <2>2. During(t, i, b, c, Arc(registers, F, S, P, M), z, w)
    BY Changes
  <2>3. set_reg16(s, "AF", v) = [t EXCEPT !.f = f]
    BY <2>1
  <2> HIDE DEF t
  <2>4. During([t EXCEPT !.f = f], i, b, c, Arc(registers, f, S, P, M), z, w)
    BY <2>2, Changes
  <2> QED BY <2>3, <2>4 DEF registers, f
<1>5. ASSUME NEW p \in 0 .. 2, NEW r, NEW v, Pair(r) = <<2 * p, 2 * p + 1>>, r \notin {"SP", "AF"}
      PROVE  During(set_reg16(s, r, v), i, b, c,
                    Arc(RegsWith(R, p, v), F, S, P, M), z, w)
  <2> DEFINE registers == RegsWith(R, p, v)
  <2>1. Pair(r)[1] = 2 * p /\ Pair(r)[2] = 2 * p + 1
    BY <1>5
  <2>2. set_reg16(s, r, v) = [s EXCEPT !.registers = registers]
    BY <1>0, <1>5, <2>1 DEF set_reg16, RegsWith
  <2> HIDE DEF registers
  <2>3. During([s EXCEPT !.registers = registers], i, b, c, Arc(registers, F, S, P, M), z, w)
    BY Changes
  <2> QED BY <2>2, <2>3 DEF registers
<1> QED BY <1>1, <1>2, <1>3, <1>4, <1>5

\* The state in which exec is called a cycle later.
Turn(s) == [exec(s) EXCEPT !.cycle = @ + 1]

LEMMA TurnDuring ==
  ASSUME NEW s, NEW i, NEW b, NEW c, NEW z, NEW w, NEW R, NEW F, NEW S, NEW P, NEW M,
         During(exec(s), i, b, c, Arc(R, F, S, P, M), z, w)
  PROVE  During(Turn(s), i, b, c + 1, Arc(R, F, S, P, M), z, w)
<1>1. Turn(s) = [exec(s) EXCEPT !.cycle = c + 1]
  BY DuringFields DEF Turn
<1> QED BY <1>1, Changes

-----------------------------------------------------------------------------
(* The op-codes of the exec functions.                                     *)

\* An op-code by its octal digits.
Octal(b, x, y, z) ==
  b = 64 * x + 8 * y + z /\ x \in 0 .. 3 /\ y \in 0 .. 7 /\ z \in 0 .. 7

\* The masks of the tables cut an op-code at its digits.
LEMMA MaskDigits ==
  ASSUME NEW b \in Bytes, NEW x, NEW y, NEW z, Octal(b, x, y, z)
  PROVE  /\ and(b, 255) = b
         /\ and(b, 207) = 64 * x + 8 * (y % 2) + z
         /\ and(b, 231) = 64 * x + 32 * (y \div 4) + z
         /\ and(b, 199) = 64 * x + z
         /\ and(b, 248) = 64 * x + 8 * y
         /\ and(b, 192) = 64 * x
<1> DEFINE p(v) == Num(Bit(b, v))
<1>0. x \in Int /\ y \in Int /\ z \in Int /\ b = 64 * x + 8 * y + z
      /\ 0 <= x /\ x <= 3 /\ 0 <= y /\ y <= 7 /\ 0 <= z /\ z <= 7
  BY DEF Octal
<1>1. /\ p(1) \in {0, 1} /\ p(2) \in {0, 1} /\ p(4) \in {0, 1} /\ p(8) \in {0, 1}
      /\ p(16) \in {0, 1} /\ p(32) \in {0, 1} /\ p(64) \in {0, 1} /\ p(128) \in {0, 1}
  BY DEF Num
<1>2. b = p(1) + 2 * p(2) + 4 * p(4) + 8 * p(8) + 16 * p(16) + 32 * p(32) + 64 * p(64) + 128 * p(128)
  BY Bits
<1>3. \A c : and(b, c) = (IF Bit(c, 1) THEN p(1) ELSE 0) + 2 * (IF Bit(c, 2) THEN p(2) ELSE 0)
                + 4 * (IF Bit(c, 4) THEN p(4) ELSE 0) + 8 * (IF Bit(c, 8) THEN p(8) ELSE 0)
                + 16 * (IF Bit(c, 16) THEN p(16) ELSE 0) + 32 * (IF Bit(c, 32) THEN p(32) ELSE 0)
                + 64 * (IF Bit(c, 64) THEN p(64) ELSE 0) + 128 * (IF Bit(c, 128) THEN p(128) ELSE 0)
  BY AndBits DEF Num
<1> HIDE DEF p
<1>4. /\ z = p(1) + 2 * p(2) + 4 * p(4) /\ y = p(8) + 2 * p(16) + 4 * p(32)
      /\ x = p(64) + 2 * p(128)
  BY <1>0, <1>1, <1>2
<1>5. y % 2 = p(8) /\ y \div 4 = p(32)
  <2>1. \A i, j, k \in {0, 1} : (i + 2 * j + 4 * k) % 2 = i /\ (i + 2 * j + 4 * k) \div 4 = k
    OBVIOUS
  <2>2. /\ (p(8) + 2 * p(16) + 4 * p(32)) % 2 = p(8)
        /\ (p(8) + 2 * p(16) + 4 * p(32)) \div 4 = p(32)
    BY <1>1, <2>1, Zenon
  <2> QED BY <1>4, <2>2
<1>6. and(b, 207) = 64 * x + 8 * (y % 2) + z
  <2>1. /\ Bit(207, 1) /\ Bit(207, 2) /\ Bit(207, 4) /\ Bit(207, 8)
        /\ ~Bit(207, 16) /\ ~Bit(207, 32) /\ Bit(207, 64) /\ Bit(207, 128)
    BY DEF Bit
  <2>2. and(b, 207) = p(1) + 2 * p(2) + 4 * p(4) + 8 * p(8) + 64 * p(64) + 128 * p(128)
    BY <1>1, <1>3, <2>1
  <2> QED BY <1>1, <1>4, <1>5, <2>2
<1>7. and(b, 231) = 64 * x + 32 * (y \div 4) + z
  <2>1. /\ Bit(231, 1) /\ Bit(231, 2) /\ Bit(231, 4) /\ ~Bit(231, 8)
        /\ ~Bit(231, 16) /\ Bit(231, 32) /\ Bit(231, 64) /\ Bit(231, 128)
    BY DEF Bit
  <2>2. and(b, 231) = p(1) + 2 * p(2) + 4 * p(4) + 32 * p(32) + 64 * p(64) + 128 * p(128)
    BY <1>1, <1>3, <2>1
  <2> QED BY <1>1, <1>4, <1>5, <2>2
<1>8. and(b, 199) = 64 * x + z
  <2>1. /\ Bit(199, 1) /\ Bit(199, 2) /\ Bit(199, 4) /\ ~Bit(199, 8)
        /\ ~Bit(199, 16) /\ ~Bit(199, 32) /\ Bit(199, 64) /\ Bit(199, 128)
    BY DEF Bit
  <2>2. and(b, 199) = p(1) + 2 * p(2) + 4 * p(4) + 64 * p(64) + 128 * p(128)
    BY <1>1, <1>3, <2>1
  <2> QED BY <1>1, <1>4, <2>2
<1>9. and(b, 248) = 64 * x + 8 * y
  <2>1. /\ ~Bit(248, 1) /\ ~Bit(248, 2) /\ ~Bit(248, 4) /\ Bit(248, 8)
        /\ Bit(248, 16) /\ Bit(248, 32) /\ Bit(248, 64) /\ Bit(248, 128)
    BY DEF Bit
  <2>2. and(b, 248) = 8 * p(8) + 16 * p(16) + 32 * p(32) + 64 * p(64) + 128 * p(128)
    BY <1>1, <1>3, <2>1
  <2>0. p(8) \in Int /\ p(16) \in Int /\ p(32) \in Int /\ p(64) \in Int /\ p(128) \in Int
    BY <1>1
  <2>3. 64 * x = 64 * p(64) + 128 * p(128)
    BY <1>4, <2>0
  <2>4. 8 * y = 8 * p(8) + 16 * p(16) + 32 * p(32)
    BY <1>4, <2>0
  <2> QED BY <2>0, <2>2, <2>3, <2>4
<1>10. and(b, 192) = 64 * x
  <2>1. /\ ~Bit(192, 1) /\ ~Bit(192, 2) /\ ~Bit(192, 4) /\ ~Bit(192, 8)
        /\ ~Bit(192, 16) /\ ~Bit(192, 32) /\ Bit(192, 64) /\ Bit(192, 128)
    BY DEF Bit
  <2>2. and(b, 192) = 64 * p(64) + 128 * p(128)
    BY <1>1, <1>3, <2>1
  <2> QED BY <1>1, <1>4, <1>0, <2>2
<1> QED BY <1>6, <1>7, <1>8, <1>9, <1>10, AllBits

\* The digits of the op-codes that select an instruction of the first bank.
MainCode(r, x, y, z) ==
  LET takes(e, x1, y1, z1) == r.exec = e => x = x1 /\ y = y1 /\ z = z1
      pairs(e, x1, odd, z1) == r.exec = e => x = x1 /\ y % 2 = odd /\ z = z1 /\ r.shift = 4
      eight(e, x1, z1) == r.exec = e => x = x1 /\ z = z1 /\ r.shift = 3
  IN /\ takes("nop", 0, 0, 0) /\ takes("ld_imm16mem_sp", 0, 1, 0) /\ takes("jr_imm8", 0, 3, 0)
     /\ takes("daa", 0, 4, 7) /\ takes("cpl", 0, 5, 7) /\ takes("scf", 0, 6, 7)
     /\ takes("ccf", 0, 7, 7)
     /\ r.exec = "jr_cond_imm8" => x = 0 /\ y > 3 /\ z = 0 /\ r.shift = 3
     /\ pairs("ld_r16_imm16", 0, 0, 1) /\ pairs("add_hl_r16", 0, 1, 1)
     /\ pairs("ld_r16mem_a", 0, 0, 2) /\ pairs("ld_a_r16mem", 0, 1, 2)
     /\ pairs("inc_r16", 0, 0, 3) /\ pairs("dec_r16", 0, 1, 3)
     /\ eight("inc_r8", 0, 4) /\ eight("dec_r8", 0, 5) /\ eight("ld_r8_imm8", 0, 6)
     /\ r.exec = "rotate_a" => x = 0 /\ y < 4 /\ z = 7 /\ r.op = twiddle_ops[y + 1]
     /\ r.exec = "ld_r8_r8" => x = 1 /\ r.shift = 0
     /\ r.exec = "op_a_r8" => x = 2 /\ r.shift = 0 /\ r.op = alu_ops[y + 1]
     /\ r.exec = "op_a_imm8" => x = 3 /\ z = 6 /\ r.op = alu_ops[y + 1]
     /\ r.exec = "ret_cond" => x = 3 /\ y < 4 /\ z = 0 /\ r.shift = 3
     /\ r.exec = "jp" => x = 3 /\ \/ y = 0 /\ z = 3 /\ r.op = "NONE"
                                  \/ y < 4 /\ z = 2 /\ r.op = "check_cond" /\ r.shift = 3
     /\ r.exec = "call" => x = 3 /\ \/ y = 1 /\ z = 5 /\ r.op = "NONE"
                                    \/ y < 4 /\ z = 4 /\ r.op = "check_cond" /\ r.shift = 3
     /\ pairs("pop_r16", 3, 0, 1) /\ pairs("push_r16", 3, 0, 5) /\ eight("rst_tgt3", 3, 7)
     /\ takes("ret", 3, 1, 1) /\ takes("jp_hl", 3, 5, 1) /\ takes("ld_sp_hl", 3, 7, 1)
     /\ takes("ldh_imm8mem_a", 3, 4, 0) /\ takes("add_sp_imm8", 3, 5, 0)
     /\ takes("ldh_a_imm8mem", 3, 6, 0) /\ takes("ld_hl_sp_plus_imm8", 3, 7, 0)
     /\ takes("ldh_cmem_a", 3, 4, 2) /\ takes("ld_imm16mem_a", 3, 5, 2)
     /\ takes("ldh_a_cmem", 3, 6, 2) /\ takes("ld_a_imm16mem", 3, 7, 2)
     /\ takes("cb_bank_switch", 3, 1, 3)

\* Those of the second bank.
CbCode(r, x, y, z) ==
  /\ r.exec = "bit_twiddle_r8" => x = 0 /\ r.op = twiddle_ops[y + 1]
  /\ r.exec = "bit_b3_r8" => x = 1
  /\ r.exec = "res_set_b3_r8" => \/ x = 2 /\ r.op = "res_bit"
                                 \/ x = 3 /\ r.op = "set_bit"

\* What is left of an op-code under the mask of an instruction.
OperandBits(r) == operand_op_code_bits(r.operand1) + operand_op_code_bits(r.operand2)
Rest(r, x, y, z) ==
  CASE OperandBits(r) = 0 -> 64 * x + 8 * y + z
    [] OperandBits(r) = 2 /\ r.shift = 3 -> 64 * x + 32 * (y \div 4) + z
    [] OperandBits(r) = 2 /\ r.shift = 4 -> 64 * x + 8 * (y % 2) + z
    [] OperandBits(r) = 3 /\ r.shift = 3 -> 64 * x + z
    [] OperandBits(r) = 3 /\ r.shift = 0 -> 64 * x + 8 * y
    [] OperandBits(r) = 6 /\ r.shift = 0 -> 64 * x

InTable(r) ==
  /\ r.shift \in {0, 3, 4}
  /\ \/ OperandBits(r) = 0
     \/ OperandBits(r) = 2 /\ r.shift \in {3, 4}
     \/ OperandBits(r) = 3 /\ r.shift \in {0, 3}
     \/ OperandBits(r) = 6 /\ r.shift = 0

LEMMA RowDigits ==
  ASSUME NEW r, InTable(r),
         NEW b \in Bytes, Matches(b, r), NEW x, NEW y, NEW z, Octal(b, x, y, z)
  PROVE  Rest(r, x, y, z) = r.op_code
<1>1. and(b, op_code_mask(r)) = r.op_code /\ b = 64 * x + 8 * y + z
  BY DEF Matches, Octal
<1>2. /\ OperandBits(r) = 0 => op_code_mask(r) = 255
      /\ OperandBits(r) = 2 /\ r.shift = 3 => op_code_mask(r) = 231
      /\ OperandBits(r) = 2 /\ r.shift = 4 => op_code_mask(r) = 207
      /\ OperandBits(r) = 3 /\ r.shift = 3 => op_code_mask(r) = 199
      /\ OperandBits(r) = 3 /\ r.shift = 0 => op_code_mask(r) = 248
      /\ OperandBits(r) = 6 /\ r.shift = 0 => op_code_mask(r) = 192
  BY Masks DEF OperandBits, InTable
<1> QED BY <1>1, <1>2, MaskDigits DEF Rest, InTable

LEMMA LowCodes ==
  ASSUME NEW i \in 1 .. 23, NEW r, r = instructions_low[i],
         NEW b \in Bytes, Matches(b, r), NEW x, NEW y, NEW z, Octal(b, x, y, z)
  PROVE  MainCode(r, x, y, z)
<1>0. x \in 0 .. 3 /\ y \in 0 .. 7 /\ z \in 0 .. 7
  BY DEF Octal
<1>a. InTable(r) => Rest(r, x, y, z) = r.op_code
  BY RowDigits
<1>1. CASE i = 1
  <2>1. r = Row(0, "NONE", "NONE", 0, "nop", "NONE")
    BY <1>1 DEF instructions_low
  <2>2. /\ r.op_code = 0 /\ r.operand1 = "NONE" /\ r.operand2 = "NONE"
        /\ r.shift = 0 /\ r.exec = "nop" /\ r.op = "NONE"
    BY <2>1, RowFields
  <2>3. OperandBits(r) = 0
    BY <2>2, OperandFacts DEF OperandBits
  <2>4. Rest(r, x, y, z) = 0
    BY <1>a, <2>2, <2>3 DEF InTable
  <2>5. x = 0 /\ y = 0 /\ z = 0
    BY <1>0, <2>2, <2>3, <2>4 DEF Rest
  <2> QED BY <1>0, <2>2, <2>5 DEF MainCode, twiddle_ops
<1>2. CASE i = 2
  <2>1. r = Row(1, "R16", "IMM16", 4, "ld_r16_imm16", "NONE")
    BY <1>2 DEF instructions_low
  <2>2. /\ r.op_code = 1 /\ r.operand1 = "R16" /\ r.operand2 = "IMM16"
        /\ r.shift = 4 /\ r.exec = "ld_r16_imm16" /\ r.op = "NONE"
    BY <2>1, RowFields
  <2>3. OperandBits(r) = 2
    BY <2>2, OperandFacts DEF OperandBits
  <2>4. Rest(r, x, y, z) = 1
    BY <1>a, <2>2, <2>3 DEF InTable
  <2>5. x = 0 /\ y % 2 = 0 /\ z = 1
    BY <1>0, <2>2, <2>3, <2>4 DEF Rest
  <2> QED BY <1>0, <2>2, <2>5 DEF MainCode, twiddle_ops
<1>3. CASE i = 3
  <2>1. r = Row(2, "R16MEM", "A", 4, "ld_r16mem_a", "NONE")
    BY <1>3 DEF instructions_low
  <2>2. /\ r.op_code = 2 /\ r.operand1 = "R16MEM" /\ r.operand2 = "A"
        /\ r.shift = 4 /\ r.exec = "ld_r16mem_a" /\ r.op = "NONE"
    BY <2>1, RowFields
  <2>3. OperandBits(r) = 2
    BY <2>2, OperandFacts DEF OperandBits
  <2>4. Rest(r, x, y, z) = 2
    BY <1>a, <2>2, <2>3 DEF InTable
  <2>5. x = 0 /\ y % 2 = 0 /\ z = 2
    BY <1>0, <2>2, <2>3, <2>4 DEF Rest
  <2> QED BY <1>0, <2>2, <2>5 DEF MainCode, twiddle_ops
<1>4. CASE i = 4
  <2>1. r = Row(10, "A", "R16MEM", 4, "ld_a_r16mem", "NONE")
    BY <1>4 DEF instructions_low
  <2>2. /\ r.op_code = 10 /\ r.operand1 = "A" /\ r.operand2 = "R16MEM"
        /\ r.shift = 4 /\ r.exec = "ld_a_r16mem" /\ r.op = "NONE"
    BY <2>1, RowFields
  <2>3. OperandBits(r) = 2
    BY <2>2, OperandFacts DEF OperandBits
  <2>4. Rest(r, x, y, z) = 10
    BY <1>a, <2>2, <2>3 DEF InTable
  <2>5. x = 0 /\ y % 2 = 1 /\ z = 2
    BY <1>0, <2>2, <2>3, <2>4 DEF Rest
  <2> QED BY <1>0, <2>2, <2>5 DEF MainCode, twiddle_ops
<1>5. CASE i = 5
  <2>1. r = Row(8, "IMM16MEM", "SP", 0, "ld_imm16mem_sp", "NONE")
    BY <1>5 DEF instructions_low
  <2>2. /\ r.op_code = 8 /\ r.operand1 = "IMM16MEM" /\ r.operand2 = "SP"
        /\ r.shift = 0 /\ r.exec = "ld_imm16mem_sp" /\ r.op = "NONE"
    BY <2>1, RowFields
  <2>3. OperandBits(r) = 0
    BY <2>2, OperandFacts DEF OperandBits
  <2>4. Rest(r, x, y, z) = 8
    BY <1>a, <2>2, <2>3 DEF InTable
  <2>5. x = 0 /\ y = 1 /\ z = 0
    BY <1>0, <2>2, <2>3, <2>4 DEF Rest
  <2> QED BY <1>0, <2>2, <2>5 DEF MainCode, twiddle_ops
<1>6. CASE i = 6
  <2>1. r = Row(3, "R16", "NONE", 4, "inc_r16", "NONE")
    BY <1>6 DEF instructions_low
  <2>2. /\ r.op_code = 3 /\ r.operand1 = "R16" /\ r.operand2 = "NONE"
        /\ r.shift = 4 /\ r.exec = "inc_r16" /\ r.op = "NONE"
    BY <2>1, RowFields
  <2>3. OperandBits(r) = 2
    BY <2>2, OperandFacts DEF OperandBits
  <2>4. Rest(r, x, y, z) = 3
    BY <1>a, <2>2, <2>3 DEF InTable
  <2>5. x = 0 /\ y % 2 = 0 /\ z = 3
    BY <1>0, <2>2, <2>3, <2>4 DEF Rest
  <2> QED BY <1>0, <2>2, <2>5 DEF MainCode, twiddle_ops
<1>7. CASE i = 7
  <2>1. r = Row(11, "R16", "NONE", 4, "dec_r16", "NONE")
    BY <1>7 DEF instructions_low
  <2>2. /\ r.op_code = 11 /\ r.operand1 = "R16" /\ r.operand2 = "NONE"
        /\ r.shift = 4 /\ r.exec = "dec_r16" /\ r.op = "NONE"
    BY <2>1, RowFields
  <2>3. OperandBits(r) = 2
    BY <2>2, OperandFacts DEF OperandBits
  <2>4. Rest(r, x, y, z) = 11
    BY <1>a, <2>2, <2>3 DEF InTable
  <2>5. x = 0 /\ y % 2 = 1 /\ z = 3
    BY <1>0, <2>2, <2>3, <2>4 DEF Rest
  <2> QED BY <1>0, <2>2, <2>5 DEF MainCode, twiddle_ops
<1>8. CASE i = 8
  <2>1. r = Row(9, "HL", "R16", 4, "add_hl_r16", "NONE")
    BY <1>8 DEF instructions_low
  <2>2. /\ r.op_code = 9 /\ r.operand1 = "HL" /\ r.operand2 = "R16"
        /\ r.shift = 4 /\ r.exec = "add_hl_r16" /\ r.op = "NONE"
    BY <2>1, RowFields
  <2>3. OperandBits(r) = 2
    BY <2>2, OperandFacts DEF OperandBits
  <2>4. Rest(r, x, y, z) = 9
    BY <1>a, <2>2, <2>3 DEF InTable
  <2>5. x = 0 /\ y % 2 = 1 /\ z = 1
    BY <1>0, <2>2, <2>3, <2>4 DEF Rest
  <2> QED BY <1>0, <2>2, <2>5 DEF MainCode, twiddle_ops
<1>9. CASE i = 9
  <2>1. r = Row(4, "R8", "NONE", 3, "inc_r8", "NONE")
    BY <1>9 DEF instructions_low
  <2>2. /\ r.op_code = 4 /\ r.operand1 = "R8" /\ r.operand2 = "NONE"
        /\ r.shift = 3 /\ r.exec = "inc_r8" /\ r.op = "NONE"
    BY <2>1, RowFields
  <2>3. OperandBits(r) = 3
    BY <2>2, OperandFacts DEF OperandBits
  <2>4. Rest(r, x, y, z) = 4
    BY <1>a, <2>2, <2>3 DEF InTable
  <2>5. x = 0 /\ z = 4
    BY <1>0, <2>2, <2>3, <2>4 DEF Rest
  <2> QED BY <1>0, <2>2, <2>5 DEF MainCode, twiddle_ops
<1>10. CASE i = 10
  <2>1. r = Row(5, "R8", "NONE", 3, "dec_r8", "NONE")
    BY <1>10 DEF instructions_low
  <2>2. /\ r.op_code = 5 /\ r.operand1 = "R8" /\ r.operand2 = "NONE"
        /\ r.shift = 3 /\ r.exec = "dec_r8" /\ r.op = "NONE"
    BY <2>1, RowFields
  <2>3. OperandBits(r) = 3
    BY <2>2, OperandFacts DEF OperandBits
  <2>4. Rest(r, x, y, z) = 5
    BY <1>a, <2>2, <2>3 DEF InTable
  <2>5. x = 0 /\ z = 5
    BY <1>0, <2>2, <2>3, <2>4 DEF Rest
  <2> QED BY <1>0, <2>2, <2>5 DEF MainCode, twiddle_ops
<1>11. CASE i = 11
  <2>1. r = Row(6, "R8", "IMM8", 3, "ld_r8_imm8", "NONE")
    BY <1>11 DEF instructions_low
  <2>2. /\ r.op_code = 6 /\ r.operand1 = "R8" /\ r.operand2 = "IMM8"
        /\ r.shift = 3 /\ r.exec = "ld_r8_imm8" /\ r.op = "NONE"
    BY <2>1, RowFields
  <2>3. OperandBits(r) = 3
    BY <2>2, OperandFacts DEF OperandBits
  <2>4. Rest(r, x, y, z) = 6
    BY <1>a, <2>2, <2>3 DEF InTable
  <2>5. x = 0 /\ z = 6
    BY <1>0, <2>2, <2>3, <2>4 DEF Rest
  <2> QED BY <1>0, <2>2, <2>5 DEF MainCode, twiddle_ops
<1>12. CASE i = 12
  <2>1. r = Row(7, "NONE", "NONE", 0, "rotate_a", "rlc")
    BY <1>12 DEF instructions_low
  <2>2. /\ r.op_code = 7 /\ r.operand1 = "NONE" /\ r.operand2 = "NONE"
        /\ r.shift = 0 /\ r.exec = "rotate_a" /\ r.op = "rlc"
    BY <2>1, RowFields
  <2>3. OperandBits(r) = 0
    BY <2>2, OperandFacts DEF OperandBits
  <2>4. Rest(r, x, y, z) = 7
    BY <1>a, <2>2, <2>3 DEF InTable
  <2>5. x = 0 /\ y = 0 /\ z = 7
    BY <1>0, <2>2, <2>3, <2>4 DEF Rest
  <2> QED BY <1>0, <2>2, <2>5 DEF MainCode, twiddle_ops
<1>13. CASE i = 13
  <2>1. r = Row(15, "NONE", "NONE", 0, "rotate_a", "rrc")
    BY <1>13 DEF instructions_low
  <2>2. /\ r.op_code = 15 /\ r.operand1 = "NONE" /\ r.operand2 = "NONE"
        /\ r.shift = 0 /\ r.exec = "rotate_a" /\ r.op = "rrc"
    BY <2>1, RowFields
  <2>3. OperandBits(r) = 0
    BY <2>2, OperandFacts DEF OperandBits
  <2>4. Rest(r, x, y, z) = 15
    BY <1>a, <2>2, <2>3 DEF InTable
  <2>5. x = 0 /\ y = 1 /\ z = 7
    BY <1>0, <2>2, <2>3, <2>4 DEF Rest
  <2> QED BY <1>0, <2>2, <2>5 DEF MainCode, twiddle_ops
<1>14. CASE i = 14
  <2>1. r = Row(23, "NONE", "NONE", 0, "rotate_a", "rl")
    BY <1>14 DEF instructions_low
  <2>2. /\ r.op_code = 23 /\ r.operand1 = "NONE" /\ r.operand2 = "NONE"
        /\ r.shift = 0 /\ r.exec = "rotate_a" /\ r.op = "rl"
    BY <2>1, RowFields
  <2>3. OperandBits(r) = 0
    BY <2>2, OperandFacts DEF OperandBits
  <2>4. Rest(r, x, y, z) = 23
    BY <1>a, <2>2, <2>3 DEF InTable
  <2>5. x = 0 /\ y = 2 /\ z = 7
    BY <1>0, <2>2, <2>3, <2>4 DEF Rest
  <2> QED BY <1>0, <2>2, <2>5 DEF MainCode, twiddle_ops
<1>15. CASE i = 15
  <2>1. r = Row(31, "NONE", "NONE", 0, "rotate_a", "rr")
    BY <1>15 DEF instructions_low
  <2>2. /\ r.op_code = 31 /\ r.operand1 = "NONE" /\ r.operand2 = "NONE"
        /\ r.shift = 0 /\ r.exec = "rotate_a" /\ r.op = "rr"
    BY <2>1, RowFields
  <2>3. OperandBits(r) = 0
    BY <2>2, OperandFacts DEF OperandBits
  <2>4. Rest(r, x, y, z) = 31
    BY <1>a, <2>2, <2>3 DEF InTable
  <2>5. x = 0 /\ y = 3 /\ z = 7
    BY <1>0, <2>2, <2>3, <2>4 DEF Rest
  <2> QED BY <1>0, <2>2, <2>5 DEF MainCode, twiddle_ops
<1>16. CASE i = 16
  <2>1. r = Row(39, "NONE", "NONE", 0, "daa", "NONE")
    BY <1>16 DEF instructions_low
  <2>2. /\ r.op_code = 39 /\ r.operand1 = "NONE" /\ r.operand2 = "NONE"
        /\ r.shift = 0 /\ r.exec = "daa" /\ r.op = "NONE"
    BY <2>1, RowFields
  <2>3. OperandBits(r) = 0
    BY <2>2, OperandFacts DEF OperandBits
  <2>4. Rest(r, x, y, z) = 39
    BY <1>a, <2>2, <2>3 DEF InTable
  <2>5. x = 0 /\ y = 4 /\ z = 7
    BY <1>0, <2>2, <2>3, <2>4 DEF Rest
  <2> QED BY <1>0, <2>2, <2>5 DEF MainCode, twiddle_ops
<1>17. CASE i = 17
  <2>1. r = Row(47, "NONE", "NONE", 0, "cpl", "NONE")
    BY <1>17 DEF instructions_low
  <2>2. /\ r.op_code = 47 /\ r.operand1 = "NONE" /\ r.operand2 = "NONE"
        /\ r.shift = 0 /\ r.exec = "cpl" /\ r.op = "NONE"
    BY <2>1, RowFields
  <2>3. OperandBits(r) = 0
    BY <2>2, OperandFacts DEF OperandBits
  <2>4. Rest(r, x, y, z) = 47
    BY <1>a, <2>2, <2>3 DEF InTable
  <2>5. x = 0 /\ y = 5 /\ z = 7
    BY <1>0, <2>2, <2>3, <2>4 DEF Rest
  <2> QED BY <1>0, <2>2, <2>5 DEF MainCode, twiddle_ops
<1>18. CASE i = 18
  <2>1. r = Row(55, "NONE", "NONE", 0, "scf", "NONE")
    BY <1>18 DEF instructions_low
  <2>2. /\ r.op_code = 55 /\ r.operand1 = "NONE" /\ r.operand2 = "NONE"
        /\ r.shift = 0 /\ r.exec = "scf" /\ r.op = "NONE"
    BY <2>1, RowFields
  <2>3. OperandBits(r) = 0
    BY <2>2, OperandFacts DEF OperandBits
  <2>4. Rest(r, x, y, z) = 55
    BY <1>a, <2>2, <2>3 DEF InTable
  <2>5. x = 0 /\ y = 6 /\ z = 7
    BY <1>0, <2>2, <2>3, <2>4 DEF Rest
  <2> QED BY <1>0, <2>2, <2>5 DEF MainCode, twiddle_ops
<1>19. CASE i = 19
  <2>1. r = Row(63, "NONE", "NONE", 0, "ccf", "NONE")
    BY <1>19 DEF instructions_low
  <2>2. /\ r.op_code = 63 /\ r.operand1 = "NONE" /\ r.operand2 = "NONE"
        /\ r.shift = 0 /\ r.exec = "ccf" /\ r.op = "NONE"
    BY <2>1, RowFields
  <2>3. OperandBits(r) = 0
    BY <2>2, OperandFacts DEF OperandBits
  <2>4. Rest(r, x, y, z) = 63
    BY <1>a, <2>2, <2>3 DEF InTable
  <2>5. x = 0 /\ y = 7 /\ z = 7
    BY <1>0, <2>2, <2>3, <2>4 DEF Rest
  <2> QED BY <1>0, <2>2, <2>5 DEF MainCode, twiddle_ops
<1>20. CASE i = 20
  <2>1. r = Row(24, "IMM8_OFFSET", "NONE", 0, "jr_imm8", "NONE")
    BY <1>20 DEF instructions_low
  <2>2. /\ r.op_code = 24 /\ r.operand1 = "IMM8_OFFSET" /\ r.operand2 = "NONE"
        /\ r.shift = 0 /\ r.exec = "jr_imm8" /\ r.op = "NONE"
    BY <2>1, RowFields
  <2>3. OperandBits(r) = 0
    BY <2>2, OperandFacts DEF OperandBits
  <2>4. Rest(r, x, y, z) = 24
    BY <1>a, <2>2, <2>3 DEF InTable
  <2>5. x = 0 /\ y = 3 /\ z = 0
    BY <1>0, <2>2, <2>3, <2>4 DEF Rest
  <2> QED BY <1>0, <2>2, <2>5 DEF MainCode, twiddle_ops
<1>21. CASE i = 21
  <2>1. r = Row(32, "COND", "IMM8_OFFSET", 3, "jr_cond_imm8", "NONE")
    BY <1>21 DEF instructions_low
  <2>2. /\ r.op_code = 32 /\ r.operand1 = "COND" /\ r.operand2 = "IMM8_OFFSET"
        /\ r.shift = 3 /\ r.exec = "jr_cond_imm8" /\ r.op = "NONE"
    BY <2>1, RowFields
  <2>3. OperandBits(r) = 2
    BY <2>2, OperandFacts DEF OperandBits
  <2>4. Rest(r, x, y, z) = 32
    BY <1>a, <2>2, <2>3 DEF InTable
  <2>5. x = 0 /\ y \div 4 = 1 /\ z = 0
    BY <1>0, <2>2, <2>3, <2>4 DEF Rest
  <2> QED BY <1>0, <2>2, <2>5 DEF MainCode, twiddle_ops
<1>22. CASE i = 22
  <2>1. r = Row(16, "IMM8", "NONE", 0, "stop", "NONE")
    BY <1>22 DEF instructions_low
  <2>2. /\ r.op_code = 16 /\ r.operand1 = "IMM8" /\ r.operand2 = "NONE"
        /\ r.shift = 0 /\ r.exec = "stop" /\ r.op = "NONE"
    BY <2>1, RowFields
  <2>3. OperandBits(r) = 0
    BY <2>2, OperandFacts DEF OperandBits
  <2>4. Rest(r, x, y, z) = 16
    BY <1>a, <2>2, <2>3 DEF InTable
  <2>5. x = 0 /\ y = 2 /\ z = 0
    BY <1>0, <2>2, <2>3, <2>4 DEF Rest
  <2> QED BY <1>0, <2>2, <2>5 DEF MainCode, twiddle_ops
<1>23. CASE i = 23
  <2>1. r = Row(118, "NONE", "NONE", 0, "halt", "NONE")
    BY <1>23 DEF instructions_low
  <2>2. /\ r.op_code = 118 /\ r.operand1 = "NONE" /\ r.operand2 = "NONE"
        /\ r.shift = 0 /\ r.exec = "halt" /\ r.op = "NONE"
    BY <2>1, RowFields
  <2>3. OperandBits(r) = 0
    BY <2>2, OperandFacts DEF OperandBits
  <2>4. Rest(r, x, y, z) = 118
    BY <1>a, <2>2, <2>3 DEF InTable
  <2>5. x = 1 /\ y = 6 /\ z = 6
    BY <1>0, <2>2, <2>3, <2>4 DEF Rest
  <2> QED BY <1>0, <2>2, <2>5 DEF MainCode, twiddle_ops
<1> QED BY <1>1, <1>2, <1>3, <1>4, <1>5, <1>6, <1>7, <1>8, <1>9, <1>10, <1>11, <1>12, <1>13, <1>14, <1>15, <1>16, <1>17, <1>18, <1>19, <1>20, <1>21, <1>22, <1>23

LEMMA HighCodes ==
  ASSUME NEW i \in 1 .. 23, NEW r, r = instructions_high[i],
         NEW b \in Bytes, Matches(b, r), NEW x, NEW y, NEW z, Octal(b, x, y, z)
  PROVE  MainCode(r, x, y, z)
<1>0. x \in 0 .. 3 /\ y \in 0 .. 7 /\ z \in 0 .. 7
  BY DEF Octal
<1>a. InTable(r) => Rest(r, x, y, z) = r.op_code
  BY RowDigits
<1>1. CASE i = 1
  <2>1. r = Row(192, "COND", "NONE", 3, "ret_cond", "NONE")
    BY <1>1 DEF instructions_high
  <2>2. /\ r.op_code = 192 /\ r.operand1 = "COND" /\ r.operand2 = "NONE"
        /\ r.shift = 3 /\ r.exec = "ret_cond" /\ r.op = "NONE"
    BY <2>1, RowFields
  <2>3. OperandBits(r) = 2
    BY <2>2, OperandFacts DEF OperandBits
  <2>4. Rest(r, x, y, z) = 192
    BY <1>a, <2>2, <2>3 DEF InTable
  <2>5. x = 3 /\ y \div 4 = 0 /\ z = 0
    BY <1>0, <2>2, <2>3, <2>4 DEF Rest
  <2> QED BY <1>0, <2>2, <2>5 DEF MainCode, twiddle_ops
<1>2. CASE i = 2
  <2>1. r = Row(201, "NONE", "NONE", 0, "ret", "NONE")
    BY <1>2 DEF instructions_high
  <2>2. /\ r.op_code = 201 /\ r.operand1 = "NONE" /\ r.operand2 = "NONE"
        /\ r.shift = 0 /\ r.exec = "ret" /\ r.op = "NONE"
    BY <2>1, RowFields
  <2>3. OperandBits(r) = 0
    BY <2>2, OperandFacts DEF OperandBits
  <2>4. Rest(r, x, y, z) = 201
    BY <1>a, <2>2, <2>3 DEF InTable
  <2>5. x = 3 /\ y = 1 /\ z = 1
    BY <1>0, <2>2, <2>3, <2>4 DEF Rest
  <2> QED BY <1>0, <2>2, <2>5 DEF MainCode, twiddle_ops
<1>3. CASE i = 3
  <2>1. r = Row(217, "NONE", "NONE", 0, "reti", "NONE")
    BY <1>3 DEF instructions_high
  <2>2. /\ r.op_code = 217 /\ r.operand1 = "NONE" /\ r.operand2 = "NONE"
        /\ r.shift = 0 /\ r.exec = "reti" /\ r.op = "NONE"
    BY <2>1, RowFields
  <2>3. OperandBits(r) = 0
    BY <2>2, OperandFacts DEF OperandBits
  <2>4. Rest(r, x, y, z) = 217
    BY <1>a, <2>2, <2>3 DEF InTable
  <2>5. x = 3 /\ y = 3 /\ z = 1
    BY <1>0, <2>2, <2>3, <2>4 DEF Rest
  <2> QED BY <1>0, <2>2, <2>5 DEF MainCode, twiddle_ops
<1>4. CASE i = 4
  <2>1. r = Row(194, "COND", "IMM16ADDR", 3, "jp", "check_cond")
    BY <1>4 DEF instructions_high
  <2>2. /\ r.op_code = 194 /\ r.operand1 = "COND" /\ r.operand2 = "IMM16ADDR"
        /\ r.shift = 3 /\ r.exec = "jp" /\ r.op = "check_cond"
    BY <2>1, RowFields
  <2>3. OperandBits(r) = 2
    BY <2>2, OperandFacts DEF OperandBits
  <2>4. Rest(r, x, y, z) = 194
    BY <1>a, <2>2, <2>3 DEF InTable
  <2>5. x = 3 /\ y \div 4 = 0 /\ z = 2
    BY <1>0, <2>2, <2>3, <2>4 DEF Rest
  <2> QED BY <1>0, <2>2, <2>5 DEF MainCode, twiddle_ops
<1>5. CASE i = 5
  <2>1. r = Row(195, "IMM16ADDR", "NONE", 0, "jp", "NONE")
    BY <1>5 DEF instructions_high
  <2>2. /\ r.op_code = 195 /\ r.operand1 = "IMM16ADDR" /\ r.operand2 = "NONE"
        /\ r.shift = 0 /\ r.exec = "jp" /\ r.op = "NONE"
    BY <2>1, RowFields
  <2>3. OperandBits(r) = 0
    BY <2>2, OperandFacts DEF OperandBits
  <2>4. Rest(r, x, y, z) = 195
    BY <1>a, <2>2, <2>3 DEF InTable
  <2>5. x = 3 /\ y = 0 /\ z = 3
    BY <1>0, <2>2, <2>3, <2>4 DEF Rest
  <2> QED BY <1>0, <2>2, <2>5 DEF MainCode, twiddle_ops
<1>6. CASE i = 6
  <2>1. r = Row(233, "HL", "NONE", 0, "jp_hl", "NONE")
    BY <1>6 DEF instructions_high
  <2>2. /\ r.op_code = 233 /\ r.operand1 = "HL" /\ r.operand2 = "NONE"
        /\ r.shift = 0 /\ r.exec = "jp_hl" /\ r.op = "NONE"
    BY <2>1, RowFields
  <2>3. OperandBits(r) = 0
    BY <2>2, OperandFacts DEF OperandBits
  <2>4. Rest(r, x, y, z) = 233
    BY <1>a, <2>2, <2>3 DEF InTable
  <2>5. x = 3 /\ y = 5 /\ z = 1
    BY <1>0, <2>2, <2>3, <2>4 DEF Rest
  <2> QED BY <1>0, <2>2, <2>5 DEF MainCode, twiddle_ops
<1>7. CASE i = 7
  <2>1. r = Row(196, "COND", "IMM16ADDR", 3, "call", "check_cond")
    BY <1>7 DEF instructions_high
  <2>2. /\ r.op_code = 196 /\ r.operand1 = "COND" /\ r.operand2 = "IMM16ADDR"
        /\ r.shift = 3 /\ r.exec = "call" /\ r.op = "check_cond"
    BY <2>1, RowFields
  <2>3. OperandBits(r) = 2
    BY <2>2, OperandFacts DEF OperandBits
  <2>4. Rest(r, x, y, z) = 196
    BY <1>a, <2>2, <2>3 DEF InTable
  <2>5. x = 3 /\ y \div 4 = 0 /\ z = 4
    BY <1>0, <2>2, <2>3, <2>4 DEF Rest
  <2> QED BY <1>0, <2>2, <2>5 DEF MainCode, twiddle_ops
<1>8. CASE i = 8
  <2>1. r = Row(205, "IMM16ADDR", "NONE", 0, "call", "NONE")
    BY <1>8 DEF instructions_high
  <2>2. /\ r.op_code = 205 /\ r.operand1 = "IMM16ADDR" /\ r.operand2 = "NONE"
        /\ r.shift = 0 /\ r.exec = "call" /\ r.op = "NONE"
    BY <2>1, RowFields
  <2>3. OperandBits(r) = 0
    BY <2>2, OperandFacts DEF OperandBits
  <2>4. Rest(r, x, y, z) = 205
    BY <1>a, <2>2, <2>3 DEF InTable
  <2>5. x = 3 /\ y = 1 /\ z = 5
    BY <1>0, <2>2, <2>3, <2>4 DEF Rest
  <2> QED BY <1>0, <2>2, <2>5 DEF MainCode, twiddle_ops
<1>9. CASE i = 9
  <2>1. r = Row(199, "TGT3", "NONE", 3, "rst_tgt3", "NONE")
    BY <1>9 DEF instructions_high
  <2>2. /\ r.op_code = 199 /\ r.operand1 = "TGT3" /\ r.operand2 = "NONE"
        /\ r.shift = 3 /\ r.exec = "rst_tgt3" /\ r.op = "NONE"
    BY <2>1, RowFields
  <2>3. OperandBits(r) = 3
    BY <2>2, OperandFacts DEF OperandBits
  <2>4. Rest(r, x, y, z) = 199
    BY <1>a, <2>2, <2>3 DEF InTable
  <2>5. x = 3 /\ z = 7
    BY <1>0, <2>2, <2>3, <2>4 DEF Rest
  <2> QED BY <1>0, <2>2, <2>5 DEF MainCode, twiddle_ops
<1>10. CASE i = 10
  <2>1. r = Row(193, "R16STK", "NONE", 4, "pop_r16", "NONE")
    BY <1>10 DEF instructions_high
  <2>2. /\ r.op_code = 193 /\ r.operand1 = "R16STK" /\ r.operand2 = "NONE"
        /\ r.shift = 4 /\ r.exec = "pop_r16" /\ r.op = "NONE"
    BY <2>1, RowFields
  <2>3. OperandBits(r) = 2
    BY <2>2, OperandFacts DEF OperandBits
  <2>4. Rest(r, x, y, z) = 193
    BY <1>a, <2>2, <2>3 DEF InTable
  <2>5. x = 3 /\ y % 2 = 0 /\ z = 1
    BY <1>0, <2>2, <2>3, <2>4 DEF Rest
  <2> QED BY <1>0, <2>2, <2>5 DEF MainCode, twiddle_ops
<1>11. CASE i = 11
  <2>1. r = Row(197, "R16STK", "NONE", 4, "push_r16", "NONE")
    BY <1>11 DEF instructions_high
  <2>2. /\ r.op_code = 197 /\ r.operand1 = "R16STK" /\ r.operand2 = "NONE"
        /\ r.shift = 4 /\ r.exec = "push_r16" /\ r.op = "NONE"
    BY <2>1, RowFields
  <2>3. OperandBits(r) = 2
    BY <2>2, OperandFacts DEF OperandBits
  <2>4. Rest(r, x, y, z) = 197
    BY <1>a, <2>2, <2>3 DEF InTable
  <2>5. x = 3 /\ y % 2 = 0 /\ z = 5
    BY <1>0, <2>2, <2>3, <2>4 DEF Rest
  <2> QED BY <1>0, <2>2, <2>5 DEF MainCode, twiddle_ops
<1>12. CASE i = 12
  <2>1. r = Row(226, "CMEM", "A", 0, "ldh_cmem_a", "NONE")
    BY <1>12 DEF instructions_high
  <2>2. /\ r.op_code = 226 /\ r.operand1 = "CMEM" /\ r.operand2 = "A"
        /\ r.shift = 0 /\ r.exec = "ldh_cmem_a" /\ r.op = "NONE"
    BY <2>1, RowFields
  <2>3. OperandBits(r) = 0
    BY <2>2, OperandFacts DEF OperandBits
  <2>4. Rest(r, x, y, z) = 226
    BY <1>a, <2>2, <2>3 DEF InTable
  <2>5. x = 3 /\ y = 4 /\ z = 2
    BY <1>0, <2>2, <2>3, <2>4 DEF Rest
  <2> QED BY <1>0, <2>2, <2>5 DEF MainCode, twiddle_ops
<1>13. CASE i = 13
  <2>1. r = Row(224, "IMM8MEM", "A", 0, "ldh_imm8mem_a", "NONE")
    BY <1>13 DEF instructions_high
  <2>2. /\ r.op_code = 224 /\ r.operand1 = "IMM8MEM" /\ r.operand2 = "A"
        /\ r.shift = 0 /\ r.exec = "ldh_imm8mem_a" /\ r.op = "NONE"
    BY <2>1, RowFields
  <2>3. OperandBits(r) = 0
    BY <2>2, OperandFacts DEF OperandBits
  <2>4. Rest(r, x, y, z) = 224
    BY <1>a, <2>2, <2>3 DEF InTable
  <2>5. x = 3 /\ y = 4 /\ z = 0
    BY <1>0, <2>2, <2>3, <2>4 DEF Rest
  <2> QED BY <1>0, <2>2, <2>5 DEF MainCode, twiddle_ops
<1>14. CASE i = 14
  <2>1. r = Row(234, "IMM16MEM", "A", 0, "ld_imm16mem_a", "NONE")
    BY <1>14 DEF instructions_high
  <2>2. /\ r.op_code = 234 /\ r.operand1 = "IMM16MEM" /\ r.operand2 = "A"
        /\ r.shift = 0 /\ r.exec = "ld_imm16mem_a" /\ r.op = "NONE"
    BY <2>1, RowFields
  <2>3. OperandBits(r) = 0
    BY <2>2, OperandFacts DEF OperandBits
  <2>4. Rest(r, x, y, z) = 234
    BY <1>a, <2>2, <2>3 DEF InTable
  <2>5. x = 3 /\ y = 5 /\ z = 2
    BY <1>0, <2>2, <2>3, <2>4 DEF Rest
  <2> QED BY <1>0, <2>2, <2>5 DEF MainCode, twiddle_ops
<1>15. CASE i = 15
  <2>1. r = Row(242, "A", "CMEM", 0, "ldh_a_cmem", "NONE")
    BY <1>15 DEF instructions_high
  <2>2. /\ r.op_code = 242 /\ r.operand1 = "A" /\ r.operand2 = "CMEM"
        /\ r.shift = 0 /\ r.exec = "ldh_a_cmem" /\ r.op = "NONE"
    BY <2>1, RowFields
  <2>3. OperandBits(r) = 0
    BY <2>2, OperandFacts DEF OperandBits
  <2>4. Rest(r, x, y, z) = 242
    BY <1>a, <2>2, <2>3 DEF InTable
  <2>5. x = 3 /\ y = 6 /\ z = 2
    BY <1>0, <2>2, <2>3, <2>4 DEF Rest
  <2> QED BY <1>0, <2>2, <2>5 DEF MainCode, twiddle_ops
<1>16. CASE i = 16
  <2>1. r = Row(240, "A", "IMM8MEM", 0, "ldh_a_imm8mem", "NONE")
    BY <1>16 DEF instructions_high
  <2>2. /\ r.op_code = 240 /\ r.operand1 = "A" /\ r.operand2 = "IMM8MEM"
        /\ r.shift = 0 /\ r.exec = "ldh_a_imm8mem" /\ r.op = "NONE"
    BY <2>1, RowFields
  <2>3. OperandBits(r) = 0
    BY <2>2, OperandFacts DEF OperandBits
  <2>4. Rest(r, x, y, z) = 240
    BY <1>a, <2>2, <2>3 DEF InTable
  <2>5. x = 3 /\ y = 6 /\ z = 0
    BY <1>0, <2>2, <2>3, <2>4 DEF Rest
  <2> QED BY <1>0, <2>2, <2>5 DEF MainCode, twiddle_ops
<1>17. CASE i = 17
  <2>1. r = Row(250, "A", "IMM16MEM", 0, "ld_a_imm16mem", "NONE")
    BY <1>17 DEF instructions_high
  <2>2. /\ r.op_code = 250 /\ r.operand1 = "A" /\ r.operand2 = "IMM16MEM"
        /\ r.shift = 0 /\ r.exec = "ld_a_imm16mem" /\ r.op = "NONE"
    BY <2>1, RowFields
  <2>3. OperandBits(r) = 0
    BY <2>2, OperandFacts DEF OperandBits
  <2>4. Rest(r, x, y, z) = 250
    BY <1>a, <2>2, <2>3 DEF InTable
  <2>5. x = 3 /\ y = 7 /\ z = 2
    BY <1>0, <2>2, <2>3, <2>4 DEF Rest
  <2> QED BY <1>0, <2>2, <2>5 DEF MainCode, twiddle_ops
<1>18. CASE i = 18
  <2>1. r = Row(232, "SP", "IMM8", 0, "add_sp_imm8", "NONE")
    BY <1>18 DEF instructions_high
  <2>2. /\ r.op_code = 232 /\ r.operand1 = "SP" /\ r.operand2 = "IMM8"
        /\ r.shift = 0 /\ r.exec = "add_sp_imm8" /\ r.op = "NONE"
    BY <2>1, RowFields
  <2>3. OperandBits(r) = 0
    BY <2>2, OperandFacts DEF OperandBits
  <2>4. Rest(r, x, y, z) = 232
    BY <1>a, <2>2, <2>3 DEF InTable
  <2>5. x = 3 /\ y = 5 /\ z = 0
    BY <1>0, <2>2, <2>3, <2>4 DEF Rest
  <2> QED BY <1>0, <2>2, <2>5 DEF MainCode, twiddle_ops
<1>19. CASE i = 19
  <2>1. r = Row(248, "HL", "SP_PLUS_IMM8", 0, "ld_hl_sp_plus_imm8", "NONE")
    BY <1>19 DEF instructions_high
  <2>2. /\ r.op_code = 248 /\ r.operand1 = "HL" /\ r.operand2 = "SP_PLUS_IMM8"
        /\ r.shift = 0 /\ r.exec = "ld_hl_sp_plus_imm8" /\ r.op = "NONE"
    BY <2>1, RowFields
  <2>3. OperandBits(r) = 0
    BY <2>2, OperandFacts DEF OperandBits
  <2>4. Rest(r, x, y, z) = 248
    BY <1>a, <2>2, <2>3 DEF InTable
  <2>5. x = 3 /\ y = 7 /\ z = 0
    BY <1>0, <2>2, <2>3, <2>4 DEF Rest
  <2> QED BY <1>0, <2>2, <2>5 DEF MainCode, twiddle_ops
<1>20. CASE i = 20
  <2>1. r = Row(249, "SP", "HL", 0, "ld_sp_hl", "NONE")
    BY <1>20 DEF instructions_high
  <2>2. /\ r.op_code = 249 /\ r.operand1 = "SP" /\ r.operand2 = "HL"
        /\ r.shift = 0 /\ r.exec = "ld_sp_hl" /\ r.op = "NONE"
    BY <2>1, RowFields
  <2>3. OperandBits(r) = 0
    BY <2>2, OperandFacts DEF OperandBits
  <2>4. Rest(r, x, y, z) = 249
    BY <1>a, <2>2, <2>3 DEF InTable
  <2>5. x = 3 /\ y = 7 /\ z = 1
    BY <1>0, <2>2, <2>3, <2>4 DEF Rest
  <2> QED BY <1>0, <2>2, <2>5 DEF MainCode, twiddle_ops
<1>21. CASE i = 21
  <2>1. r = Row(243, "NONE", "NONE", 0, "di", "NONE")
    BY <1>21 DEF instructions_high
  <2>2. /\ r.op_code = 243 /\ r.operand1 = "NONE" /\ r.operand2 = "NONE"
        /\ r.shift = 0 /\ r.exec = "di" /\ r.op = "NONE"
    BY <2>1, RowFields
  <2>3. OperandBits(r) = 0
    BY <2>2, OperandFacts DEF OperandBits
  <2>4. Rest(r, x, y, z) = 243
    BY <1>a, <2>2, <2>3 DEF InTable
  <2>5. x = 3 /\ y = 6 /\ z = 3
    BY <1>0, <2>2, <2>3, <2>4 DEF Rest
  <2> QED BY <1>0, <2>2, <2>5 DEF MainCode, twiddle_ops
<1>22. CASE i = 22
  <2>1. r = Row(251, "NONE", "NONE", 0, "ei", "NONE")
    BY <1>22 DEF instructions_high
  <2>2. /\ r.op_code = 251 /\ r.operand1 = "NONE" /\ r.operand2 = "NONE"
        /\ r.shift = 0 /\ r.exec = "ei" /\ r.op = "NONE"
    BY <2>1, RowFields
  <2>3. OperandBits(r) = 0
    BY <2>2, OperandFacts DEF OperandBits
  <2>4. Rest(r, x, y, z) = 251
    BY <1>a, <2>2, <2>3 DEF InTable
  <2>5. x = 3 /\ y = 7 /\ z = 3
    BY <1>0, <2>2, <2>3, <2>4 DEF Rest
  <2> QED BY <1>0, <2>2, <2>5 DEF MainCode, twiddle_ops
<1>23. CASE i = 23
  <2>1. r = Row(203, "NONE", "NONE", 0, "cb_bank_switch", "NONE")
    BY <1>23 DEF instructions_high
  <2>2. /\ r.op_code = 203 /\ r.operand1 = "NONE" /\ r.operand2 = "NONE"
        /\ r.shift = 0 /\ r.exec = "cb_bank_switch" /\ r.op = "NONE"
    BY <2>1, RowFields
  <2>3. OperandBits(r) = 0
    BY <2>2, OperandFacts DEF OperandBits
  <2>4. Rest(r, x, y, z) = 203
    BY <1>a, <2>2, <2>3 DEF InTable
  <2>5. x = 3 /\ y = 1 /\ z = 3
    BY <1>0, <2>2, <2>3, <2>4 DEF Rest
  <2> QED BY <1>0, <2>2, <2>5 DEF MainCode, twiddle_ops
<1> QED BY <1>1, <1>2, <1>3, <1>4, <1>5, <1>6, <1>7, <1>8, <1>9, <1>10, <1>11, <1>12, <1>13, <1>14, <1>15, <1>16, <1>17, <1>18, <1>19, <1>20, <1>21, <1>22, <1>23

\* The rows of the tables one by one.
LEMMA ATable ==
  ASSUME NEW i \in 1 .. 17
  PROVE  \/ instructions_a[i] = Row(64, "R8_DST", "R8", 0, "ld_r8_r8", "NONE")
         \/ \E j \in 1 .. 8 : \/ instructions_a[i] = Row(120 + 8 * j, "A", "R8", 0, "op_a_r8", alu_ops[j])
                              \/ instructions_a[i] = Row(190 + 8 * j, "A", "IMM8", 0, "op_a_imm8", alu_ops[j])
<1> DEFINE ld == << Row(64, "R8_DST", "R8", 0, "ld_r8_r8", "NONE") >>
           r8 == [j \in 1 .. 8 |-> Row(120 + 8 * j, "A", "R8", 0, "op_a_r8", alu_ops[j])]
           imm8 == [j \in 1 .. 8 |-> Row(190 + 8 * j, "A", "IMM8", 0, "op_a_imm8", alu_ops[j])]
<1>1. IsSequence(ld, 1) /\ IsSequence(r8, 8) /\ IsSequence(imm8, 8)
  BY DEF IsSequence
<1>2. ld[1] = Row(64, "R8_DST", "R8", 0, "ld_r8_r8", "NONE")
  OBVIOUS
<1>3. \A j \in 1 .. 8 : /\ r8[j] = Row(120 + 8 * j, "A", "R8", 0, "op_a_r8", alu_ops[j])
                        /\ imm8[j] = Row(190 + 8 * j, "A", "IMM8", 0, "op_a_imm8", alu_ops[j])
  OBVIOUS
<1>4. instructions_a = Join(Join(ld, r8), imm8)
  BY DEF instructions_a, Join
<1> HIDE DEF ld, r8, imm8
<1>5. /\ IsSequence(Join(ld, r8), 9)
      /\ \A j \in 1 .. 1 : Join(ld, r8)[j] = ld[j]
      /\ \A j \in 2 .. 9 : Join(ld, r8)[j] = r8[j - 1]
  BY <1>1, Joined
<1>6. /\ \A j \in 1 .. 9 : instructions_a[j] = Join(ld, r8)[j]
      /\ \A j \in 10 .. 17 : instructions_a[j] = imm8[j - 9]
  BY <1>1, <1>4, <1>5, Joined
<1>7. CASE i = 1
  BY <1>2, <1>5, <1>6, <1>7
<1>8. CASE i \in 2 .. 9
  <2>1. i - 1 \in 1 .. 8 /\ i \in 1 .. 9
    BY <1>8
  <2>2. instructions_a[i] = r8[i - 1]
    BY <1>5, <1>6, <1>8, <2>1
  <2> QED BY <1>3, <2>1, <2>2
<1>9. CASE i \in 10 .. 17
  <2>1. i - 9 \in 1 .. 8
    BY <1>9
  <2> QED BY <1>3, <1>6, <1>9, <2>1
<1> QED BY <1>7, <1>8, <1>9

LEMMA MainTable ==
  ASSUME NEW i \in 1 .. 63
  PROVE  \/ \E j \in 1 .. 23 : instructions[i] = instructions_low[j]
         \/ \E j \in 1 .. 17 : instructions[i] = instructions_a[j]
         \/ \E j \in 1 .. 23 : instructions[i] = instructions_high[j]
<1>1. IsSequence(instructions_low, 23) /\ IsSequence(instructions_high, 23)
  BY DEF IsSequence, instructions_low, instructions_high
<1>2. instructions = Join(Join(instructions_low, instructions_a), instructions_high)
  BY DEF instructions, Join
<1> DEFINE front == Join(instructions_low, instructions_a)
<1>3. /\ IsSequence(front, 40)
      /\ \A j \in 1 .. 23 : front[j] = instructions_low[j]
      /\ \A j \in 24 .. 40 : front[j] = instructions_a[j - 23]
  BY <1>1, ARows, Joined
<1> HIDE DEF front
<1>4. /\ \A j \in 1 .. 40 : instructions[j] = front[j]
      /\ \A j \in 41 .. 63 : instructions[j] = instructions_high[j - 40]
  <2>1. instructions = Join(front, instructions_high)
    BY <1>2 DEF front
  <2> QED BY <1>1, <1>3, <2>1, Joined
<1>5. CASE i \in 1 .. 23
  BY <1>3, <1>4, <1>5
<1>6. CASE i \in 24 .. 40
  <2>1. i - 23 \in 1 .. 17 /\ i \in 1 .. 40
    BY <1>6
  <2> QED BY <1>3, <1>4, <1>6, <2>1
<1>7. CASE i \in 41 .. 63
  <2>1. i - 40 \in 1 .. 23
    BY <1>7
  <2> QED BY <1>4, <1>7, <2>1
<1> QED BY <1>5, <1>6, <1>7

LEMMA CbTable ==
  ASSUME NEW i \in 1 .. 11
  PROVE  \/ \E j \in 1 .. 8 :
              cb_instructions[i] = Row(8 * (j - 1), "R8", "NONE", 0, "bit_twiddle_r8", twiddle_ops[j])
         \/ cb_instructions[i] = Row(64, "BIT_INDEX", "R8", 0, "bit_b3_r8", "NONE")
         \/ cb_instructions[i] = Row(128, "BIT_INDEX", "R8", 0, "res_set_b3_r8", "res_bit")
         \/ cb_instructions[i] = Row(192, "BIT_INDEX", "R8", 0, "res_set_b3_r8", "set_bit")
<1> DEFINE twiddles == [j \in 1 .. 8 |-> Row(8 * (j - 1), "R8", "NONE", 0, "bit_twiddle_r8", twiddle_ops[j])]
           others == << Row(64, "BIT_INDEX", "R8", 0, "bit_b3_r8", "NONE"),
                        Row(128, "BIT_INDEX", "R8", 0, "res_set_b3_r8", "res_bit"),
                        Row(192, "BIT_INDEX", "R8", 0, "res_set_b3_r8", "set_bit") >>
<1>1. IsSequence(twiddles, 8) /\ IsSequence(others, 3)
  BY DEF IsSequence
<1>2. \A j \in 1 .. 8 : twiddles[j] = Row(8 * (j - 1), "R8", "NONE", 0, "bit_twiddle_r8", twiddle_ops[j])
  OBVIOUS
<1>3. /\ others[1] = Row(64, "BIT_INDEX", "R8", 0, "bit_b3_r8", "NONE")
      /\ others[2] = Row(128, "BIT_INDEX", "R8", 0, "res_set_b3_r8", "res_bit")
      /\ others[3] = Row(192, "BIT_INDEX", "R8", 0, "res_set_b3_r8", "set_bit")
  OBVIOUS
<1>4. cb_instructions = Join(twiddles, others)
  BY DEF cb_instructions, Join
<1> HIDE DEF twiddles, others
<1>5. /\ \A j \in 1 .. 8 : cb_instructions[j] = twiddles[j]
      /\ \A j \in 9 .. 11 : cb_instructions[j] = others[j - 8]
  BY <1>1, <1>4, Joined
<1>6. CASE i \in 1 .. 8
  BY <1>2, <1>5, <1>6
<1>7. CASE i \in 9 .. 11
  <2>1. i - 8 \in 1 .. 3 /\ cb_instructions[i] = others[i - 8]
    BY <1>5, <1>7
  <2>2. i - 8 = 1 \/ i - 8 = 2 \/ i - 8 = 3
    BY <2>1
  <2> QED BY <1>3, <2>1, <2>2
<1> QED BY <1>6, <1>7

LEMMA ACodes ==
  ASSUME NEW i \in 1 .. 17, NEW r, r = instructions_a[i],
         NEW b \in Bytes, Matches(b, r), NEW x, NEW y, NEW z, Octal(b, x, y, z)
  PROVE  MainCode(r, x, y, z)
<1>0. x \in 0 .. 3 /\ y \in 0 .. 7 /\ z \in 0 .. 7
  BY DEF Octal
<1>1. InTable(r) => Rest(r, x, y, z) = r.op_code
  BY RowDigits
<1>2. CASE r = Row(64, "R8_DST", "R8", 0, "ld_r8_r8", "NONE")
  <2>1. /\ r.op_code = 64 /\ r.operand1 = "R8_DST" /\ r.operand2 = "R8"
        /\ r.shift = 0 /\ r.exec = "ld_r8_r8"
    BY <1>2, RowFields
  <2>2. OperandBits(r) = 6
    BY <2>1, OperandFacts DEF OperandBits
  <2>3. x = 1
    BY <1>0, <1>1, <2>1, <2>2 DEF InTable, Rest
  <2> QED BY <2>1, <2>3 DEF MainCode
<1>3. ASSUME NEW j \in 1 .. 8, r = Row(120 + 8 * j, "A", "R8", 0, "op_a_r8", alu_ops[j])
      PROVE  MainCode(r, x, y, z)
  <2>1. /\ r.op_code = 120 + 8 * j /\ r.operand1 = "A" /\ r.operand2 = "R8"
        /\ r.shift = 0 /\ r.exec = "op_a_r8" /\ r.op = alu_ops[j]
    BY <1>3, RowFields
  <2>2. OperandBits(r) = 3
    BY <2>1, OperandFacts DEF OperandBits
  <2>3. 64 * x + 8 * y = 120 + 8 * j
    BY <1>1, <2>1, <2>2 DEF InTable, Rest
  <2>4. x = 2 /\ y + 1 = j
    BY <1>0, <2>3
  <2> QED BY <2>1, <2>4 DEF MainCode
<1>4. ASSUME NEW j \in 1 .. 8, r = Row(190 + 8 * j, "A", "IMM8", 0, "op_a_imm8", alu_ops[j])
      PROVE  MainCode(r, x, y, z)
  <2>1. /\ r.op_code = 190 + 8 * j /\ r.operand1 = "A" /\ r.operand2 = "IMM8"
        /\ r.shift = 0 /\ r.exec = "op_a_imm8" /\ r.op = alu_ops[j]
    BY <1>4, RowFields
  <2>2. OperandBits(r) = 0
    BY <2>1, OperandFacts DEF OperandBits
  <2>3. 64 * x + 8 * y + z = 190 + 8 * j
    BY <1>1, <2>1, <2>2 DEF InTable, Rest
  <2>4. x = 3 /\ z = 6 /\ y + 1 = j
    BY <1>0, <2>3
  <2> QED BY <2>1, <2>4 DEF MainCode
<1> QED BY <1>2, <1>3, <1>4, ATable

\* What the searches find has its digits.
LEMMA MainCodes ==
  ASSUME NEW b \in Bytes, NEW r, r = find_instruction("main", b), r # unknown_instruction,
         NEW x, NEW y, NEW z, Octal(b, x, y, z)
  PROVE  MainCode(r, x, y, z)
<1>1. PICK k \in 1 .. 63 : r = instructions[k] /\ Matches(b, r)
  BY MainSearch
<1> QED BY <1>1, MainTable, LowCodes, ACodes, HighCodes

LEMMA CbCodes ==
  ASSUME NEW b \in Bytes, NEW r, r = find_instruction("cb", b), r # unknown_instruction,
         NEW x, NEW y, NEW z, Octal(b, x, y, z)
  PROVE  CbCode(r, x, y, z)
<1>1. PICK k \in 1 .. 11 : r = cb_instructions[k] /\ Matches(b, r)
  BY CbRows, FirstRow
<1>0. x \in 0 .. 3 /\ y \in 0 .. 7 /\ z \in 0 .. 7
  BY DEF Octal
<1>2. InTable(r) => Rest(r, x, y, z) = r.op_code
  BY <1>1, RowDigits
<1>3. ASSUME NEW j \in 1 .. 8, r = Row(8 * (j - 1), "R8", "NONE", 0, "bit_twiddle_r8", twiddle_ops[j])
      PROVE  CbCode(r, x, y, z)
  <2>1. /\ r.op_code = 8 * (j - 1) /\ r.operand1 = "R8" /\ r.operand2 = "NONE"
        /\ r.shift = 0 /\ r.exec = "bit_twiddle_r8" /\ r.op = twiddle_ops[j]
    BY <1>3, RowFields
  <2>2. OperandBits(r) = 3
    BY <2>1, OperandFacts DEF OperandBits
  <2>3. 64 * x + 8 * y = 8 * (j - 1)
    BY <1>2, <2>1, <2>2 DEF InTable, Rest
  <2>4. x = 0 /\ y + 1 = j
    BY <1>0, <2>3
  <2> QED BY <2>1, <2>4 DEF CbCode
<1>4. ASSUME NEW code \in {64, 128, 192}, NEW e, NEW op, r = Row(code, "BIT_INDEX", "R8", 0, e, op)
      PROVE  64 * x = code /\ r.exec = e /\ r.op = op
  <2>1. /\ r.op_code = code /\ r.operand1 = "BIT_INDEX" /\ r.operand2 = "R8" /\ r.shift = 0
        /\ r.exec = e /\ r.op = op
    BY <1>4, RowFields
  <2>2. OperandBits(r) = 6
    BY <2>1, OperandFacts DEF OperandBits
  <2> QED BY <1>2, <2>1, <2>2 DEF InTable, Rest
<1>5. CASE r = Row(64, "BIT_INDEX", "R8", 0, "bit_b3_r8", "NONE")
  <2>1. 64 * x = 64 /\ r.exec = "bit_b3_r8"
    BY <1>4, <1>5
  <2> QED BY <1>0, <2>1 DEF CbCode
<1>6. CASE r = Row(128, "BIT_INDEX", "R8", 0, "res_set_b3_r8", "res_bit")
  <2>1. 64 * x = 128 /\ r.exec = "res_set_b3_r8" /\ r.op = "res_bit"
    BY <1>4, <1>6
  <2> QED BY <1>0, <2>1 DEF CbCode
<1>7. CASE r = Row(192, "BIT_INDEX", "R8", 0, "res_set_b3_r8", "set_bit")
  <2>1. 64 * x = 192 /\ r.exec = "res_set_b3_r8" /\ r.op = "set_bit"
    BY <1>4, <1>7
  <2> QED BY <1>0, <2>1 DEF CbCode
<1> QED BY <1>1, <1>3, <1>5, <1>6, <1>7, CbTable

-----------------------------------------------------------------------------
(* The operands and the effects of Isa.                                    *)

IsArch(R, F, S, P, M) ==
  /\ R \in [0 .. 7 -> Bytes] /\ F \in FlagRecords /\ S \in Words /\ P \in Words /\ IsMemory(M)

LEMMA ArchReads ==
  ASSUME NEW R, NEW F, NEW S, NEW P, NEW M, IsArch(R, F, S, P, M)
  PROVE  /\ \A r \in 0 .. 7 : R[r] \in Bytes
         /\ 256 * R[4] + R[5] \in Words
         /\ \A p \in 0 .. 2 : 256 * R[2 * p] + R[2 * p + 1] \in Words
         /\ \A n \in Int : Word(P + n) \in Words /\ fetch(M, Word(P + n)) \in Bytes
         /\ \A n \in Int : Word(S + n) \in Words /\ fetch(M, Word(S + n)) \in Bytes
         /\ \A addr \in Words : fetch(M, addr) \in Bytes
<1>1. \A r \in 0 .. 7 : R[r] \in Bytes
  BY DEF IsArch
<1>2. 256 * R[4] + R[5] \in Words /\ \A p \in 0 .. 2 : 256 * R[2 * p] + R[2 * p + 1] \in Words
  <2>1. R[0] \in Bytes /\ R[1] \in Bytes /\ R[2] \in Bytes /\ R[3] \in Bytes /\ R[4] \in Bytes /\ R[5] \in Bytes
    BY <1>1
  <2>2. /\ 256 * R[0] + R[1] \in Words /\ 256 * R[2] + R[3] \in Words /\ 256 * R[4] + R[5] \in Words
    BY <2>1, Joins
  <2> QED BY <2>2
<1>3. \A addr \in Words : fetch(M, addr) \in Bytes
  BY FetchIsByte DEF IsArch
<1>4. \A n \in Int : Word(P + n) \in Words /\ Word(S + n) \in Words
  BY WordRange, WordIsWord DEF IsArch
<1> QED BY <1>1, <1>2, <1>3, <1>4

LEMMA IsaReads ==
  ASSUME NEW R, NEW F, NEW S, NEW P, NEW M, IsArch(R, F, S, P, M), NEW t, t = Arc(R, F, S, P, M)
  PROVE  /\ InstructionSet!Regs(t) = R /\ t.f = F /\ t.sp = S /\ t.pc = P /\ t.m = M
         /\ InstructionSet!HLof(t) = 256 * R[4] + R[5]
         /\ \A addr \in Words : InstructionSet!Rd(M, addr) = fetch(M, addr)
         /\ InstructionSet!Imm8(t) = fetch(M, Word(P + 1))
         /\ InstructionSet!Imm16(t) = 256 * fetch(M, Word(P + 2)) + fetch(M, Word(P + 1))
         /\ InstructionSet!Get(t, 6) = fetch(M, 256 * R[4] + R[5])
         /\ \A r : r # 6 => InstructionSet!Get(t, r) = R[r]
         /\ InstructionSet!GetPair(t, 3) = S
         /\ \A p : p # 3 => InstructionSet!GetPair(t, p) = 256 * R[2 * p] + R[2 * p + 1]
         /\ InstructionSet!Top(t) = 256 * fetch(M, Word(S + 1)) + fetch(M, S)
<1>0. t.registers = R /\ t.f = F /\ t.sp = S /\ t.pc = P /\ t.m = M
  BY ArcFields
<1>1. InstructionSet!Regs(t) = R
  BY <1>0 DEF InstructionSet!Regs
<1>2. InstructionSet!HLof(t) = 256 * R[4] + R[5]
  BY <1>1 DEF InstructionSet!HLof, InstructionSet!Word2
<1>3. \A addr \in Words : InstructionSet!Rd(M, addr) = fetch(M, addr)
  BY RdIsFetch DEF IsArch
<1>4. /\ \A n : InstructionSet!Word(n) = Word(n)
      /\ Word(P + 1) \in Words /\ Word(P + 2) \in Words /\ Word(S + 1) \in Words
      /\ 256 * R[4] + R[5] \in Words /\ S \in Words
  BY ArchReads, IsaCopies DEF IsArch
<1>5. InstructionSet!Imm8(t) = fetch(M, Word(P + 1))
  BY <1>0, <1>3, <1>4 DEF InstructionSet!Imm8
<1>6. InstructionSet!Imm16(t) = 256 * fetch(M, Word(P + 2)) + fetch(M, Word(P + 1))
  BY <1>0, <1>3, <1>4, <1>5 DEF InstructionSet!Imm16, InstructionSet!Word2
<1>7. InstructionSet!Get(t, 6) = fetch(M, 256 * R[4] + R[5])
  BY <1>0, <1>2, <1>3, <1>4 DEF InstructionSet!Get
<1>8. \A r : r # 6 => InstructionSet!Get(t, r) = R[r]
  BY <1>1 DEF InstructionSet!Get
<1>9. InstructionSet!GetPair(t, 3) = S
  BY <1>0 DEF InstructionSet!GetPair
<1>10. \A p : p # 3 => InstructionSet!GetPair(t, p) = 256 * R[2 * p] + R[2 * p + 1]
  BY <1>1 DEF InstructionSet!GetPair, InstructionSet!Word2
<1>11. InstructionSet!Top(t) = 256 * fetch(M, Word(S + 1)) + fetch(M, S)
  BY <1>0, <1>3, <1>4 DEF InstructionSet!Top, InstructionSet!Word2
<1> QED BY <1>0, <1>1, <1>2, <1>3, <1>5, <1>6, <1>7, <1>8, <1>9, <1>10, <1>11

LEMMA IsaMoves ==
  ASSUME NEW R, NEW F, NEW S, NEW P, NEW M, NEW t, t = Arc(R, F, S, P, M)
  PROVE  /\ \A n : InstructionSet!Skip(t, n) = Arc(R, F, S, Word(P + n), M)
         /\ \A n : InstructionSet!Goto(t, n) = Arc(R, F, S, Word(n), M)
         /\ InstructionSet!Pop(t) = Arc(R, F, Word(S + 2), P, M)
         /\ \A res : InstructionSet!AluA(t, res) = Arc(RegWith(R, 7, res[1]), res[2], S, P, M)
         /\ \A r, v : r # 6 => InstructionSet!Set(t, r, v) = Arc(RegWith(R, r, v), F, S, P, M)
         /\ \A v : InstructionSet!SetPair(t, 3, v) = Arc(R, F, Word(v), P, M)
         /\ \A p, v : p # 3 => InstructionSet!SetPair(t, p, v)
              = Arc(RegsWith(R, p, v), F, S, P, M)
<1>0. \A n : InstructionSet!Word(n) = Word(n) /\ InstructionSet!Byte(n) = Byte(n)
  BY IsaCopies
<1>1. \A n : InstructionSet!Skip(t, n) = Arc(R, F, S, Word(P + n), M)
  BY <1>0 DEF InstructionSet!Skip, Arc
<1>2. \A n : InstructionSet!Goto(t, n) = Arc(R, F, S, Word(n), M)
  BY <1>0 DEF InstructionSet!Goto, Arc
<1>3. InstructionSet!Pop(t) = Arc(R, F, Word(S + 2), P, M)
  BY <1>0 DEF InstructionSet!Pop, Arc
<1>4. ASSUME NEW res
      PROVE  InstructionSet!AluA(t, res) = Arc(RegWith(R, 7, res[1]), res[2], S, P, M)
  <2> DEFINE v == res[1]
             f == res[2]
             registers == RegWith(R, 7, v)
  <2>1. InstructionSet!AluA(t, res) = [[t EXCEPT !.registers = registers] EXCEPT !.f = f]
    BY DEF InstructionSet!AluA, InstructionSet!A, Arc, RegWith
  <2> HIDE DEF v, f, registers
  <2>2. InstructionSet!AluA(t, res) = Arc(registers, f, S, P, M)
    BY <2>1 DEF Arc
  <2> QED BY <2>2 DEF v, f, registers
<1>5. \A r, v : r # 6 => InstructionSet!Set(t, r, v) = Arc(RegWith(R, r, v), F, S, P, M)
  BY DEF InstructionSet!Set, Arc, RegWith
<1>6. \A v : InstructionSet!SetPair(t, 3, v) = Arc(R, F, Word(v), P, M)
  BY <1>0 DEF InstructionSet!SetPair, Arc
<1>7. ASSUME NEW p, NEW v, p # 3
      PROVE  InstructionSet!SetPair(t, p, v)
               = Arc(RegsWith(R, p, v), F, S, P, M)
  BY <1>0, <1>7 DEF InstructionSet!SetPair, Arc, RegsWith
<1> QED BY <1>1, <1>2, <1>3, <1>4, <1>5, <1>6, <1>7

LEMMA IsaWrites ==
  ASSUME NEW R, NEW F, NEW S, NEW P, NEW M, IsArch(R, F, S, P, M), NEW t, t = Arc(R, F, S, P, M)
  PROVE  /\ \A addr \in Int : \A v : InstructionSet!Store(t, addr, v) = Arc(R, F, S, P, store(M, Word(addr), v))
         /\ \A v : InstructionSet!Set(t, 6, v) = Arc(R, F, S, P, store(M, 256 * R[4] + R[5], v))
         /\ \A v \in Words : InstructionSet!Push(t, v)
              = Arc(R, F, Word(S - 2), P,
                    store(store(M, Word(S - 1), v \div 256), Word(S - 2), Byte(v)))
<1>0. /\ t.registers = R /\ t.f = F /\ t.sp = S /\ t.pc = P /\ t.m = M
      /\ \A n : InstructionSet!Word(n) = Word(n) /\ InstructionSet!Byte(n) = Byte(n)
  BY ArcFields, IsaCopies
<1>1. ASSUME NEW N, IsMemory(N), NEW addr \in Int, NEW v
      PROVE  InstructionSet!Store(Arc(R, F, S, P, N), addr, v) = Arc(R, F, S, P, store(N, Word(addr), v))
  <2>1. InstructionSet!Wr(N, Word(addr), v) = store(N, Word(addr), v)
    BY <1>1, WordIsWord, WrIsStore
  <2>2. InstructionSet!Store(Arc(R, F, S, P, N), addr, v)
          = [Arc(R, F, S, P, N) EXCEPT !.m = InstructionSet!Wr(N, Word(addr), v)]
    BY <1>0 DEF InstructionSet!Store, Arc
  <2> QED BY <2>1, <2>2, ArcFields
<1>2. \A addr \in Int : \A v : InstructionSet!Store(t, addr, v) = Arc(R, F, S, P, store(M, Word(addr), v))
  BY <1>1 DEF IsArch
<1>3. ASSUME NEW v PROVE InstructionSet!Set(t, 6, v) = Arc(R, F, S, P, store(M, 256 * R[4] + R[5], v))
  <2>1. InstructionSet!HLof(t) = 256 * R[4] + R[5] /\ 256 * R[4] + R[5] \in Words
    BY IsaReads, ArchReads
  <2>2. InstructionSet!Wr(M, 256 * R[4] + R[5], v) = store(M, 256 * R[4] + R[5], v)
    BY <2>1, WrIsStore DEF IsArch
  <2>3. InstructionSet!Set(t, 6, v) = [t EXCEPT !.m = InstructionSet!Wr(M, 256 * R[4] + R[5], v)]
    BY <1>0, <2>1 DEF InstructionSet!Set
  <2> QED BY <2>2, <2>3, ArcFields
<1>4. ASSUME NEW v \in Words
      PROVE  InstructionSet!Push(t, v)
               = Arc(R, F, Word(S - 2), P, store(store(M, Word(S - 1), v \div 256), Word(S - 2), Byte(v)))
  <2> DEFINE N == store(M, Word(S - 1), v \div 256)
             u == Arc(R, F, S, P, store(N, Word(S - 2), Byte(v)))
  <2>1. S \in Int /\ S - 1 \in Int /\ S - 2 \in Int
    BY WordRange DEF IsArch
  <2>2. InstructionSet!Store(t, S - 1, v \div 256) = Arc(R, F, S, P, N)
    BY <1>2, <2>1
  <2>3. IsMemory(N)
    BY <2>1, Halves, WordIsWord, StoreIsMemory DEF IsArch
  <2>4. InstructionSet!Store(Arc(R, F, S, P, N), S - 2, Byte(v)) = u
    BY <1>1, <2>1, <2>3
  <2>5. InstructionSet!Push(t, v) = [u EXCEPT !.sp = Word(u.sp - 2)]
    BY <1>0, <2>2, <2>4 DEF InstructionSet!Push
  <2> HIDE DEF N
  <2> QED BY <2>5, ArcFields DEF N
<1> QED BY <1>2, <1>3, <1>4

-----------------------------------------------------------------------------
(* An instruction as a whole.                                              *)

\* Isa takes a program from a to u.
Becomes(a, u) ==
  LET op == InstructionSet!Rd(a.m, a.pc)
      x == op \div 64
      y == (op \div 8) % 8
      z == op % 8
      cb == InstructionSet!Imm8(a)
  IN CASE op = 39  -> InstructionSet!Daa(a, u)
       [] op = 203 -> u = InstructionSet!Prefixed(a, cb \div 64, (cb \div 8) % 8, cb % 8)
       [] x = 0 /\ op # 39 -> u = InstructionSet!Low(a, y, z)
       [] x = 1 -> u = InstructionSet!Skip(InstructionSet!Set(a, y, InstructionSet!Get(a, z)), 1)
       [] x = 2 -> u = InstructionSet!Skip(InstructionSet!AluA(a,
                         InstructionSet!Arith(y, InstructionSet!Regs(a)[InstructionSet!A],
                                              InstructionSet!Get(a, z), a.f)), 1)
       [] x = 3 /\ op # 203 -> u = InstructionSet!High(a, y, z)

LEMMA Digits ==
  ASSUME NEW b \in Bytes
  PROVE  /\ Octal(b, b \div 64, (b \div 8) % 8, b % 8)
         /\ \A x, y, z : Octal(b, x, y, z) => x = b \div 64 /\ y = (b \div 8) % 8 /\ z = b % 8
<1>1. b \in Int /\ 0 <= b /\ b <= 255
  BY ByteRange
<1>2. Octal(b, b \div 64, (b \div 8) % 8, b % 8)
  BY <1>1 DEF Octal
<1>3. ASSUME NEW x, NEW y, NEW z, Octal(b, x, y, z)
      PROVE  x = b \div 64 /\ y = (b \div 8) % 8 /\ z = b % 8
  <2>1. /\ x \in Int /\ y \in Int /\ z \in Int /\ b = 64 * x + 8 * y + z
        /\ 0 <= x /\ x <= 3 /\ 0 <= y /\ y <= 7 /\ 0 <= z /\ z <= 7
    BY <1>3 DEF Octal
  <2>2. b = 64 * x + (8 * y + z) /\ 0 <= 8 * y + z /\ 8 * y + z < 64
    BY <2>1
  <2>3. x = b \div 64
    BY <2>1, <2>2
  <2>4. b = 8 * (8 * x + y) + z
    BY <2>1
  <2>5. z = b % 8 /\ b \div 8 = 8 * x + y
    BY <2>1, <2>4
  <2>6. y = (8 * x + y) % 8
    BY <2>1
  <2> QED BY <2>3, <2>5, <2>6
<1> QED BY <1>2, <1>3

LEMMA BecomesBy ==
  ASSUME NEW R, NEW F, NEW S, NEW P, NEW M, IsArch(R, F, S, P, M),
         NEW a, a = Arc(R, F, S, P, M), NEW u,
         NEW b, b = fetch(M, P), NEW x, NEW y, NEW z, Octal(b, x, y, z)
  PROVE  /\ x = 0 /\ ~(y = 4 /\ z = 7) /\ u = InstructionSet!Low(a, y, z) => Becomes(a, u)
         /\ x = 0 /\ y = 4 /\ z = 7 /\ InstructionSet!Daa(a, u) => Becomes(a, u)
         /\ x = 1 /\ u = InstructionSet!Skip(InstructionSet!Set(a, y, InstructionSet!Get(a, z)), 1)
              => Becomes(a, u)
         /\ x = 2 /\ u = InstructionSet!Skip(InstructionSet!AluA(a,
                           InstructionSet!Arith(y, R[7], InstructionSet!Get(a, z), F)), 1)
              => Becomes(a, u)
         /\ x = 3 /\ ~(y = 1 /\ z = 3) /\ u = InstructionSet!High(a, y, z) => Becomes(a, u)
<1>1. b \in Bytes /\ InstructionSet!Rd(a.m, a.pc) = b
  <2>1. P \in Words /\ a.m = M /\ a.pc = P
    BY ArcFields DEF IsArch
  <2> QED BY <2>1, IsaReads, ArchReads
<1>2. x = b \div 64 /\ y = (b \div 8) % 8 /\ z = b % 8
  BY <1>1, Digits
<1>3. /\ x \in 0 .. 3 /\ y \in 0 .. 7 /\ z \in 0 .. 7 /\ b = 64 * x + 8 * y + z
      /\ InstructionSet!Regs(a)[InstructionSet!A] = R[7] /\ a.f = F
  BY IsaReads DEF Octal, InstructionSet!A
<1>4. /\ (b = 39) <=> (x = 0 /\ y = 4 /\ z = 7)
      /\ (b = 203) <=> (x = 3 /\ y = 1 /\ z = 3)
  BY <1>3
<1>5. Becomes(a, u)
        = CASE b = 39  -> InstructionSet!Daa(a, u)
            [] b = 203 -> u = InstructionSet!Prefixed(a, InstructionSet!Imm8(a) \div 64,
                                (InstructionSet!Imm8(a) \div 8) % 8, InstructionSet!Imm8(a) % 8)
            [] x = 0 /\ b # 39 -> u = InstructionSet!Low(a, y, z)
            [] x = 1 -> u = InstructionSet!Skip(InstructionSet!Set(a, y, InstructionSet!Get(a, z)), 1)
            [] x = 2 -> u = InstructionSet!Skip(InstructionSet!AluA(a,
                              InstructionSet!Arith(y, R[7], InstructionSet!Get(a, z), F)), 1)
            [] x = 3 /\ b # 203 -> u = InstructionSet!High(a, y, z)
  BY <1>1, <1>2, <1>3, Zenon DEF Becomes
<1>6. ASSUME x = 0, ~(y = 4 /\ z = 7), u = InstructionSet!Low(a, y, z) PROVE Becomes(a, u)
  <2>1. Becomes(a, u) = (u = InstructionSet!Low(a, y, z))
    BY <1>4, <1>5, <1>6
  <2> QED BY <1>6, <2>1, Zenon
<1>7. ASSUME x = 0, y = 4, z = 7, InstructionSet!Daa(a, u) PROVE Becomes(a, u)
  <2>1. Becomes(a, u) = InstructionSet!Daa(a, u)
    BY <1>4, <1>5, <1>7
  <2> QED BY <1>7, <2>1, Zenon
<1>8. ASSUME x = 1, u = InstructionSet!Skip(InstructionSet!Set(a, y, InstructionSet!Get(a, z)), 1)
      PROVE  Becomes(a, u)
  <2>1. Becomes(a, u)
          = (u = InstructionSet!Skip(InstructionSet!Set(a, y, InstructionSet!Get(a, z)), 1))
    BY <1>4, <1>5, <1>8
  <2> QED BY <1>8, <2>1, Zenon
<1>9. ASSUME x = 2,
             u = InstructionSet!Skip(InstructionSet!AluA(a,
                   InstructionSet!Arith(y, R[7], InstructionSet!Get(a, z), F)), 1)
      PROVE  Becomes(a, u)
  <2>1. Becomes(a, u)
          = (u = InstructionSet!Skip(InstructionSet!AluA(a,
                   InstructionSet!Arith(y, R[7], InstructionSet!Get(a, z), F)), 1))
    BY <1>4, <1>5, <1>9
  <2> QED BY <1>9, <2>1, Zenon
<1>10. ASSUME x = 3, ~(y = 1 /\ z = 3), u = InstructionSet!High(a, y, z) PROVE Becomes(a, u)
  <2>1. Becomes(a, u) = (u = InstructionSet!High(a, y, z))
    BY <1>4, <1>5, <1>10
  <2> QED BY <1>10, <2>1, Zenon
<1> QED BY <1>6, <1>7, <1>8, <1>9, <1>10, Zenon

LEMMA BecomesPrefixed ==
  ASSUME NEW R, NEW F, NEW S, NEW P, NEW M, IsArch(R, F, S, P, M),
         NEW a, a = Arc(R, F, S, P, M), fetch(M, P) = 203,
         NEW b, b = fetch(M, Word(P + 1)), NEW x, NEW y, NEW z, Octal(b, x, y, z)
  PROVE  Becomes(a, InstructionSet!Prefixed(a, x, y, z))
<1>1. /\ InstructionSet!Rd(a.m, a.pc) = 203 /\ InstructionSet!Imm8(a) = b
      /\ fetch(M, Word(P + 1)) \in Bytes
  <2>1. P \in Words /\ a.m = M /\ a.pc = P
    BY ArcFields DEF IsArch
  <2>2. InstructionSet!Rd(a.m, a.pc) = fetch(M, P) /\ InstructionSet!Imm8(a) = fetch(M, Word(P + 1))
    BY <2>1, IsaReads
  <2> QED BY <2>2, ArchReads
<1>2. x = b \div 64 /\ y = (b \div 8) % 8 /\ z = b % 8
  BY <1>1, Digits
<1> DEFINE u == InstructionSet!Prefixed(a, x, y, z)
<1> HIDE DEF u
<1>3. Becomes(a, u) = (u = InstructionSet!Prefixed(a, x, y, z))
  BY <1>1, <1>2 DEF Becomes
<1> QED BY <1>3 DEF u

\* The call of exec in s ends an instruction that began in a.
Ends(s, a) ==
  \E t : /\ exec(s) = done(t) /\ IsState(t) /\ t.pc \in Words
         /\ Becomes(a, Arc(t.registers, t.f, t.sp, t.pc, t.m))

\* It, or one of the next calls, does.
Within1(s, a) == Ends(s, a) \/ (exec(s).state = "EXECUTING" /\ Ends(Turn(s), a))
Within2(s, a) == Ends(s, a) \/ (exec(s).state = "EXECUTING" /\ Within1(Turn(s), a))
Within3(s, a) == Ends(s, a) \/ (exec(s).state = "EXECUTING" /\ Within2(Turn(s), a))
Within4(s, a) == Ends(s, a) \/ (exec(s).state = "EXECUTING" /\ Within3(Turn(s), a))
Within5(s, a) == Ends(s, a) \/ (exec(s).state = "EXECUTING" /\ Within4(Turn(s), a))

LEMMA WithinMore ==
  /\ \A s, a : Ends(s, a) => Within1(s, a)
  /\ \A s, a : Within1(s, a) => Within2(s, a)
  /\ \A s, a : Within2(s, a) => Within3(s, a)
  /\ \A s, a : Within3(s, a) => Within4(s, a)
  /\ \A s, a : Within4(s, a) => Within5(s, a)
<1>1. \A s, a : Ends(s, a) => Within1(s, a)
  BY Zenon DEF Within1
<1>2. \A s, a : Within1(s, a) => Within2(s, a)
  BY <1>1, Zenon DEF Within1, Within2
<1>3. \A s, a : Within2(s, a) => Within3(s, a)
  BY <1>2, Zenon DEF Within2, Within3
<1>4. \A s, a : Within3(s, a) => Within4(s, a)
  BY <1>3, Zenon DEF Within3, Within4
<1>5. \A s, a : Within4(s, a) => Within5(s, a)
  BY <1>4, Zenon DEF Within4, Within5
<1> QED BY <1>1, <1>2, <1>3, <1>4, <1>5, Zenon

\* The calls of exec after the one in s.
LEMMA Calls ==
  ASSUME NEW s, NEW a
  PROVE  /\ Ends(s, a) => Within5(s, a)
         /\ \A s1 : /\ s1 = Turn(s) /\ exec(s).state = "EXECUTING"
                    /\ Ends(s1, a)
                    => Within5(s, a)
         /\ \A s1, s2 : /\ s1 = Turn(s) /\ exec(s).state = "EXECUTING"
                        /\ s2 = Turn(s1) /\ exec(s1).state = "EXECUTING"
                        /\ Ends(s2, a)
                        => Within5(s, a)
         /\ \A s1, s2, s3 : /\ s1 = Turn(s) /\ exec(s).state = "EXECUTING"
                            /\ s2 = Turn(s1) /\ exec(s1).state = "EXECUTING"
                            /\ s3 = Turn(s2) /\ exec(s2).state = "EXECUTING"
                            /\ Ends(s3, a)
                            => Within5(s, a)
         /\ \A s1, s2, s3, s4 : /\ s1 = Turn(s) /\ exec(s).state = "EXECUTING"
                                /\ s2 = Turn(s1) /\ exec(s1).state = "EXECUTING"
                                /\ s3 = Turn(s2) /\ exec(s2).state = "EXECUTING"
                                /\ s4 = Turn(s3) /\ exec(s3).state = "EXECUTING"
                                /\ Ends(s4, a)
                                => Within5(s, a)
         /\ \A s1, s2, s3, s4, s5 : /\ s1 = Turn(s) /\ exec(s).state = "EXECUTING"
                                    /\ s2 = Turn(s1) /\ exec(s1).state = "EXECUTING"
                                    /\ s3 = Turn(s2) /\ exec(s2).state = "EXECUTING"
                                    /\ s4 = Turn(s3) /\ exec(s3).state = "EXECUTING"
                                    /\ s5 = Turn(s4) /\ exec(s4).state = "EXECUTING"
                                    /\ Ends(s5, a)
                                    => Within5(s, a)
<1>1. \A t, u : exec(t).state = "EXECUTING" /\ u = Turn(t) =>
        /\ Ends(u, a) => Within1(t, a)
        /\ Within1(u, a) => Within2(t, a)
        /\ Within2(u, a) => Within3(t, a)
        /\ Within3(u, a) => Within4(t, a)
        /\ Within4(u, a) => Within5(t, a)
  BY DEF Within1, Within2, Within3, Within4, Within5
<1> QED BY <1>1, WithinMore

\* The two ways in which a call of exec may go.
LEMMA CallGoesOn ==
  ASSUME NEW s, NEW i, NEW b, NEW c, NEW z, NEW w, NEW R, NEW F, NEW S, NEW P, NEW M,
         During(exec(s), i, b, c, Arc(R, F, S, P, M), z, w)
  PROVE  exec(s).state = "EXECUTING" /\ During(Turn(s), i, b, c + 1, Arc(R, F, S, P, M), z, w)
BY TurnDuring, DuringFields

LEMMA CallEnds ==
  ASSUME NEW s, NEW a, NEW i, NEW b, NEW c, NEW z, NEW w, NEW R, NEW F, NEW S, NEW P, NEW M,
         NEW t, During(t, i, b, c, Arc(R, F, S, P, M), z, w), exec(s) = done(t), P \in Words,
         Becomes(a, Arc(R, F, S, P, M))
  PROVE  Ends(s, a)
<1>1. IsState(t)
  BY DEF During
<1>2. t.registers = R /\ t.f = F /\ t.sp = S /\ t.pc = P /\ t.m = M
  BY DuringFields
<1> QED BY <1>1, <1>2 DEF Ends

-----------------------------------------------------------------------------
(* The operands in the op-code.                                            *)

LEMMA Decodes ==
  ASSUME NEW s, NEW b, NEW x, NEW y, NEW z, s.ir = b, Octal(b, x, y, z)
  PROVE  /\ s.instr.shift = 0 => /\ decode_reg8(s) = z /\ decode_reg8_dst(s) = y
                                 /\ decode_bit_index(s) = y
         /\ s.instr.shift = 3 => /\ decode_reg8(s) = y /\ decode_tgt3(s) = 8 * y
                                 /\ Field(s) % 4 = y % 4
         /\ s.instr.shift = 4 => Field(s) % 4 = y \div 2
<1>1. /\ x \in Int /\ y \in Int /\ z \in Int /\ b = 64 * x + 8 * y + z
      /\ 0 <= x /\ x <= 3 /\ 0 <= y /\ y <= 7 /\ 0 <= z /\ z <= 7
  BY DEF Octal
<1>2. 2 ^ 0 = 1 /\ 2 ^ 3 = 8 /\ 2 ^ 4 = 16
  OBVIOUS
<1>3. b = 8 * (8 * x + y) + z
  BY <1>1
<1>4. b % 8 = z /\ b \div 8 = 8 * x + y
  BY <1>1, <1>3
<1>5. (8 * x + y) % 8 = y
  BY <1>1
<1>6. (8 * x + y) % 4 = y % 4
  <2>1. 8 * x + y = 4 * (2 * x) + y
    BY <1>1
  <2> QED BY <1>1, <2>1
<1>7. b \div 16 = 4 * x + y \div 2
  BY <1>1
<1>8. (4 * x + y \div 2) % 4 = y \div 2
  BY <1>1
<1>9. ASSUME s.instr.shift = 0
      PROVE  decode_reg8(s) = z /\ decode_reg8_dst(s) = y /\ decode_bit_index(s) = y
  <2>1. Field(s) = b
    BY <1>1, <1>2, <1>9 DEF Field
  <2> QED BY <1>4, <1>5, <2>1 DEF decode_reg8, decode_reg8_dst, decode_bit_index
<1>10. ASSUME s.instr.shift = 3
       PROVE  decode_reg8(s) = y /\ decode_tgt3(s) = 8 * y /\ Field(s) % 4 = y % 4
  <2>1. Field(s) = 8 * x + y
    BY <1>2, <1>4, <1>10 DEF Field
  <2> QED BY <1>1, <1>5, <1>6, <2>1 DEF decode_reg8, decode_tgt3
<1>11. ASSUME s.instr.shift = 4 PROVE Field(s) % 4 = y \div 2
  <2>1. Field(s) = 4 * x + y \div 2
    BY <1>2, <1>7, <1>11 DEF Field
  <2> QED BY <1>8, <2>1
<1> QED BY <1>9, <1>10, <1>11

LEMMA CondHolds ==
  ASSUME NEW s, NEW a, s.f = a.f, NEW y \in 0 .. 7, Field(s) % 4 = y % 4
  PROVE  /\ eval_cond(s) <=> InstructionSet!Holds(a, y % 4)
         /\ y < 4 => (eval_cond(s) <=> InstructionSet!Holds(a, y))
<1>1. y % 4 \in 0 .. 3 /\ (y < 4 => y % 4 = y)
  OBVIOUS
<1> DEFINE c == y % 4
<1>2. eval_cond(s) <=> InstructionSet!Holds(a, c)
  <2>0. /\ c = 0 => eval_cond(s) = ~s.f.Z /\ InstructionSet!Holds(a, c) = ~s.f.Z
        /\ c = 1 => eval_cond(s) = s.f.Z /\ InstructionSet!Holds(a, c) = s.f.Z
        /\ c = 2 => eval_cond(s) = ~s.f.C /\ InstructionSet!Holds(a, c) = ~s.f.C
        /\ c = 3 => eval_cond(s) = s.f.C /\ InstructionSet!Holds(a, c) = s.f.C
    BY DEF eval_cond, InstructionSet!Holds
  <2>1. c = 0 \/ c = 1 \/ c = 2 \/ c = 3
    BY <1>1
  <2> HIDE DEF c
  <2> QED BY <2>0, <2>1, Zenon
<1> QED BY <1>1, <1>2

\* The pairs by their number: BC, DE, HL and SP.
Names == <<"BC", "DE", "HL", "SP">>
PairWith(R, p, v) == IF p = 3 THEN R ELSE RegsWith(R, p, v)
SpWith(S, p, v) == IF p = 3 THEN Word(v) ELSE S
PairOf(R, S, p) == IF p = 3 THEN S ELSE 256 * R[2 * p] + R[2 * p + 1]

LEMMA PairNames ==
  /\ Pair("BC") = <<0, 1>> /\ Pair("DE") = <<2, 3>>
  /\ Pair("HL") = <<4, 5>> /\ Pair("HL+") = <<4, 5>> /\ Pair("HL-") = <<4, 5>>
  /\ Names[1] = "BC" /\ Names[2] = "DE" /\ Names[3] = "HL" /\ Names[4] = "SP"
BY DEF Pair, REG_H, REG_L, Names

LEMMA PairReads ==
  ASSUME NEW s, NEW i, NEW b, NEW c, NEW z, NEW w, NEW R, NEW F, NEW S, NEW P, NEW M,
         During(s, i, b, c, Arc(R, F, S, P, M), z, w)
  PROVE  /\ \A p \in 0 .. 3 : get_reg16(s, Names[1 + p]) = PairOf(R, S, p)
         /\ hl(s) = 256 * R[4] + R[5] /\ hl(s) = PairOf(R, S, 2)
         /\ get_reg16(s, "HL+") = 256 * R[4] + R[5] /\ get_reg16(s, "HL-") = 256 * R[4] + R[5]
         /\ get_reg16(s, "BC") = 256 * R[0] + R[1] /\ get_reg16(s, "DE") = 256 * R[2] + R[3]
         /\ get_reg16(s, "AF") = 256 * R[7] + FlagsByte(F)
         /\ \A r : get_reg8(s, r) = R[r]
         /\ wz(s) = 256 * w + z
<1>1. s.registers = R /\ s.sp = S /\ s.f = F /\ s.z = z /\ s.w = w
  BY DuringFields
<1>2. /\ get_reg16(s, "BC") = 256 * R[0] + R[1] /\ get_reg16(s, "DE") = 256 * R[2] + R[3]
      /\ get_reg16(s, "HL") = 256 * R[4] + R[5]
      /\ get_reg16(s, "HL+") = 256 * R[4] + R[5] /\ get_reg16(s, "HL-") = 256 * R[4] + R[5]
  BY <1>1, PairNames DEF get_reg16
<1>3. get_reg16(s, "SP") = S /\ get_reg16(s, "AF") = 256 * R[7] + FlagsByte(F)
  BY <1>1 DEF get_reg16, REG_A
<1>4. ASSUME NEW p \in 0 .. 3 PROVE get_reg16(s, Names[1 + p]) = PairOf(R, S, p)
  <2>1. CASE p = 0
    BY <1>2, <2>1, PairNames DEF PairOf
  <2>2. CASE p = 1
    BY <1>2, <2>2, PairNames DEF PairOf
  <2>3. CASE p = 2
    BY <1>2, <2>3, PairNames DEF PairOf
  <2>4. CASE p = 3
    BY <1>3, <2>4, PairNames DEF PairOf
  <2> QED BY <2>1, <2>2, <2>3, <2>4
<1>5. hl(s) = 256 * R[4] + R[5] /\ hl(s) = PairOf(R, S, 2)
  BY <1>2 DEF hl, PairOf
<1>6. \A r : get_reg8(s, r) = R[r]
  BY <1>1 DEF get_reg8
<1>7. wz(s) = 256 * w + z
  BY <1>1 DEF wz
<1> QED BY <1>2, <1>3, <1>4, <1>5, <1>6, <1>7

LEMMA PairWrites ==
  ASSUME NEW s, NEW i, NEW b, NEW c, NEW z, NEW w, NEW R, NEW F, NEW S, NEW P, NEW M,
         During(s, i, b, c, Arc(R, F, S, P, M), z, w)
  PROVE  /\ \A p \in 0 .. 3 : \A v :
              During(set_reg16(s, Names[1 + p], v), i, b, c,
                     Arc(PairWith(R, p, v), F, SpWith(S, p, v), P, M), z, w)
         /\ \A r \in {"HL", "HL+", "HL-"} : \A v :
              During(set_reg16(s, r, v), i, b, c, Arc(RegsWith(R, 2, v), F, S, P, M), z, w)
<1>1. ASSUME NEW p \in 0 .. 2, NEW r, NEW v, Pair(r) = <<2 * p, 2 * p + 1>>, r \notin {"SP", "AF"}
      PROVE  During(set_reg16(s, r, v), i, b, c, Arc(PairWith(R, p, v), F, SpWith(S, p, v), P, M), z, w)
  BY <1>1, WritesDuring DEF PairWith, SpWith
<1>2. ASSUME NEW v
      PROVE  During(set_reg16(s, "SP", v), i, b, c, Arc(PairWith(R, 3, v), F, SpWith(S, 3, v), P, M), z, w)
  BY WritesDuring DEF PairWith, SpWith
<1>3. ASSUME NEW p \in 0 .. 3, NEW v
      PROVE  During(set_reg16(s, Names[1 + p], v), i, b, c,
                    Arc(PairWith(R, p, v), F, SpWith(S, p, v), P, M), z, w)
  <2>1. CASE p = 0
    BY <1>1, <2>1, PairNames
  <2>2. CASE p = 1
    BY <1>1, <2>2, PairNames
  <2>3. CASE p = 2
    BY <1>1, <2>3, PairNames
  <2>4. CASE p = 3
    BY <1>2, <2>4, PairNames
  <2> QED BY <2>1, <2>2, <2>3, <2>4
<1>4. ASSUME NEW r \in {"HL", "HL+", "HL-"}, NEW v
      PROVE  During(set_reg16(s, r, v), i, b, c, Arc(RegsWith(R, 2, v), F, S, P, M), z, w)
  <2>1. Pair(r) = <<2 * 2, 2 * 2 + 1>> /\ r \notin {"SP", "AF"} /\ 2 \in 0 .. 2
    BY PairNames
  <2>2. SpWith(S, 2, v) = S
    BY DEF SpWith
  <2>3. PairWith(R, 2, v) = RegsWith(R, 2, v)
    BY DEF PairWith
  <2> QED BY <1>1, <2>1, <2>2, <2>3
<1> QED BY <1>3, <1>4

LEMMA IsaPairs ==
  ASSUME NEW R, NEW F, NEW S, NEW P, NEW M, IsArch(R, F, S, P, M), NEW t, t = Arc(R, F, S, P, M),
         NEW p \in 0 .. 3
  PROVE  /\ InstructionSet!GetPair(t, p) = PairOf(R, S, p) /\ PairOf(R, S, p) \in Words
         /\ \A v : InstructionSet!SetPair(t, p, v) = Arc(PairWith(R, p, v), F, SpWith(S, p, v), P, M)
         /\ InstructionSet!HLof(t) = PairOf(R, S, 2)
<1>0. /\ \A v : InstructionSet!SetPair(t, 3, v) = Arc(R, F, Word(v), P, M)
      /\ \A q, v : q # 3 => InstructionSet!SetPair(t, q, v)
           = Arc(RegsWith(R, q, v), F, S, P, M)
  BY IsaMoves
<1>1. InstructionSet!GetPair(t, p) = PairOf(R, S, p) /\ InstructionSet!HLof(t) = PairOf(R, S, 2)
  BY IsaReads DEF PairOf
<1>2. \A v : InstructionSet!SetPair(t, p, v) = Arc(PairWith(R, p, v), F, SpWith(S, p, v), P, M)
  <2> SUFFICES ASSUME NEW v
               PROVE  InstructionSet!SetPair(t, p, v) = Arc(PairWith(R, p, v), F, SpWith(S, p, v), P, M)
    OBVIOUS
  <2>1. CASE p = 3
    <3>1. InstructionSet!SetPair(t, 3, v) = Arc(R, F, Word(v), P, M)
      BY <1>0
    <3> QED BY <2>1, <3>1 DEF PairWith, SpWith
  <2>2. CASE p # 3
    <3>1. InstructionSet!SetPair(t, p, v)
            = Arc(RegsWith(R, p, v), F, S, P, M)
      BY <1>0, <2>2
    <3> QED BY <2>2, <3>1 DEF PairWith, SpWith
  <2> QED BY <2>1, <2>2
<1>3. PairOf(R, S, p) \in Words
  <2>1. CASE p = 3
    BY <2>1 DEF PairOf, IsArch
  <2>2. CASE p \in 0 .. 2
    BY <2>2, ArchReads DEF PairOf
  <2> QED BY <2>1, <2>2
<1> QED BY <1>1, <1>2, <1>3

-----------------------------------------------------------------------------
(* The instructions of the first bank, from their first cycle on.          *)

\* exec is called for the first time for the instruction at P.
Begins(s, i, b, x, y, z, R, F, S, P, M) ==
  /\ IsArch(R, F, S, P, M)
  /\ b = fetch(M, P) /\ Octal(b, x, y, z) /\ MainCode(i, x, y, z)
  /\ i.exec = "ld_r8_r8" => b # 118
  /\ \E z0, w0 : During(s, i, b, 0, Arc(R, F, S, Word(P + 1), M), z0, w0)

LEMMA BeginFacts ==
  ASSUME NEW s, NEW i, NEW b, NEW x, NEW y, NEW z, NEW R, NEW F, NEW S, NEW P, NEW M,
         Begins(s, i, b, x, y, z, R, F, S, P, M)
  PROVE  /\ P \in Words /\ P \in Int /\ S \in Words /\ S \in Int /\ F \in FlagRecords
         /\ x \in 0 .. 3 /\ y \in 0 .. 7 /\ z \in 0 .. 7 /\ y \div 2 \in 0 .. 3 /\ y % 4 \in 0 .. 3
         /\ \A n \in 1 .. 3 : Word(P + n) \in Words
         /\ Word(Word(P + 1) + 1) = Word(P + 2) /\ Word(Word(P + 2) + 1) = Word(P + 3)
         /\ fetch(M, Word(P + 1)) \in Bytes /\ fetch(M, Word(P + 2)) \in Bytes
<1>1. IsArch(R, F, S, P, M) /\ Octal(b, x, y, z)
  BY DEF Begins
<1>2. P \in Words /\ S \in Words /\ F \in FlagRecords /\ P \in Int /\ S \in Int
  BY <1>1, WordRange DEF IsArch
<1>3. x \in 0 .. 3 /\ y \in 0 .. 7 /\ z \in 0 .. 7
  BY <1>1 DEF Octal
<1>4. y \div 2 \in 0 .. 3 /\ y % 4 \in 0 .. 3
  BY <1>3
<1>5. /\ \A n \in Int : Word(P + n) \in Words /\ fetch(M, Word(P + n)) \in Bytes
      /\ 1 .. 3 \subseteq Int
  BY <1>1, ArchReads
<1>6. P + 1 \in Int /\ P + 2 \in Int /\ P + 1 + 1 = P + 2 /\ P + 2 + 1 = P + 3
  BY <1>2
<1>7. Word(Word(P + 1) + 1) = Word(P + 1 + 1) /\ Word(Word(P + 2) + 1) = Word(P + 2 + 1)
  BY <1>6, WordAdds
<1> QED BY <1>2, <1>3, <1>4, <1>5, <1>6, <1>7

\* A call of exec that only reads, and what the next one finds.
LEMMA ReadTurns ==
  ASSUME NEW s, NEW i, NEW b, NEW c, NEW z, NEW w, NEW R, NEW F, NEW S, NEW P, NEW M,
         During(s, i, b, c, Arc(R, F, S, P, M), z, w), NEW d, d = c + 1
  PROVE  /\ exec(s) = fetch_z(s) => /\ exec(s).state = "EXECUTING"
              /\ During(Turn(s), i, b, d, Arc(R, F, S, Word(P + 1), M), fetch(M, P), w)
         /\ exec(s) = fetch_w(s) => /\ exec(s).state = "EXECUTING"
              /\ During(Turn(s), i, b, d, Arc(R, F, S, Word(P + 1), M), z, fetch(M, P))
         /\ exec(s) = pop_z(s) => /\ exec(s).state = "EXECUTING"
              /\ During(Turn(s), i, b, d, Arc(R, F, Word(S + 1), P, M), fetch(M, S), w)
         /\ exec(s) = pop_w(s) => /\ exec(s).state = "EXECUTING"
              /\ During(Turn(s), i, b, d, Arc(R, F, Word(S + 1), P, M), z, fetch(M, S))
         /\ \A addr : exec(s) = read_z(s, addr) => /\ exec(s).state = "EXECUTING"
              /\ During(Turn(s), i, b, d, Arc(R, F, S, P, M), fetch(M, addr), w)
<1>1. /\ During(fetch_z(s), i, b, c, Arc(R, F, S, Word(P + 1), M), fetch(M, P), w)
      /\ During(fetch_w(s), i, b, c, Arc(R, F, S, Word(P + 1), M), z, fetch(M, P))
      /\ During(pop_z(s), i, b, c, Arc(R, F, Word(S + 1), P, M), fetch(M, S), w)
      /\ During(pop_w(s), i, b, c, Arc(R, F, Word(S + 1), P, M), z, fetch(M, S))
      /\ \A addr : During(read_z(s, addr), i, b, c, Arc(R, F, S, P, M), fetch(M, addr), w)
  BY ReadsDuring
<1>2. \A Q, N, T, z1, w1 : During(exec(s), i, b, c, Arc(R, F, Q, N, T), z1, w1)
        => exec(s).state = "EXECUTING" /\ During(Turn(s), i, b, d, Arc(R, F, Q, N, T), z1, w1)
  BY CallGoesOn
<1>3. exec(s) = fetch_z(s) => /\ exec(s).state = "EXECUTING"
        /\ During(Turn(s), i, b, d, Arc(R, F, S, Word(P + 1), M), fetch(M, P), w)
  BY <1>1, <1>2
<1>4. exec(s) = fetch_w(s) => /\ exec(s).state = "EXECUTING"
        /\ During(Turn(s), i, b, d, Arc(R, F, S, Word(P + 1), M), z, fetch(M, P))
  BY <1>1, <1>2
<1>5. exec(s) = pop_z(s) => /\ exec(s).state = "EXECUTING"
        /\ During(Turn(s), i, b, d, Arc(R, F, Word(S + 1), P, M), fetch(M, S), w)
  BY <1>1, <1>2
<1>6. exec(s) = pop_w(s) => /\ exec(s).state = "EXECUTING"
        /\ During(Turn(s), i, b, d, Arc(R, F, Word(S + 1), P, M), z, fetch(M, S))
  BY <1>1, <1>2
<1>7. \A addr : exec(s) = read_z(s, addr) => /\ exec(s).state = "EXECUTING"
        /\ During(Turn(s), i, b, d, Arc(R, F, S, P, M), fetch(M, addr), w)
  BY <1>1, <1>2
<1> QED BY <1>3, <1>4, <1>5, <1>6, <1>7

LEMMA LdR16Imm16Does ==
  ASSUME NEW s, NEW i, NEW b, NEW x, NEW y, NEW z, NEW R, NEW F, NEW S, NEW P, NEW M,
         Begins(s, i, b, x, y, z, R, F, S, P, M), i.exec = "ld_r16_imm16"
  PROVE  Within5(s, Arc(R, F, S, P, M))
<1> DEFINE a == Arc(R, F, S, P, M)
           p == y \div 2
           lo == fetch(M, Word(P + 1))
           hi == fetch(M, Word(P + 2))
           v == 256 * hi + lo
           u == Arc(PairWith(R, p, v), F, SpWith(S, p, v), Word(P + 3), M)
<1>0. x = 0 /\ y % 2 = 0 /\ z = 1 /\ i.shift = 4 /\ Octal(b, x, y, z) /\ b = fetch(M, P)
      /\ IsArch(R, F, S, P, M)
  BY DEF Begins, MainCode
<1>1. PICK z0, w0 : During(s, i, b, 0, Arc(R, F, S, Word(P + 1), M), z0, w0)
  BY DEF Begins
<1>2. exec(s) = fetch_z(s)
  BY <1>1, DuringFields DEF exec, exec_ld_r16_imm16
<1> DEFINE s1 == Turn(s)
<1>3. exec(s).state = "EXECUTING" /\ During(s1, i, b, 1, Arc(R, F, S, Word(P + 2), M), lo, w0)
  <2>1. Word(Word(P + 1) + 1) = Word(P + 2)
    BY BeginFacts
  <2> QED BY <1>1, <1>2, <2>1, ReadTurns
<1> DEFINE s2 == Turn(s1)
<1> HIDE DEF s1
<1>4. exec(s1) = fetch_w(s1)
  <2>1. s1.instr = i /\ s1.cycle = 1
    BY <1>3, DuringFields
  <2> QED BY <2>1 DEF exec, exec_ld_r16_imm16
<1>5. exec(s1).state = "EXECUTING" /\ During(s2, i, b, 2, Arc(R, F, S, Word(P + 3), M), lo, hi)
  <2>1. Word(Word(P + 2) + 1) = Word(P + 3)
    BY BeginFacts
  <2> QED BY <1>3, <1>4, <2>1, ReadTurns
<1> HIDE DEF s2
<1>6. s2.ir = b /\ s2.instr = i /\ s2.cycle = 2 /\ s2.z = lo /\ s2.w = hi
  BY <1>5, DuringFields
<1>7. decode_reg16(s2) = Names[1 + p]
  BY <1>0, <1>6, Decodes DEF decode_reg16, Names
<1> DEFINE t == set_reg16(s2, Names[1 + p], v)
<1>8. exec(s2) = done(t)
  BY <1>6, <1>7 DEF exec, exec_ld_r16_imm16, wz
<1>9. During(t, i, b, 2, u, lo, hi)
  BY <1>5, PairWrites, BeginFacts
<1>10. Becomes(a, u)
  <2>1. u = InstructionSet!Low(a, y, z)
    <3>1. InstructionSet!Low(a, y, z) = InstructionSet!Skip(InstructionSet!SetPair(a, p, InstructionSet!Imm16(a)), 3)
      BY <1>0 DEF InstructionSet!Low
    <3>2. InstructionSet!Imm16(a) = v
      BY <1>0, IsaReads
    <3>3. InstructionSet!SetPair(a, p, v) = Arc(PairWith(R, p, v), F, SpWith(S, p, v), P, M)
      BY <1>0, IsaPairs, BeginFacts
    <3> QED BY <3>1, <3>2, <3>3, IsaMoves
  <2> QED BY <1>0, <2>1, BecomesBy
<1>11. Ends(s2, a)
  BY <1>8, <1>9, <1>10, CallEnds, BeginFacts
<1> QED BY <1>3, <1>5, <1>11, Calls DEF s1, s2
=============================================================================
