---------------------------------- MODULE Ppu ----------------------------------
(***************************************************************************)
(* The PPU of src/gb/ppu.c, T cycle by T cycle, with the two other parts   *)
(* of an M cycle that reach its registers: the CPU's stores (do_io_store   *)
(* and do_oam_store of cpu.c) and the OAM DMA (do_oam_dma of gameboy.c).   *)
(* mcycle runs them in the order phase counts: the CPU, the DMA, four T    *)
(* cycles.  The lengths of the modes are constants, so that TLC can take   *)
(* short ones; like the code's 79, 171, 203 and 455 they are 3 modulo 4 in *)
(* the instances, and the CPU meets a mode at the same offsets.            *)
(*                                                                         *)
(* Of an object the y coordinate is kept, and every object is taken to be  *)
(* on the screen horizontally; of the picture, which rows were drawn.  The *)
(* OAM holds DMA_MCYCLES objects: a DMA cycle copies one.                  *)
(***************************************************************************)
EXTENDS Integers, FiniteSets

CONSTANTS
  OAM_TICKS, DRAW_TICKS, HBLANK_TICKS, VBLANK_TICKS,  \* 79, 171, 203, 455
  SCREEN_HEIGHT,      \* 144, rows of the lcd
  YMAX,               \* 153, last line of a frame
  TILE_HEIGHT,        \* 8
  TILE_BIG_HEIGHT,    \* 16
  MAX_SCANLINE_OBJS,  \* 10
  DMA_MCYCLES,        \* 160 (bytes) in the code
  Ys,                 \* y coordinates of objects
  Pages,              \* what a DMA may copy: sequences of DMA_MCYCLES Ys
  LYCs,               \* values the program stores in LYC
  Irqs                \* values it stores in the interrupt bits of STAT

HBLANK == 0
VBLANK == 1
OAM_SCAN == 2
DRAWING == 3
STAT_LYC_IRQ == 4   \* beside the modes in irq

ASSUME TickAssumption ==
  {OAM_TICKS, DRAW_TICKS, HBLANK_TICKS, VBLANK_TICKS} \subseteq Nat \ {0}
ASSUME LineAssumption ==
  /\ SCREEN_HEIGHT \in Nat \ {0} /\ YMAX \in Nat /\ SCREEN_HEIGHT <= YMAX
  /\ LYCs \subseteq Nat
ASSUME OamAssumption ==
  /\ DMA_MCYCLES \in Nat \ {0} /\ Ys \subseteq Nat
  /\ Pages \subseteq [1 .. DMA_MCYCLES -> Ys] /\ MAX_SCANLINE_OBJS \in Nat
  /\ TILE_HEIGHT \in Nat /\ TILE_BIG_HEIGHT \in Nat
ASSUME IrqAssumption == Irqs \subseteq SUBSET {HBLANK, VBLANK, OAM_SCAN, STAT_LYC_IRQ}

VARIABLES
  phase,      \* 0: CPU, 1: OAM DMA, 2 .. 5: T cycles
  lcdc_on,    \* LCDC_ENABLED
  big,        \* LCDC_OBJ_SIZE
  mode,       \* STAT_PPU_STATE, bits 0 and 1 of STAT
  lyc_eq,     \* STAT_LC_EQ_LYC, bit 2
  irq,        \* STAT_MODE_n_IRQ and STAT_LYC_IRQ, bits 3 to 6
  LY, LYC,
  irf,        \* MEM_IF: the bits IF_VBLANK and IF_LCD
  ticks, objs,                \* struct Ppu; the y of the objects, by place in OAM
  oam, dma_ticks, dma_page,   \* OAM, dma_ticks_remaining, and what MEM_DMA names
  failed,     \* fail() has ended the program
  drawn,      \* rows of the lcd drawn since the frame began
  since       \* history: what the CPU stored since the frame began (STAT),
              \* LY was stored (LYC), OAM was scanned (SIZE), a DMA began (OAM)

statVars == <<lcdc_on, big, mode, lyc_eq, irq, LY, LYC, irf>>
ppuVars  == <<ticks, objs, drawn>>
oamVars  == <<oam, dma_ticks, dma_page>>
vars == <<phase, statVars, ppuVars, oamVars, failed, since>>

OamPlaces == 1 .. DMA_MCYCLES
NoObjs == [i \in {} |-> 0]
NoObjects == [i \in OamPlaces |-> 0]

TypeOK ==
  /\ phase \in 0 .. 5
  /\ lcdc_on \in BOOLEAN /\ big \in BOOLEAN
  /\ mode \in {HBLANK, VBLANK, OAM_SCAN, DRAWING}
  /\ lyc_eq \in BOOLEAN /\ irq \in Irqs \cup {{}}
  /\ LY \in 0 .. YMAX /\ LYC \in LYCs \cup {0}
  /\ irf \subseteq {"VBLANK", "LCD"}
  /\ ticks \in Nat
  /\ DOMAIN objs \subseteq OamPlaces /\ objs \in [DOMAIN objs -> Ys \cup {0}]
  /\ Cardinality(DOMAIN objs) <= MAX_SCANLINE_OBJS
  /\ oam \in [OamPlaces -> Ys \cup {0}]
  /\ dma_ticks \in 0 .. DMA_MCYCLES + 1
  /\ dma_page \in Pages \cup {NoObjects}
  /\ failed \in BOOLEAN
  /\ drawn \subseteq 0 .. SCREEN_HEIGHT - 1
  /\ since \subseteq {"STAT", "LYC", "SIZE", "OAM"}

\* init_gameboy: the state the boot ROM leaves, LY = 0 in a vertical blank.
Init ==
  /\ phase = 0
  /\ lcdc_on = TRUE /\ big = FALSE /\ mode = VBLANK /\ lyc_eq = TRUE
  /\ irq = {} /\ LY = 0 /\ LYC = 0 /\ irf = {"VBLANK"}
  /\ ticks = 0 /\ objs = NoObjs
  /\ oam = NoObjects /\ dma_ticks = 0 /\ dma_page = NoObjects
  /\ failed = FALSE /\ drawn = {} /\ since = {"OAM"}

NextPhase == ~failed /\ phase' = (phase + 1) % 6

-----------------------------------------------------------------------------
(* store() and set_ppu_mode() of ppu.c.                                    *)

\* Mutant: the bit is set on a match and never cleared.
LycMatchSticky(ly) == lyc_eq \/ (LY # LYC /\ ly = LYC)
LycMatch(ly) == LY # LYC /\ ly = LYC

\* C's && binds closer than ||: only mode 0 looks at whether the PPU is on.
\* Mutant: no mode does.
ModeIrqAnytime(m) == m \in irq
ModeIrq(m) == m \in irq /\ (m = HBLANK => lcdc_on)

SetLine(ly) ==
  /\ LY' = ly
  /\ lyc_eq' = LycMatch(ly)

\* The requests of set_ppu_mode(m) and then store(LY, ly).
Requests(m, ly) ==
  IF ModeIrq(m) \/ (LY # LYC /\ ly = LYC /\ STAT_LYC_IRQ \in irq) THEN {"LCD"} ELSE {}

-----------------------------------------------------------------------------
(* The CPU's part of an M cycle: at most one store that reaches these      *)
(* registers.  During a DMA store() drops it.  An interrupt call clears a  *)
(* bit of IF at any time.                                                  *)

CpuStore == phase = 0 /\ NextPhase /\ dma_ticks = 0

CpuOther ==
  /\ phase = 0 /\ NextPhase
  /\ UNCHANGED <<statVars, ppuVars, oamVars, failed, since>>

ClearIf(i) ==
  /\ phase = 0 /\ NextPhase
  /\ i \in irf /\ irf' = irf \ {i}
  /\ UNCHANGED <<lcdc_on, big, mode, lyc_eq, irq, LY, LYC, ppuVars, oamVars,
                 failed, since>>

StoreLcdc(on, size) ==
  /\ CpuStore
  /\ lcdc_on' = on /\ big' = size
  /\ IF on /\ ~lcdc_on
       THEN /\ mode' = OAM_SCAN /\ ticks' = 0 /\ SetLine(0)     \* ppu_enable
            /\ irf' = irf \cup Requests(OAM_SCAN, 0)
            /\ drawn' = {}
            /\ since' = (since \ {"STAT", "LYC"}) \cup
                          (IF size # big THEN {"SIZE"} ELSE {})
       ELSE /\ since' = IF size # big THEN since \cup {"SIZE"} ELSE since
            /\ UNCHANGED <<mode, ticks, LY, lyc_eq, irf, drawn>>
  /\ UNCHANGED <<irq, LYC, objs, oamVars, failed>>

\* The lower three bits of the value are masked off, and the rest is stored
\* over the whole register.
StoreStat(bits) ==
  /\ CpuStore
  /\ irq' = bits /\ mode' = HBLANK /\ lyc_eq' = FALSE
  /\ since' = since \cup {"STAT"}
  /\ UNCHANGED <<lcdc_on, big, LY, LYC, irf, ppuVars, oamVars, failed>>

StoreLyc(ly) ==
  /\ CpuStore
  /\ LYC' = ly
  /\ since' = since \cup {"LYC"}
  /\ UNCHANGED <<lcdc_on, big, mode, lyc_eq, irq, LY, irf, ppuVars, oamVars,
                 failed>>

StoreOam(i, y) ==
  /\ CpuStore
  /\ lcdc_on => mode \notin {OAM_SCAN, DRAWING}
  /\ oam' = [oam EXCEPT ![i] = y]
  /\ since' = since \cup {"OAM"}
  /\ UNCHANGED <<statVars, ppuVars, dma_ticks, dma_page, failed>>

\* Mutant: the first cycle of the count is forgotten with the setup cycle.
DmaStartEarly == DMA_MCYCLES - 1
DmaStart == DMA_MCYCLES + 1     \* DMA_SETUP_MCYCLES = 1

StoreDma(page) ==
  /\ CpuStore
  /\ dma_page' = page /\ dma_ticks' = DmaStart
  /\ since' = since \ {"OAM"}
  /\ UNCHANGED <<statVars, ppuVars, oam, failed>>

CpuStep ==
  \/ CpuOther
  \/ \E i \in {"VBLANK", "LCD"} : ClearIf(i)
  \/ \E on, size \in BOOLEAN : StoreLcdc(on, size)
  \/ \E bits \in Irqs : StoreStat(bits)
  \/ \E ly \in LYCs : StoreLyc(ly)
  \/ \E i \in OamPlaces, y \in Ys : StoreOam(i, y)
  \/ \E page \in Pages : StoreDma(page)

-----------------------------------------------------------------------------
(* do_oam_dma.                                                             *)

DmaOff ==
  /\ phase = 1 /\ NextPhase
  /\ dma_ticks = 0
  /\ UNCHANGED <<statVars, ppuVars, oamVars, failed, since>>

DmaSetup ==
  /\ phase = 1 /\ NextPhase
  /\ dma_ticks > DMA_MCYCLES
  /\ dma_ticks' = dma_ticks - 1
  /\ UNCHANGED <<statVars, ppuVars, oam, dma_page, failed, since>>

DmaCopy ==
  /\ phase = 1 /\ NextPhase
  /\ dma_ticks \in 1 .. DMA_MCYCLES
  /\ LET i == DMA_MCYCLES - dma_ticks + 1
     IN  oam' = [oam EXCEPT ![i] = dma_page[i]]
  /\ dma_ticks' = dma_ticks - 1
  /\ UNCHANGED <<statVars, ppuVars, dma_page, failed, since>>

DmaStep == DmaOff \/ DmaSetup \/ DmaCopy

-----------------------------------------------------------------------------
(* ppu_tcycle.                                                             *)

TCycle(on) == phase \in 2 .. 5 /\ NextPhase /\ lcdc_on = on

PpuOff ==
  /\ TCycle(FALSE)
  /\ mode' = HBLANK /\ ticks' = 0 /\ SetLine(0)
  /\ irf' = irf \cup Requests(HBLANK, 0)
  /\ since' = since \ {"LYC"}
  /\ UNCHANGED <<lcdc_on, big, irq, LYC, objs, drawn, oamVars, failed>>

\* ticks is counted first, and then compared: a mode that starts with 0
\* ticks takes as many T cycles as it compares with.
LastTick ==
  \/ mode = OAM_SCAN /\ ticks + 1 = OAM_TICKS
  \/ mode = DRAWING  /\ ticks + 1 >= DRAW_TICKS
  \/ mode = HBLANK   /\ ticks + 1 >= HBLANK_TICKS
  \/ mode = VBLANK   /\ ticks + 1 >= VBLANK_TICKS

Tick ==
  /\ TCycle(TRUE) /\ ~LastTick
  /\ ticks' = ticks + 1
  /\ UNCHANGED <<statVars, objs, drawn, oamVars, failed, since>>

obj_height == IF big THEN TILE_BIG_HEIGHT ELSE TILE_HEIGHT

\* Mutant: the row below the object counts as one of its rows.
OnLineBelow(y) ==
  y - TILE_BIG_HEIGHT <= LY /\ y - TILE_BIG_HEIGHT + obj_height >= LY
OnLine(y) ==
  y - TILE_BIG_HEIGHT <= LY /\ y - TILE_BIG_HEIGHT + obj_height > LY

\* The objects at the places s of OAM that are kept: the first ones.
\* Mutant: every object on the line is kept, however many there are.
ScanLimitNone(s) == s
ScanLimit(s) == {i \in s : Cardinality({j \in s : j < i}) < MAX_SCANLINE_OBJS}

\* During a DMA the PPU reads 0xFF from OAM, which is the y of no line.
do_oam_scan ==
  /\ TCycle(TRUE) /\ LastTick /\ mode = OAM_SCAN
  /\ objs' = IF dma_ticks > 0 THEN NoObjs
             ELSE [i \in ScanLimit({j \in OamPlaces : OnLine(oam[j])}) |-> oam[i]]
  /\ ticks' = 0 /\ mode' = DRAWING
  /\ irf' = irf \cup Requests(DRAWING, LY)
  /\ since' = since \ {"SIZE"}
  /\ UNCHANGED <<lcdc_on, big, lyc_eq, irq, LY, LYC, drawn, oamVars, failed>>

\* get_obj_color_index takes a row that is not one of the object's for an
\* error.
RowsOk == \A i \in DOMAIN objs :
            LY - (objs[i] - TILE_BIG_HEIGHT) \in 0 .. obj_height - 1

do_drawing ==
  /\ TCycle(TRUE) /\ LastTick /\ mode = DRAWING
  /\ RowsOk
  /\ drawn' = drawn \cup {LY}
  /\ ticks' = 0 /\ mode' = HBLANK
  /\ irf' = irf \cup Requests(HBLANK, LY)
  /\ UNCHANGED <<lcdc_on, big, lyc_eq, irq, LY, LYC, objs, oamVars, failed,
                 since>>

DrawingFails ==
  /\ TCycle(TRUE) /\ LastTick /\ mode = DRAWING
  /\ ~RowsOk
  /\ failed' = TRUE
  /\ UNCHANGED <<statVars, ppuVars, oamVars, since>>

\* Mutants: one line too many, one too few, and the wrong limit.
AfterHblankMore(y)  == IF y <= SCREEN_HEIGHT - 1 THEN OAM_SCAN ELSE VBLANK
AfterHblankFewer(y) == IF y < SCREEN_HEIGHT - 2 THEN OAM_SCAN ELSE VBLANK
AfterHblankNever(y) == IF y < YMAX THEN OAM_SCAN ELSE VBLANK
AfterHblank(y) == IF y < SCREEN_HEIGHT - 1 THEN OAM_SCAN ELSE VBLANK

do_hblank ==
  /\ TCycle(TRUE) /\ LastTick /\ mode = HBLANK
  /\ LET m  == AfterHblank(LY)
         ly == (LY + 1) % YMAX
     IN  /\ mode' = m /\ SetLine(ly)
         /\ irf' = irf \cup Requests(m, ly)
                     \cup (IF m = VBLANK THEN {"VBLANK"} ELSE {})
  /\ ticks' = 0
  /\ since' = since \ {"LYC"}
  /\ UNCHANGED <<lcdc_on, big, irq, LYC, objs, drawn, oamVars, failed>>

VblankLine ==
  /\ TCycle(TRUE) /\ LastTick /\ mode = VBLANK
  /\ LY < YMAX
  /\ SetLine(LY + 1) /\ ticks' = 0
  /\ irf' = irf \cup (IF LY + 1 = LYC /\ STAT_LYC_IRQ \in irq THEN {"LCD"} ELSE {})
  /\ since' = since \ {"LYC"}
  /\ UNCHANGED <<lcdc_on, big, mode, irq, LYC, objs, drawn, oamVars, failed>>

NewFrame ==
  /\ TCycle(TRUE) /\ LastTick /\ mode = VBLANK
  /\ LY = YMAX
  /\ mode' = OAM_SCAN /\ SetLine(0) /\ ticks' = 0
  /\ irf' = irf \cup Requests(OAM_SCAN, 0)
  /\ drawn' = {}
  /\ since' = since \ {"STAT", "LYC"}
  /\ UNCHANGED <<lcdc_on, big, irq, LYC, objs, oamVars, failed>>

do_vblank == VblankLine \/ NewFrame

PpuStep == \/ PpuOff \/ Tick \/ do_oam_scan \/ do_drawing \/ DrawingFails
           \/ do_hblank \/ do_vblank

-----------------------------------------------------------------------------

\* fail() exits.
Exited == failed /\ UNCHANGED vars

Next == CpuStep \/ DmaStep \/ PpuStep \/ Exited

Spec == Init /\ [][Next]_vars

\* The emulator keeps running M cycles, whatever the program does in them.
FairSpec == Spec /\ WF_vars(Next)

-----------------------------------------------------------------------------
(* Properties.                                                             *)

\* The line being scanned or drawn is a row of lcd, also after stores to
\* STAT have put the PPU in another mode: g->lcd[y][x] stays in bounds.  And the
\* OAM scan never starts past ticks == 79, the only tick on which it ends
\* (ppu.c:54, 172, 188-189).
LinesInBounds ==
  /\ mode \in {OAM_SCAN, DRAWING} => LY < SCREEN_HEIGHT
  /\ mode = OAM_SCAN => ticks < OAM_TICKS

\* Drawing finds an object that does not cover the line, and ends the
\* program, only when the size of objects was changed since the scan
\* (ppu.c:68, 119-121).
ScannedRowsExist == failed => "SIZE" \in since

\* A vertical blank that no store to STAT has brought about follows a whole
\* picture (ppu.c:172, 188).
WholeFrame ==
  [][mode = HBLANK /\ mode' = VBLANK /\ "STAT" \notin since
       => drawn = 0 .. SCREEN_HEIGHT - 1]_vars

\* STAT never says that LY equals LYC when it does not, unless LYC was
\* stored since (ppu.c:10-20).
NoFalseMatch == lyc_eq /\ "LYC" \notin since => LY = LYC

\* The LCD interrupt is requested when the mode or the line changes, and not
\* over and over, nor by a PPU that stays off (ppu.c:34-38, 219).
OneRequest ==
  [][irf' # irf /\ "LCD" \in irf' \ irf => mode' # mode \/ LY' # LY]_vars

\* A DMA that is over has copied the page, all of it, and nothing but a
\* later store changes OAM (gameboy.c:215-228, cpu.c:192-195).
DmaCopied == dma_ticks = 0 /\ "OAM" \notin since => oam = dma_page

\* A PPU that stays on comes to the vertical blank, also when the program
\* keeps storing to STAT (ppu.c:216-239).
BlankComes == lcdc_on ~> (mode = VBLANK \/ ~lcdc_on \/ failed)

=============================================================================
