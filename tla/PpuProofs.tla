------------------------------- MODULE PpuProofs -------------------------------
(***************************************************************************)
(* Proofs about Ppu, for any lengths of the modes, any number of lines and *)
(* whatever the program stores.                                            *)
(***************************************************************************)
EXTENDS Ppu, FiniteSetTheorems, TLAPS

Modes == {HBLANK, VBLANK, OAM_SCAN, DRAWING}

-----------------------------------------------------------------------------
(* The line and the ticks of a mode.                                       *)

\* A number below the modulus is its own remainder.
LEMMA SmallMod ==
  ASSUME NEW a \in Nat, NEW b \in Nat, a < b
  PROVE  a % b = a
BY SMT

\* A remainder is a natural number.
LEMMA ModNat ==
  ASSUME NEW a \in Nat, NEW b \in Nat \ {0}
  PROVE  a % b \in Nat
BY SMT

\* That the scan of a line starts with few ticks, and the line is a row of
\* the lcd, is inductive once LY and ticks are numbers: do_hblank leaves only
\* the rows above the last one for another scan.
LineInv ==
  /\ mode \in Modes /\ LY \in Nat /\ ticks \in Nat
  /\ LinesInBounds

\* init_gameboy establishes it.
LEMMA LineInit == Init => LineInv
BY DEF Init, LineInv, LinesInBounds, Modes, HBLANK, VBLANK,
       OAM_SCAN, DRAWING

\* Every step keeps it.
LEMMA LineStep ==
  ASSUME LineInv, [Next]_vars
  PROVE  LineInv'
<1> USE DEF LineInv, LinesInBounds, Modes, HBLANK, VBLANK, OAM_SCAN,
            DRAWING
<1> USE TickAssumption, LineAssumption
<1>1. ASSUME NEW on \in BOOLEAN, NEW size \in BOOLEAN, StoreLcdc(on, size)
      PROVE  LineInv'
  <2>1. CASE on /\ ~lcdc_on
    <3>1. mode' = OAM_SCAN /\ ticks' = 0 /\ LY' = 0
      BY <1>1, <2>1 DEF StoreLcdc, SetLine
    <3> QED BY <3>1
  <2>2. CASE ~(on /\ ~lcdc_on)
    <3>1. UNCHANGED <<mode, ticks, LY>>
      BY <1>1, <2>2 DEF StoreLcdc
    <3> QED BY <3>1
  <2> QED BY <2>1, <2>2
<1>2. ASSUME NEW bits \in Irqs, StoreStat(bits) PROVE LineInv'
  BY <1>2 DEF StoreStat, ppuVars
<1>3. CASE PpuOff
  BY <1>3 DEF PpuOff, SetLine
<1>4. CASE Tick
  <2>1. OAM_TICKS \in Nat \ {0}
    OBVIOUS
  <2>2. UNCHANGED <<mode, LY>> /\ ticks' = ticks + 1
    BY <1>4 DEF Tick, statVars
  <2>3. mode = OAM_SCAN => ticks + 1 # OAM_TICKS
    BY <1>4 DEF Tick, LastTick
  <2>4. ticks' \in Nat /\ (mode = OAM_SCAN => ticks' < OAM_TICKS)
    BY <2>1, <2>2, <2>3
  <2> QED BY <2>2, <2>4
<1>5. CASE do_oam_scan \/ do_drawing
  <2>1. mode \in {OAM_SCAN, DRAWING} /\ mode' \in {DRAWING, HBLANK}
    BY <1>5 DEF do_oam_scan, do_drawing
  <2>2. ticks' = 0 /\ LY' = LY
    BY <1>5 DEF do_oam_scan, do_drawing
  <2> QED BY <2>1, <2>2
<1>6. CASE do_hblank
  <2>1. LY' = (LY + 1) % YMAX /\ mode' = AfterHblank(LY) /\ ticks' = 0
    BY <1>6 DEF do_hblank, SetLine
  <2>2. LY' \in Nat
    BY <2>1, ModNat
  <2>3. CASE LY < SCREEN_HEIGHT - 1
    <3>1. LY' = LY + 1
      BY <2>1, <2>3, SmallMod
    <3> QED BY <2>1, <2>3, <3>1 DEF AfterHblank
  <2>4. CASE ~(LY < SCREEN_HEIGHT - 1)
    BY <2>1, <2>2, <2>4 DEF AfterHblank
  <2> QED BY <2>3, <2>4
<1>7. CASE VblankLine
  BY <1>7 DEF VblankLine, SetLine
<1>8. CASE NewFrame
  BY <1>8 DEF NewFrame, SetLine
<1>9. CASE UNCHANGED <<mode, LY, ticks>>
  BY <1>9
<1> QED BY <1>1, <1>2, <1>3, <1>4, <1>5, <1>6, <1>7, <1>8, <1>9 DEF Next,
      CpuStep, CpuOther, ClearIf, StoreLyc, StoreOam, StoreDma, DmaStep, DmaOff,
      DmaSetup, DmaCopy, PpuStep, DrawingFails, do_vblank, Exited, vars,
      statVars, ppuVars

\* The PPU never scans or draws below the last row of lcd, nor starts a scan too
\* late to see the tick it ends on (ppu.c:54), whatever the lengths of the
\* modes and whenever the program stores to STAT or LCDC (ppu.c:172, 188-189).
THEOREM LcdBounds == Spec => []LinesInBounds
<1>1. LineInv => LinesInBounds
  BY DEF LineInv
<1> QED BY <1>1, LineInit, LineStep, PTL DEF Spec

-----------------------------------------------------------------------------
(* The bit of STAT for LYC, the interrupts of the LCD, and the DMA.        *)

\* Bit 2 of STAT never says that LY equals LYC when it does not, unless LYC
\* was stored since LY was (ppu.c:10-20).
THEOREM LycBit == Spec => []NoFalseMatch
<1> DEFINE LycInv == lyc_eq \in BOOLEAN /\ NoFalseMatch
<1>1. Init => LycInv
  BY DEF Init, NoFalseMatch
<1>2. ASSUME LycInv, [Next]_vars PROVE LycInv'
  <2> USE <1>2 DEF NoFalseMatch
  <2>1. ASSUME NEW ly, SetLine(ly), UNCHANGED LYC PROVE LycInv'
    BY <2>1 DEF SetLine, LycMatch
  <2>2. ASSUME NEW on \in BOOLEAN, NEW size \in BOOLEAN, StoreLcdc(on, size)
        PROVE  LycInv'
    <3>1. CASE on /\ ~lcdc_on
      BY <2>1, <2>2, <3>1 DEF StoreLcdc
    <3>2. CASE ~(on /\ ~lcdc_on)
      <4>1. UNCHANGED <<lyc_eq, LY, LYC>> /\ since' \in {since, since \cup {"SIZE"}}
        BY <2>2, <3>2 DEF StoreLcdc
      <4> QED BY <4>1
    <3> QED BY <3>1, <3>2
  <2>3. ASSUME NEW bits \in Irqs, StoreStat(bits) PROVE LycInv'
    BY <2>3 DEF StoreStat
  <2>4. ASSUME NEW ly \in LYCs, StoreLyc(ly) PROVE LycInv'
    BY <2>4 DEF StoreLyc
  <2>5. ASSUME NEW i \in OamPlaces, NEW y \in Ys, StoreOam(i, y)
        PROVE  LycInv'
    BY <2>5 DEF StoreOam, statVars
  <2>6. ASSUME NEW page \in Pages, StoreDma(page) PROVE LycInv'
    BY <2>6 DEF StoreDma, statVars
  <2>7. CASE PpuOff \/ do_hblank \/ VblankLine \/ NewFrame
    BY <2>1, <2>7 DEF PpuOff, do_hblank, VblankLine, NewFrame
  <2>8. CASE do_oam_scan
    BY <2>8 DEF do_oam_scan
  <2>9. CASE UNCHANGED <<lyc_eq, LY, LYC, since>>
    BY <2>9
  <2> QED BY <1>2, <2>2, <2>3, <2>4, <2>5, <2>6, <2>7, <2>8, <2>9 DEF Next,
        CpuStep, CpuOther, ClearIf, DmaStep, DmaOff, DmaSetup, DmaCopy,
        PpuStep, Tick, do_drawing, DrawingFails, do_vblank, Exited, vars,
        statVars
<1>3. LycInv => NoFalseMatch
  OBVIOUS
<1> HIDE DEF LycInv
<1> QED BY <1>1, <1>2, <1>3, PTL DEF Spec

\* What a DMA has copied so far.  OAM has the shape of a page, and the page
\* does not change while the DMA runs, since store() drops what the CPU
\* stores then (cpu.c:335-339).
DmaInv ==
  /\ oam \in [OamPlaces -> Ys \cup {0}]
  /\ dma_page \in [OamPlaces -> Ys \cup {0}]
  /\ dma_ticks \in 0 .. DMA_MCYCLES + 1
  /\ "OAM" \notin since =>
       \A i \in OamPlaces : i <= DMA_MCYCLES - dma_ticks => oam[i] = dma_page[i]

\* Every step keeps it.
LEMMA DmaInvStep ==
  ASSUME DmaInv, [Next]_vars
  PROVE  DmaInv'
<1> USE DEF DmaInv, OamPlaces
<1>1. DMA_MCYCLES \in Nat \ {0}
  BY OamAssumption
<1>2. ASSUME NEW i \in OamPlaces, NEW y \in Ys, StoreOam(i, y)
      PROVE  DmaInv'
  BY <1>2 DEF StoreOam
<1>3. ASSUME NEW page \in Pages, StoreDma(page) PROVE DmaInv'
  <2>1. page \in [OamPlaces -> Ys \cup {0}]
    BY OamAssumption
  <2>2. dma_page' = page /\ dma_ticks' = DMA_MCYCLES + 1 /\ oam' = oam
    BY <1>3 DEF StoreDma, DmaStart
  <2> QED BY <1>1, <2>1, <2>2
<1>4. CASE DmaSetup
  BY <1>1, <1>4 DEF DmaSetup
<1>5. CASE DmaCopy
  <2> DEFINE k == DMA_MCYCLES - dma_ticks + 1
  <2>1. k \in OamPlaces /\ dma_ticks' = dma_ticks - 1
    BY <1>1, <1>5 DEF DmaCopy
  <2>2. oam' = [oam EXCEPT ![k] = dma_page[k]] /\ UNCHANGED <<dma_page, since>>
    BY <1>5 DEF DmaCopy
  <2>3. \A i \in OamPlaces :
           i <= DMA_MCYCLES - dma_ticks' => i = k \/ i <= DMA_MCYCLES - dma_ticks
    BY <1>1, <2>1
  <2>4. dma_ticks' \in 0 .. DMA_MCYCLES + 1
    BY <1>1, <1>5 DEF DmaCopy
  <2> HIDE DEF k
  <2> QED BY <2>1, <2>2, <2>3, <2>4
<1>6. CASE UNCHANGED oamVars /\ ("OAM" \in since' <=> "OAM" \in since)
  BY <1>6 DEF oamVars
<1>7. ASSUME NEW on \in BOOLEAN, NEW size \in BOOLEAN, StoreLcdc(on, size)
      PROVE  "OAM" \in since' <=> "OAM" \in since
  <2>1. CASE on /\ ~lcdc_on
    BY <1>7, <2>1 DEF StoreLcdc
  <2>2. CASE ~(on /\ ~lcdc_on)
    <3>1. since' \in {since, since \cup {"SIZE"}}
      BY <1>7, <2>2 DEF StoreLcdc
    <3> QED BY <3>1
  <2> QED BY <2>1, <2>2
<1>8. ASSUME NEW on \in BOOLEAN, NEW size \in BOOLEAN, StoreLcdc(on, size)
      PROVE  DmaInv'
  BY <1>6, <1>7, <1>8 DEF StoreLcdc
<1>9. CASE CpuOther \/ (\E i \in {"VBLANK", "LCD"} : ClearIf(i))
             \/ (\E bits \in Irqs : StoreStat(bits))
             \/ (\E ly \in LYCs : StoreLyc(ly))
  BY <1>6, <1>9 DEF CpuOther, ClearIf, StoreStat, StoreLyc
<1>10. CASE DmaOff \/ PpuStep \/ Exited \/ UNCHANGED vars
  BY <1>6, <1>10 DEF DmaOff, PpuStep, PpuOff, Tick, do_oam_scan, do_drawing,
       DrawingFails, do_hblank, do_vblank, VblankLine, NewFrame, Exited, vars
<1> QED BY <1>2, <1>3, <1>4, <1>5, <1>8, <1>9, <1>10 DEF Next, CpuStep, DmaStep

\* Two images of OAM with the same objects are equal.
LEMMA SameImage ==
  ASSUME NEW S, NEW D, NEW f \in [D -> S], NEW g \in [D -> S],
         \A i \in D : f[i] = g[i]
  PROVE  f = g
OBVIOUS

\* A DMA that is over has copied the whole page, for any size of OAM and
\* whatever the PPU and the program do meanwhile (gameboy.c:215-228).
THEOREM DmaCopies == Spec => []DmaCopied
<1>1. Init => DmaInv
  BY OamAssumption DEF Init, DmaInv, NoObjects, OamPlaces
<1>2. DmaInv => DmaCopied
  <2> SUFFICES ASSUME DmaInv, dma_ticks = 0, "OAM" \notin since
               PROVE  oam = dma_page
    BY DEF DmaCopied
  <2> DEFINE D == OamPlaces
             S == Ys \cup {0}
  <2>1. \A i \in D : i <= DMA_MCYCLES - dma_ticks
    BY OamAssumption DEF OamPlaces
  <2>2. \A i \in D : oam[i] = dma_page[i]
    BY <2>1 DEF DmaInv
  <2>3. oam \in [D -> S] /\ dma_page \in [D -> S]
    BY DEF DmaInv
  <2> HIDE DEF D, S
  <2> QED BY <2>2, <2>3, SameImage
<1> QED BY <1>1, <1>2, DmaInvStep, PTL DEF Spec
-----------------------------------------------------------------------------
(* The objects of a line, and the types of the variables.                  *)

\* The objects that do_oam_scan keeps are at most as many as ppu->objs has room
\* for: each is counted by those before it.
LEMMA KeptFit ==
  ASSUME NEW s \in SUBSET OamPlaces
  PROVE  Cardinality(ScanLimit(s)) <= MAX_SCANLINE_OBJS
<1> DEFINE Before(i) == {j \in s : j < i}
           K == ScanLimit(s)
           f == [i \in K |-> Cardinality(Before(i)) + 1]
           Seats == 1 .. MAX_SCANLINE_OBJS
<1>1. MAX_SCANLINE_OBJS \in Nat /\ DMA_MCYCLES \in Nat
  BY OamAssumption
<1>2. IsFiniteSet(s) /\ s \subseteq Nat
  <2>1. IsFiniteSet(OamPlaces) /\ OamPlaces \subseteq Nat
    BY <1>1, FS_Interval DEF OamPlaces
  <2> QED BY <2>1, FS_Subset
<1>3. ASSUME NEW i \in s
      PROVE  IsFiniteSet(Before(i)) /\ Cardinality(Before(i)) \in Nat
  <2>1. Before(i) \in SUBSET s
    OBVIOUS
  <2> HIDE DEF Before
  <2>2. IsFiniteSet(Before(i))
    BY <1>2, <2>1, FS_Subset
  <2> QED BY <2>2, FS_CardinalityType
<1>4. K \subseteq s /\ \A i \in K : Cardinality(Before(i)) < MAX_SCANLINE_OBJS
  BY DEF ScanLimit
<1>5. ASSUME NEW i \in s, NEW k \in s, i < k
      PROVE  Cardinality(Before(i)) # Cardinality(Before(k))
  <2>1. i \in Before(k) /\ i \notin Before(i)
    BY <1>2, <1>5
  <2>2. Before(i) \in SUBSET Before(k)
    <3> SUFFICES ASSUME NEW j \in s, j < i PROVE j < k
      OBVIOUS
    <3> QED BY <1>2, <1>5
  <2> HIDE DEF Before
  <2> QED BY <1>3, <2>1, <2>2, FS_Subset
<1> HIDE DEF Before, K
<1>6. f \in [K -> Seats]
  <2> SUFFICES ASSUME NEW i \in K PROVE Cardinality(Before(i)) + 1 \in Seats
    OBVIOUS
  <2> QED BY <1>1, <1>3, <1>4
<1>7. ASSUME NEW i \in K, NEW k \in K, f[i] = f[k] PROVE i = k
  <2>1. i \in s /\ k \in s /\ i \in Nat /\ k \in Nat
    BY <1>2, <1>4
  <2>2. Cardinality(Before(i)) = Cardinality(Before(k))
    BY <1>3, <1>7, <2>1
  <2>3. ~(i < k) /\ ~(k < i)
    BY <1>5, <2>1, <2>2
  <2> QED BY <2>1, <2>3
<1>8. f \in Injection(K, Seats)
  <2> HIDE DEF f, Seats
  <2> QED BY <1>6, <1>7 DEF Injection, IsInjective
<1>9. IsFiniteSet(Seats) /\ Cardinality(Seats) = MAX_SCANLINE_OBJS
  BY <1>1, FS_Interval
<1>10. Cardinality(K) <= Cardinality(Seats)
  BY <1>8, <1>9, FS_Injection
<1> QED BY <1>9, <1>10 DEF K

\* The objects of the line and the OAM they come from.
ObjsOK ==
  /\ DOMAIN objs \subseteq OamPlaces /\ objs \in [DOMAIN objs -> Ys \cup {0}]
  /\ Cardinality(DOMAIN objs) <= MAX_SCANLINE_OBJS

LEMMA ObjsInit == Init => ObjsOK
<1>1. DOMAIN NoObjs = {} /\ NoObjs \in [{} -> Ys \cup {0}]
  BY DEF NoObjs
<1>2. Cardinality({}) = 0 /\ 0 <= MAX_SCANLINE_OBJS
  BY OamAssumption, FS_EmptySet
<1> QED BY <1>1, <1>2 DEF Init, ObjsOK

LEMMA ObjsStep ==
  ASSUME ObjsOK, DmaInv, [Next]_vars
  PROVE  ObjsOK'
<1>1. CASE do_oam_scan
  <2> DEFINE On == {j \in OamPlaces : OnLine(oam[j])}
             K == ScanLimit(On)
  <2>1. On \in SUBSET OamPlaces
    OBVIOUS
  <2> HIDE DEF On
  <2>2. K \subseteq OamPlaces
    BY <2>1 DEF ScanLimit
  <2>3. Cardinality(K) <= MAX_SCANLINE_OBJS
    BY <2>1, KeptFit
  <2>4. objs' = NoObjs \/ objs' = [i \in K |-> oam[i]]
    BY <1>1 DEF do_oam_scan, On
  <2> HIDE DEF K
  <2>5. CASE objs' = NoObjs
    <3>1. Cardinality({}) = 0 /\ 0 <= MAX_SCANLINE_OBJS
      BY OamAssumption, FS_EmptySet
    <3>2. DOMAIN objs' = {} /\ objs' \in [{} -> Ys \cup {0}]
      BY <2>5 DEF NoObjs
    <3> QED BY <3>1, <3>2 DEF ObjsOK
  <2>6. CASE objs' = [i \in K |-> oam[i]]
    <3>1. \A i \in K : oam[i] \in Ys \cup {0}
      BY <2>2 DEF DmaInv
    <3>2. DOMAIN objs' = K /\ objs' \in [K -> Ys \cup {0}]
      BY <2>6, <3>1
    <3> QED BY <2>2, <2>3, <3>2 DEF ObjsOK
  <2> QED BY <2>4, <2>5, <2>6
<1>2. CASE UNCHANGED objs
  BY <1>2 DEF ObjsOK
<1> QED BY <1>1, <1>2 DEF Next, CpuStep, CpuOther, ClearIf, StoreLcdc, StoreStat,
      StoreLyc, StoreOam, StoreDma, DmaStep, DmaOff, DmaSetup, DmaCopy, PpuStep,
      PpuOff, Tick, do_drawing, DrawingFails, do_hblank, do_vblank, VblankLine,
      NewFrame, Exited, vars, ppuVars

\* The line counts to YMAX.  Rows of the lcd are drawn, no others.
RowsInv ==
  /\ LY <= YMAX
  /\ drawn \subseteq 0 .. SCREEN_HEIGHT - 1

LEMMA RowsStep ==
  ASSUME RowsInv, LineInv, [Next]_vars
  PROVE  RowsInv'
<1> USE LineAssumption DEF RowsInv, LineInv
<1>1. ASSUME NEW on \in BOOLEAN, NEW size \in BOOLEAN, StoreLcdc(on, size)
      PROVE  RowsInv'
  <2>1. CASE on /\ ~lcdc_on
    <3>1. LY' = 0 /\ drawn' = {}
      BY <1>1, <2>1 DEF StoreLcdc, SetLine
    <3> QED BY <3>1
  <2>2. CASE ~(on /\ ~lcdc_on)
    <3>1. UNCHANGED <<LY, drawn>>
      BY <1>1, <2>2 DEF StoreLcdc
    <3> QED BY <3>1
  <2> QED BY <2>1, <2>2
<1>2. CASE PpuOff \/ NewFrame
  <2>1. LY' = 0
    BY <1>2 DEF PpuOff, NewFrame, SetLine
  <2>2. drawn' = drawn \/ drawn' = {}
    BY <1>2 DEF PpuOff, NewFrame
  <2>3. drawn' \subseteq 0 .. SCREEN_HEIGHT - 1
    BY <2>2
  <2>4. LY' <= YMAX
    BY <2>1
  <2> QED BY <2>3, <2>4
<1>3. CASE VblankLine
  BY <1>3 DEF VblankLine, SetLine
<1>4. CASE do_hblank
  <2>1. LY' = (LY + 1) % YMAX /\ drawn' = drawn
    BY <1>4 DEF do_hblank, SetLine
  <2>2. YMAX \in Nat \ {0}
    OBVIOUS
  <2>3. LY' <= YMAX
    BY <2>1, <2>2
  <2> QED BY <2>1, <2>3
<1>5. CASE do_drawing
  <2>1. LY < SCREEN_HEIGHT
    BY <1>5 DEF do_drawing, LinesInBounds
  <2>2. LY' = LY /\ drawn' = drawn \cup {LY}
    BY <1>5 DEF do_drawing
  <2> QED BY <2>1, <2>2
<1>6. CASE UNCHANGED <<LY, drawn>>
  BY <1>6
<1> QED BY <1>1, <1>2, <1>3, <1>4, <1>5, <1>6 DEF Next, CpuStep, CpuOther, ClearIf,
      StoreStat, StoreLyc, StoreOam, StoreDma, DmaStep, DmaOff, DmaSetup, DmaCopy,
      PpuStep, Tick, do_oam_scan, DrawingFails, do_vblank, Exited, vars, statVars,
      ppuVars

\* The registers that the program writes, and what it cannot.
FieldsOK ==
  /\ phase \in 0 .. 5
  /\ lcdc_on \in BOOLEAN /\ big \in BOOLEAN
  /\ lyc_eq \in BOOLEAN /\ irq \in Irqs \cup {{}}
  /\ LYC \in LYCs \cup {0}
  /\ irf \subseteq {"VBLANK", "LCD"}
  /\ dma_page \in Pages \cup {NoObjects}
  /\ failed \in BOOLEAN
  /\ since \subseteq {"STAT", "LYC", "SIZE", "OAM"}

\* The parts of an M cycle come in turn.
LEMMA PhaseStep ==
  ASSUME phase \in 0 .. 5, [Next]_vars
  PROVE  phase' \in 0 .. 5
<1>1. CASE NextPhase
  <2>1. phase' = (phase + 1) % 6
    BY <1>1 DEF NextPhase
  <2> QED BY <2>1
<1>2. CASE UNCHANGED phase
  BY <1>2
<1>3. CASE DrawingFails
  BY <1>1, <1>3 DEF DrawingFails, TCycle
<1>4. NextPhase \/ UNCHANGED phase
  BY DEF Next, CpuStep, CpuOther, ClearIf, CpuStore, StoreLcdc, StoreStat, StoreLyc,
     StoreOam, StoreDma, DmaStep, DmaOff, DmaSetup, DmaCopy, PpuStep, TCycle, PpuOff,
     Tick, do_oam_scan, do_drawing, DrawingFails, do_hblank, do_vblank, VblankLine,
     NewFrame, Exited, vars
<1> QED BY <1>1, <1>2, <1>4

LEMMA FieldsStep ==
  ASSUME FieldsOK, [Next]_vars
  PROVE  FieldsOK'
<1>1. phase' \in 0 .. 5
  BY PhaseStep DEF FieldsOK
<1> DEFINE Rest == /\ lcdc_on \in BOOLEAN /\ big \in BOOLEAN
                   /\ lyc_eq \in BOOLEAN /\ irq \in Irqs \cup {{}}
                   /\ LYC \in LYCs \cup {0}
                   /\ irf \subseteq {"VBLANK", "LCD"}
                   /\ dma_page \in Pages \cup {NoObjects}
                   /\ failed \in BOOLEAN
                   /\ since \subseteq {"STAT", "LYC", "SIZE", "OAM"}
<1>2. Rest
  BY DEF FieldsOK
<1> SUFFICES Rest'
  BY <1>1 DEF FieldsOK
<1>3. \A m, ly : Requests(m, ly) \subseteq {"VBLANK", "LCD"}
  BY DEF Requests
<1>4. \A ly : SetLine(ly) => lyc_eq' \in BOOLEAN
  BY DEF SetLine, LycMatch
<1> USE <1>2
<1>5. CASE CpuOther \/ (\E i \in {"VBLANK", "LCD"} : ClearIf(i))
  BY <1>5 DEF CpuOther, ClearIf, statVars, oamVars
<1>6. ASSUME NEW on \in BOOLEAN, NEW size \in BOOLEAN, StoreLcdc(on, size)
      PROVE  Rest'
  <2>1. lcdc_on' = on /\ big' = size /\ UNCHANGED <<irq, LYC, dma_page, failed>>
    BY <1>6 DEF StoreLcdc, oamVars
  <2>2. lyc_eq' \in BOOLEAN
    BY <1>4, <1>6 DEF StoreLcdc
  <2>3. irf' \in {irf, irf \cup Requests(OAM_SCAN, 0)}
    BY <1>6 DEF StoreLcdc
  <2>4. since' \subseteq since \cup {"SIZE"}
    BY <1>6 DEF StoreLcdc
  <2> QED BY <1>3, <2>1, <2>2, <2>3, <2>4
<1>7. CASE \E bits \in Irqs : StoreStat(bits)
  BY <1>7 DEF StoreStat, oamVars
<1>8. CASE \E ly \in LYCs : StoreLyc(ly)
  BY <1>8 DEF StoreLyc, oamVars
<1>9. CASE \E i \in OamPlaces, y \in Ys : StoreOam(i, y)
  BY <1>9 DEF StoreOam, statVars
<1>10. CASE \E page \in Pages : StoreDma(page)
  BY <1>10 DEF StoreDma, statVars
<1>11. CASE DmaStep
  BY <1>11 DEF DmaStep, DmaOff, DmaSetup, DmaCopy, statVars, oamVars
<1>12. CASE PpuOff
  BY <1>3, <1>4, <1>12 DEF PpuOff, oamVars
<1>13. CASE Tick \/ DrawingFails
  BY <1>13 DEF Tick, DrawingFails, statVars, oamVars
<1>14. CASE do_oam_scan \/ do_drawing
  BY <1>3, <1>14 DEF do_oam_scan, do_drawing, oamVars
<1>15. CASE do_hblank
  BY <1>3, <1>4, <1>15 DEF do_hblank, oamVars
<1>16. CASE VblankLine
  BY <1>3, <1>4, <1>16 DEF VblankLine, oamVars
<1>17. CASE NewFrame
  BY <1>3, <1>4, <1>17 DEF NewFrame, oamVars
<1>18. CASE UNCHANGED vars
  BY <1>18 DEF vars, statVars, oamVars
<1> HIDE DEF Rest
<1> QED
  BY <1>5, <1>6, <1>7, <1>8, <1>9, <1>10, <1>11, <1>12, <1>13, <1>14, <1>15, <1>16,
     <1>17, <1>18 DEF Next, CpuStep, PpuStep, do_vblank, Exited

\* Every register stays in its range, and the objects of a line fit in the
\* ten of struct Ppu (gameboy.h:353-367, ppu.c:60-71).
THEOREM TypeCorrect == Spec => []TypeOK
<1>1. Init => FieldsOK
  <2>1. Init => phase \in 0 .. 5
    BY DEF Init
  <2>2. Init => FieldsOK \/ phase \notin 0 .. 5
    BY Zenon DEF Init, FieldsOK
  <2> QED BY <2>1, <2>2
<1>2. Init => RowsInv
  BY LineAssumption DEF Init, RowsInv
<1>3. Init => DmaInv
  BY OamAssumption DEF Init, DmaInv, NoObjects, OamPlaces
<1>4. FieldsOK /\ RowsInv /\ LineInv /\ DmaInv /\ ObjsOK => TypeOK
  <2> SUFFICES ASSUME FieldsOK, RowsInv, LineInv, DmaInv, ObjsOK PROVE TypeOK
    OBVIOUS
  <2>1. LY \in 0 .. YMAX
    BY LineAssumption DEF RowsInv, LineInv
  <2>2. mode \in {HBLANK, VBLANK, OAM_SCAN, DRAWING} /\ ticks \in Nat
    BY DEF LineInv, Modes
  <2>3. oam \in [OamPlaces -> Ys \cup {0}] /\ dma_ticks \in 0 .. DMA_MCYCLES + 1
    BY DEF DmaInv
  <2>4. drawn \subseteq 0 .. SCREEN_HEIGHT - 1
    BY DEF RowsInv
  <2> QED BY <2>1, <2>2, <2>3, <2>4 DEF TypeOK, FieldsOK, ObjsOK
<1> QED BY <1>1, <1>2, <1>3, <1>4, LineInit, ObjsInit, FieldsStep, RowsStep, LineStep,
      DmaInvStep, ObjsStep, PTL DEF Spec

-----------------------------------------------------------------------------
(* The objects that are drawn, the LCD interrupt, and the picture.         *)

\* While a line is drawn its objects are those found by the scan, and each of
\* them still covers the line, since nothing but a change of their size can
\* move their rows.
CoverInv ==
  /\ mode = DRAWING /\ "SIZE" \notin since => RowsOk
  /\ ScannedRowsExist

LEMMA ScanCovers ==
  ASSUME DmaInv, LY \in Nat, do_oam_scan
  PROVE  RowsOk'
<1> DEFINE On == {j \in OamPlaces : OnLine(oam[j])}
           K == ScanLimit(On)
<1>1. objs' = NoObjs \/ objs' = [i \in K |-> oam[i]]
  BY DEF do_oam_scan
<1>2. UNCHANGED <<LY, big>>
  BY DEF do_oam_scan
<1>3. CASE objs' = NoObjs
  BY <1>3 DEF NoObjs, RowsOk
<1>4. CASE objs' = [i \in K |-> oam[i]]
  <2>1. K \subseteq On
    BY DEF ScanLimit
  <2>2. DOMAIN objs' = K /\ \A i \in K : objs'[i] = oam[i]
    BY <1>4 DEF K
  <2> SUFFICES ASSUME NEW i \in K
               PROVE  LY - (oam[i] - TILE_BIG_HEIGHT) \in 0 .. obj_height - 1
    BY <1>2, <2>2 DEF RowsOk, obj_height
  <2>3. i \in OamPlaces /\ OnLine(oam[i])
    BY <2>1
  <2> DEFINE y == oam[i]
             h == obj_height
  <2>4. y \in Nat
    <3>0. oam \in [OamPlaces -> Ys \cup {0}]
      BY DEF DmaInv
    <3>1. oam[i] \in Ys \cup {0}
      BY <2>3, <3>0
    <3>2. Ys \cup {0} \subseteq Nat
      BY OamAssumption
    <3> HIDE DEF On, K, h
    <3> QED BY <3>1, <3>2
  <2>5. h \in Nat /\ TILE_BIG_HEIGHT \in Nat
    BY OamAssumption DEF obj_height
  <2>6. y - TILE_BIG_HEIGHT <= LY /\ y - TILE_BIG_HEIGHT + h > LY
    BY <2>3 DEF OnLine
  <2> HIDE DEF y, h
  <2>7. LY - (y - TILE_BIG_HEIGHT) \in 0 .. h - 1
    BY <2>4, <2>5, <2>6
  <2> QED BY <2>7 DEF y, h
<1> QED BY <1>1, <1>3, <1>4

LEMMA CoverStep ==
  ASSUME CoverInv, LineInv, DmaInv, [Next]_vars
  PROVE  CoverInv'
<1> USE DEF CoverInv, ScannedRowsExist
<1> USE DEF HBLANK, VBLANK, OAM_SCAN, DRAWING
<1>1. RowsOk /\ UNCHANGED <<objs, LY, big>> => RowsOk'
  BY DEF RowsOk, obj_height
<1>2. ASSUME NEW on \in BOOLEAN, NEW size \in BOOLEAN, StoreLcdc(on, size)
      PROVE  CoverInv'
  <2>1. ~failed /\ failed' = failed /\ objs' = objs
    BY <1>2 DEF StoreLcdc, CpuStore, NextPhase
  <2>2. CASE on /\ ~lcdc_on
    <3>1. mode' = OAM_SCAN
      BY <1>2, <2>2 DEF StoreLcdc
    <3> QED BY <2>1, <3>1
  <2>3. CASE ~(on /\ ~lcdc_on)
    <3>1. since' = (IF size # big THEN since \cup {"SIZE"} ELSE since)
      BY <1>2, <2>3 DEF StoreLcdc
    <3>2. UNCHANGED <<mode, LY>> /\ big' = size
      BY <1>2, <2>3 DEF StoreLcdc
    <3>3. CASE size = big
      <4>1. since' = since
        BY <3>1, <3>3
      <4> QED BY <1>1, <2>1, <3>2, <3>3, <4>1
    <3>4. CASE size # big
      BY <2>1, <3>1, <3>4
    <3> QED BY <3>3, <3>4
  <2> QED BY <2>2, <2>3
<1>3. CASE do_oam_scan
  <2>1. ~failed /\ failed' = failed
    BY <1>3 DEF do_oam_scan, TCycle, NextPhase
  <2> QED BY <1>3, <2>1, ScanCovers DEF LineInv
<1>4. CASE PpuOff \/ do_drawing \/ do_hblank \/ VblankLine \/ NewFrame
             \/ (\E bits \in Irqs : StoreStat(bits))
  <2>1. mode' # DRAWING
    <3>1. CASE PpuOff
      BY <3>1 DEF PpuOff
    <3>2. CASE do_drawing
      BY <3>2 DEF do_drawing
    <3>3. CASE do_hblank
      BY <3>3 DEF do_hblank, AfterHblank
    <3>4. CASE VblankLine
      BY <3>4 DEF VblankLine
    <3>5. CASE NewFrame
      BY <3>5 DEF NewFrame
    <3>6. CASE \E bits \in Irqs : StoreStat(bits)
      BY <3>6 DEF StoreStat
    <3> QED BY <1>4, <3>1, <3>2, <3>3, <3>4, <3>5, <3>6
  <2>2. NextPhase /\ failed' = failed
    <3>1. CASE PpuOff \/ do_drawing
      BY <3>1 DEF PpuOff, do_drawing, TCycle
    <3>2. CASE do_hblank \/ VblankLine \/ NewFrame
      BY <3>2 DEF do_hblank, VblankLine, NewFrame, TCycle
    <3>3. CASE \E bits \in Irqs : StoreStat(bits)
      BY <3>3 DEF StoreStat, CpuStore
    <3> QED BY <1>4, <3>1, <3>2, <3>3
  <2>3. ~failed
    BY <2>2 DEF NextPhase
  <2> QED BY <2>1, <2>2, <2>3
<1>5. CASE UNCHANGED <<objs, LY, big, mode>> /\ failed' = failed
             /\ ("SIZE" \in since => "SIZE" \in since')
             /\ ("SIZE" \in since' => "SIZE" \in since)
  BY <1>1, <1>5
<1>6. CASE DrawingFails
  <2>1. "SIZE" \in since /\ UNCHANGED <<since, objs, LY, big, mode>>
    BY <1>6 DEF DrawingFails, statVars, ppuVars
  <2> QED BY <2>1
<1>7. CASE (\E ly \in LYCs : StoreLyc(ly))
             \/ (\E i \in OamPlaces, y \in Ys : StoreOam(i, y))
             \/ (\E page \in Pages : StoreDma(page))
  BY <1>5, <1>7 DEF StoreLyc, StoreOam, StoreDma, statVars, ppuVars
<1>8. CASE CpuOther \/ (\E i \in {"VBLANK", "LCD"} : ClearIf(i)) \/ DmaStep \/ Tick
             \/ Exited \/ UNCHANGED vars
  BY <1>5, <1>8 DEF CpuOther, ClearIf, DmaStep, DmaOff, DmaSetup, DmaCopy, Tick,
     Exited, vars, statVars, ppuVars
<1> QED BY <1>2, <1>3, <1>4, <1>6, <1>7, <1>8 DEF Next, CpuStep, PpuStep, do_vblank

\* Drawing fails on an object that does not cover the line only when the size
\* of objects was changed between the scan and the drawing of the line: for
\* any sizes, any OAM, and with a DMA or stores to STAT, LY's registers and
\* OAM at any time (ppu.c:68, 119-121).
THEOREM RowsExist == Spec => []ScannedRowsExist
<1>1. Init => CoverInv
  BY DEF Init, CoverInv, ScannedRowsExist, VBLANK, DRAWING
<1>2. Init => DmaInv
  BY OamAssumption DEF Init, DmaInv, NoObjects, OamPlaces
<1>3. CoverInv => ScannedRowsExist
  BY DEF CoverInv
<1> QED BY <1>1, <1>2, <1>3, LineInit, CoverStep, LineStep, DmaInvStep, PTL DEF Spec

\* A PPU that is off is in mode 0 when the CPU's turn comes, since the four T
\* cycles of an M cycle have run with it off.
OffInv ==
  /\ phase \in 0 .. 5
  /\ ~lcdc_on /\ phase \notin {1, 2} => mode = HBLANK

LEMMA OffStep ==
  ASSUME OffInv, [Next]_vars
  PROVE  OffInv'
<1>1. phase' \in 0 .. 5
  BY PhaseStep DEF OffInv
<1>2. NextPhase /\ phase = 0 => phase' = 1
  BY DEF NextPhase
<1>3. NextPhase /\ phase = 1 => phase' = 2
  BY DEF NextPhase
<1> SUFFICES ~lcdc_on' /\ phase' \notin {1, 2} => mode' = HBLANK
  BY <1>1 DEF OffInv
<1>4. CASE CpuStep
  <2>1. phase' = 1
    BY <1>2, <1>4 DEF CpuStep, CpuOther, ClearIf, StoreLcdc, StoreStat, StoreLyc,
         StoreOam, StoreDma, CpuStore
  <2> QED BY <2>1
<1>5. CASE DmaStep
  <2>1. phase' = 2
    BY <1>3, <1>5 DEF DmaStep, DmaOff, DmaSetup, DmaCopy
  <2> QED BY <2>1
<1>6. CASE PpuOff
  BY <1>6 DEF PpuOff
<1>7. CASE lcdc_on /\ lcdc_on' = lcdc_on
  BY <1>7
<1>8. CASE PpuStep
  BY <1>6, <1>7, <1>8 DEF PpuStep, TCycle, Tick, do_oam_scan, do_drawing,
     DrawingFails, do_hblank, do_vblank, VblankLine, NewFrame, statVars
<1>9. CASE UNCHANGED vars
  BY <1>9 DEF OffInv, vars, statVars
<1> QED BY <1>4, <1>5, <1>8, <1>9 DEF Next, Exited

\* A step that requests the LCD interrupt changes the mode or the line: a PPU
\* that stays off requests nothing in any of its T cycles (ppu.c:34-38, 219).
LEMMA RequestStep ==
  ASSUME OffInv, LineInv, [Next]_vars, "LCD" \in irf' \ irf
  PROVE  mode' # mode \/ LY' # LY
<1> USE DEF HBLANK, VBLANK, OAM_SCAN, DRAWING
<1>1. irf' # irf
  OBVIOUS
<1>2. ASSUME NEW on \in BOOLEAN, NEW size \in BOOLEAN, StoreLcdc(on, size)
      PROVE  mode' # mode \/ LY' # LY
  <2>1. on /\ ~lcdc_on
    BY <1>1, <1>2 DEF StoreLcdc
  <2>2. mode' = OAM_SCAN /\ phase = 0
    BY <1>2, <2>1 DEF StoreLcdc, CpuStore
  <2>3. mode = HBLANK
    BY <2>1, <2>2 DEF OffInv
  <2> QED BY <2>2, <2>3
<1>3. CASE PpuOff
  <2>1. "LCD" \in Requests(HBLANK, 0)
    BY <1>3 DEF PpuOff
  <2>2. ~lcdc_on
    BY <1>3 DEF PpuOff, TCycle
  <2>3. LY # LYC /\ 0 = LYC
    BY <2>1, <2>2 DEF Requests, ModeIrq
  <2>4. LY' = 0
    BY <1>3 DEF PpuOff, SetLine
  <2> QED BY <2>3, <2>4
<1>4. CASE VblankLine
  BY <1>4 DEF VblankLine, SetLine, LineInv
<1>5. CASE do_oam_scan \/ do_drawing \/ NewFrame
  <2>1. CASE do_oam_scan
    BY <2>1 DEF do_oam_scan
  <2>2. CASE do_drawing
    BY <2>2 DEF do_drawing
  <2>3. CASE NewFrame
    BY <2>3 DEF NewFrame
  <2> QED BY <1>5, <2>1, <2>2, <2>3
<1>6. CASE do_hblank
  BY <1>6 DEF do_hblank, AfterHblank
<1>7. CASE \E i \in {"VBLANK", "LCD"} : ClearIf(i)
  BY <1>7 DEF ClearIf
<1> QED BY <1>1, <1>2, <1>3, <1>4, <1>5, <1>6, <1>7 DEF Next, CpuStep, CpuOther,
      StoreStat, StoreLyc, StoreOam, StoreDma, DmaStep, DmaOff, DmaSetup, DmaCopy,
      PpuStep, Tick, DrawingFails, do_vblank, Exited, vars, statVars

\* The LCD interrupt is requested once for a change of the mode or the line,
\* not while they stay the same (ppu.c:34-38, 219).
THEOREM NoRepeatedRequest == Spec => OneRequest
<1> DEFINE A == irf' # irf /\ "LCD" \in irf' \ irf => mode' # mode \/ LY' # LY
<1>1. Init => OffInv
  BY DEF Init, OffInv
<1>2. OffInv /\ LineInv /\ [Next]_vars => [A]_vars
  BY RequestStep
<1> HIDE DEF A
<1>3. Spec => [][A]_vars
  BY <1>1, <1>2, LineInit, OffStep, LineStep, PTL DEF Spec
<1> QED BY <1>3 DEF OneRequest, A

\* The rows drawn so far, while the PPU stays on and no store to STAT has put
\* it into another mode: those above the line, and from horizontal blank on the
\* line itself.
Above(n) == {y \in Nat : y < n}
FrameInv ==
  lcdc_on /\ "STAT" \notin since =>
    /\ mode \in {OAM_SCAN, DRAWING} => drawn = Above(LY)
    /\ mode = HBLANK => LY < SCREEN_HEIGHT /\ drawn = Above(LY + 1)

LEMMA FrameStep ==
  ASSUME FrameInv, LineInv, [Next]_vars
  PROVE  FrameInv'
<1> USE DEF HBLANK, VBLANK, OAM_SCAN, DRAWING
<1>0. SCREEN_HEIGHT \in Nat \ {0} /\ YMAX \in Nat /\ SCREEN_HEIGHT <= YMAX /\ LY \in Nat
  BY LineAssumption DEF LineInv
<1>a. Above(0) = {}
  BY DEF Above
<1>1. ASSUME NEW on \in BOOLEAN, NEW size \in BOOLEAN, StoreLcdc(on, size)
      PROVE  FrameInv'
  <2>1. CASE on /\ ~lcdc_on
    <3>1. mode' = OAM_SCAN /\ LY' = 0 /\ drawn' = {}
      BY <1>1, <2>1 DEF StoreLcdc, SetLine
    <3> QED BY <1>a, <3>1 DEF FrameInv
  <2>2. CASE ~on
    BY <1>1, <2>2 DEF StoreLcdc, FrameInv
  <2>3. CASE on /\ lcdc_on
    <3>1. UNCHANGED <<mode, LY, drawn>> /\ lcdc_on
      BY <1>1, <2>3 DEF StoreLcdc
    <3>2. "STAT" \notin since' => "STAT" \notin since
      BY <1>1, <2>3 DEF StoreLcdc
    <3> QED BY <3>1, <3>2 DEF FrameInv
  <2> QED BY <2>1, <2>2, <2>3
<1>2. CASE PpuOff
  BY <1>2 DEF PpuOff, TCycle, FrameInv
<1>3. CASE \E bits \in Irqs : StoreStat(bits)
  BY <1>3 DEF StoreStat, FrameInv
<1>4. CASE NewFrame
  <2>1. mode' = OAM_SCAN /\ LY' = 0 /\ drawn' = {}
    BY <1>4 DEF NewFrame, SetLine
  <2> QED BY <1>a, <2>1 DEF FrameInv
<1>5. CASE VblankLine
  <2>1. mode' = VBLANK
    BY <1>5 DEF VblankLine
  <2> QED BY <2>1 DEF FrameInv
<1>6. CASE do_oam_scan
  <2>1. mode = OAM_SCAN /\ mode' = DRAWING /\ UNCHANGED <<LY, drawn, lcdc_on>>
    BY <1>6 DEF do_oam_scan
  <2>2. "STAT" \notin since' => "STAT" \notin since
    BY <1>6 DEF do_oam_scan
  <2> QED BY <2>1, <2>2 DEF FrameInv
<1>7. CASE do_drawing
  <2>1. mode = DRAWING /\ mode' = HBLANK /\ UNCHANGED <<LY, lcdc_on, since>>
    BY <1>7 DEF do_drawing
  <2>2. drawn' = drawn \cup {LY}
    BY <1>7 DEF do_drawing
  <2>3. LY < SCREEN_HEIGHT
    BY <2>1 DEF LineInv, LinesInBounds
  <2>4. Above(LY) \cup {LY} = Above(LY + 1)
    BY <1>0 DEF Above
  <2> QED BY <2>1, <2>2, <2>3, <2>4 DEF FrameInv
<1>8. CASE do_hblank
  <2>1. mode = HBLANK /\ mode' = AfterHblank(LY) /\ UNCHANGED <<drawn, lcdc_on>>
    BY <1>8 DEF do_hblank
  <2>2. "STAT" \notin since' => "STAT" \notin since
    BY <1>8 DEF do_hblank
  <2>3. CASE LY < SCREEN_HEIGHT - 1
    <3>1. LY' = (LY + 1) % YMAX
      BY <1>8 DEF do_hblank, SetLine
    <3>2. LY' = LY + 1
      BY <1>0, <2>3, <3>1, SmallMod
    <3>3. mode' = OAM_SCAN
      BY <2>1, <2>3 DEF AfterHblank
    <3> QED BY <2>1, <2>2, <3>2, <3>3 DEF FrameInv
  <2>4. CASE ~(LY < SCREEN_HEIGHT - 1)
    <3>1. mode' = VBLANK
      BY <2>1, <2>4 DEF AfterHblank
    <3> QED BY <3>1 DEF FrameInv
  <2> QED BY <2>3, <2>4
<1>9. CASE UNCHANGED <<mode, LY, drawn, lcdc_on>> /\ ("STAT" \notin since' => "STAT" \notin since)
  BY <1>9 DEF FrameInv
<1>10. CASE (\E ly \in LYCs : StoreLyc(ly))
             \/ (\E i \in OamPlaces, y \in Ys : StoreOam(i, y))
             \/ (\E page \in Pages : StoreDma(page))
  BY <1>9, <1>10 DEF StoreLyc, StoreOam, StoreDma, statVars, ppuVars
<1>11. CASE CpuOther \/ (\E i \in {"VBLANK", "LCD"} : ClearIf(i)) \/ DmaStep \/ Tick
             \/ DrawingFails \/ Exited \/ UNCHANGED vars
  BY <1>9, <1>11 DEF CpuOther, ClearIf, DmaStep, DmaOff, DmaSetup, DmaCopy, Tick,
     DrawingFails, Exited, vars, statVars, ppuVars
<1> QED BY <1>1, <1>2, <1>3, <1>4, <1>5, <1>6, <1>7, <1>8, <1>10, <1>11 DEF Next,
      CpuStep, PpuStep, do_vblank

\* The step to a vertical blank is that of do_hblank on the last row.
LEMMA BlankStep ==
  ASSUME FrameInv, LineInv, [Next]_vars, mode = HBLANK, mode' = VBLANK,
         "STAT" \notin since
  PROVE  drawn = 0 .. SCREEN_HEIGHT - 1
<1> USE DEF HBLANK, VBLANK, OAM_SCAN, DRAWING
<1>1. do_hblank
  <2>1. mode' # mode
    OBVIOUS
  <2> QED BY <2>1 DEF Next, CpuStep, CpuOther, ClearIf, StoreLcdc, StoreStat, StoreLyc,
      StoreOam, StoreDma, DmaStep, DmaOff, DmaSetup, DmaCopy, PpuStep, PpuOff, Tick,
      do_oam_scan, do_drawing, DrawingFails, do_vblank, VblankLine, NewFrame, Exited,
      vars, statVars
<1>2. lcdc_on /\ ~(LY < SCREEN_HEIGHT - 1)
  BY <1>1 DEF do_hblank, TCycle, AfterHblank
<1>3. LY < SCREEN_HEIGHT /\ drawn = Above(LY + 1)
  BY <1>2 DEF FrameInv
<1>4. SCREEN_HEIGHT \in Nat \ {0} /\ LY \in Nat
  BY LineAssumption DEF LineInv
<1>5. LY + 1 = SCREEN_HEIGHT
  BY <1>2, <1>3, <1>4
<1> QED BY <1>3, <1>4, <1>5 DEF Above

\* The picture that a vertical blank shows has every row, once the PPU has
\* been left alone since its frame began: no line is skipped or scanned twice,
\* for any number of rows and lines (ppu.c:172, 188).
THEOREM WholePicture == Spec => WholeFrame
<1> DEFINE A == mode = HBLANK /\ mode' = VBLANK /\ "STAT" \notin since
                  => drawn = 0 .. SCREEN_HEIGHT - 1
<1>1. Init => FrameInv
  BY DEF Init, FrameInv, HBLANK, VBLANK, OAM_SCAN, DRAWING
<1>2. FrameInv /\ LineInv /\ [Next]_vars => [A]_vars
  BY BlankStep
<1> HIDE DEF A
<1>3. Spec => [][A]_vars
  BY <1>1, <1>2, LineInit, FrameStep, LineStep, PTL DEF Spec
<1> QED BY <1>3 DEF WholeFrame, A

=============================================================================
