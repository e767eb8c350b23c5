SPECIFICATION FairSpec
CONSTANTS
  OAM_TICKS = 3
  DRAW_TICKS = 3
  HBLANK_TICKS = 3
  VBLANK_TICKS = 3
  SCREEN_HEIGHT = 2
  YMAX = 3
  TILE_HEIGHT = 1
  TILE_BIG_HEIGHT = 2
  MAX_SCANLINE_OBJS = 1
  DMA_MCYCLES = 2
  Ys <- SmallYs
  Pages <- SmallPages
  LYCs = {1}
  Irqs <- SmallIrqs
INVARIANTS TypeOK LinesInBounds ScannedRowsExist NoFalseMatch DmaCopied
PROPERTIES WholeFrame OneRequest BlankComes
