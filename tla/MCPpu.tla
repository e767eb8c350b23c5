-------------------------------- MODULE MCPpu --------------------------------
(* Small instances of Ppu for TLC.                                         *)
EXTENDS Ppu

\* The objects are on the first row, and of the larger size on the second
\* one too; a page has two of them, one more than a line shows.
SmallYs    == {2}
SmallPages == {<<2, 2>>}
SmallIrqs  == {{HBLANK, STAT_LYC_IRQ}}
=============================================================================
