---------------------------- MODULE MCSystemBus ----------------------------
(* One unit of address is a word: two words of RAM, one of registers, a range *)
(* that overlaps both and one that runs past the last address. Two harts; a    *)
(* plain write stands for a store of either, a page-table update or a DMA.     *)
EXTENDS SystemBus, TLC

CONSTANTS ram, regs, straddle, wrapping

MCDevices == {ram, regs, straddle, wrapping}
MCBase == (ram :> 0) @@ (regs :> 2) @@ (straddle :> 1) @@ (wrapping :> 2)
MCSize == (ram :> 2) @@ (regs :> 1) @@ (straddle :> 2) @@ (wrapping :> 2)
MCRam == {ram}
MCSymmetry == Permutations(Harts)
=============================================================================
