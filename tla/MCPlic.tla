------------------------------- MODULE MCPlic -------------------------------
(* Two sources, two contexts, two-bit priorities: equal and different         *)
(* priorities, a write whose high bits are masked off, sources at, below and  *)
(* above the threshold, nested claims.                                        *)
EXTENDS Plic

MCWordValues == {0, 2, 5}
=============================================================================
