--------------------------- MODULE MCTranslation ---------------------------
(* Two-level tables with two PTEs each: a level-1 leaf is a superpage of two *)
(* 4 KiB pages. The guest writes PTEs with both bits clear.                  *)
EXTENDS Translation

CONSTANTS MCSpaces, MCLeafPerms, MCSuperFrames, MCGlobals

MCAsidOf == [s \in MCSpaces |-> s]

MCLeaves(frames) ==
  {Leaf(f, perm, g, FALSE, FALSE) : f \in frames, perm \in MCLeafPerms, g \in MCGlobals}

MCGuestPtes ==
  [l \in 0 .. 1 |->
     IF l = 0 THEN {Invalid} \cup MCLeaves({0, 1})
     ELSE {Invalid} \cup {Table(g) : g \in MCGlobals} \cup MCLeaves(MCSuperFrames)]
=============================================================================
