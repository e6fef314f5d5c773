---------------------------- MODULE Framebuffer ----------------------------
(***************************************************************************)
(* The linear framebuffer (devices/src/framebuffer.cpp): which part of the *)
(* picture changed since it was shown last, kept as one rectangle. Pixel   *)
(* values are left out; `stale` is the truth the rectangle stands for.     *)
(***************************************************************************)
EXTENDS Integers

CONSTANTS Width, Height, BytesPerPixel, AccessBytes

ASSUME FramebufferAssumption ==
  /\ Width \in Nat \ {0} /\ Height \in Nat \ {0} /\ BytesPerPixel \in Nat \ {0}
  /\ AccessBytes \subseteq Nat \ {0}

Pixels == (0 .. Width - 1) \X (0 .. Height - 1)

VARIABLES
  dirty_region,    \* x, y, width, height; empty if one of the last two is zero
  stale            \* history: the pixels that are not on the screen as they are

framebuffer == <<dirty_region, stale>>

NoRegion == [x |-> 0, y |-> 0, width |-> 0, height |-> 0]

Covered(region) ==
  {p \in Pixels : /\ region.x <= p[1] /\ p[1] < region.x + region.width
                  /\ region.y <= p[2] /\ p[2] < region.y + region.height}

FramebufferInit == dirty_region = NoRegion /\ stale = Pixels

PixelAt(index) == <<index % Width, index \div Width>>

\* The pixels an access of count bytes touches.
Touched(offset, count) ==
  {PixelAt(i) : i \in offset \div BytesPerPixel .. (offset + count - 1) \div BytesPerPixel}

\* One scan line is marked exactly, several are marked whole.
Update(offset, count) ==
  LET first == PixelAt(offset \div BytesPerPixel)
      last == PixelAt((offset + count - 1) \div BytesPerPixel)
      height == last[2] - first[2] + 1
  IN IF height = 1
     THEN [x |-> first[1], y |-> first[2], width |-> last[1] - first[1] + 1, height |-> 1]
     ELSE [x |-> 0, y |-> first[2], width |-> Width, height |-> height]

Smaller(a, b) == IF a < b THEN a ELSE b
Larger(a, b) == IF a > b THEN a ELSE b

\* Mutant: the larger of the two widths, not the distance of the outer edges.
MergedWidest(region, update) ==
  LET left == Smaller(region.x, update.x)
      top == Smaller(region.y, update.y)
  IN [x |-> left, y |-> top, width |-> Larger(region.width, update.width),
      height |-> Larger(region.y + region.height, update.y + update.height) - top]

\* The smallest rectangle around both.
Merged(region, update) ==
  LET left == Smaller(region.x, update.x)
      top == Smaller(region.y, update.y)
  IN [x |-> left, y |-> top,
      width |-> Larger(region.x + region.width, update.x + update.width) - left,
      height |-> Larger(region.y + region.height, update.y + update.height) - top]

WritePixels(offset, count) ==
  /\ offset + count <= Width * Height * BytesPerPixel
  /\ stale' = stale \cup Touched(offset, count)
  /\ dirty_region' = IF dirty_region.width = 0 \/ dirty_region.height = 0
                     THEN Update(offset, count)
                     ELSE Merged(dirty_region, Update(offset, count))

clear_dirty == dirty_region' = NoRegion
=============================================================================
