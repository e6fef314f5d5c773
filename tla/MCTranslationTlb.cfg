SPECIFICATION Spec
CONSTANTS
  MCSpaces = {1}
  MCLeafPerms = {{"R", "W"}}
  MCSuperFrames = {0, 2}
  MCGlobals = {FALSE, TRUE}
  Spaces = {1}
  AsidOf <- MCAsidOf
  Pages = {0, 1}
  Fanout = 2
  MaxLevel = 1
  Frames = {0, 1, 2, 3}
  Instructions = {i0}
  GuestPtes <- MCGuestPtes
  Modes = {1}
  TlbSize = 2
  CacheSize = 0
  MaxUnfenced = 1
  None = None
INVARIANTS TypeOK TlbTransparent
