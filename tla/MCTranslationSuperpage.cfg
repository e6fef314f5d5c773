SPECIFICATION Spec
CONSTANTS
  MCSpaces = {1}
  MCLeafPerms = {{"R", "X"}}
  MCSuperFrames = {0, 2}
  MCGlobals = {FALSE}
  Spaces = {1}
  AsidOf <- MCAsidOf
  Pages = {0, 1}
  Fanout = 2
  MaxLevel = 1
  Frames = {0, 1, 2, 3}
  Instructions = {i0, i1}
  GuestPtes <- MCGuestPtes
  Modes = {1}
  TlbSize = 1
  CacheSize = 1
  MaxUnfenced = 1
  None = None
INVARIANTS FetchTransparent
