SPECIFICATION Spec
CONSTANTS
  MCSpaces = {1, 2}
  MCLeafPerms = {{"X", "U"}}
  MCSuperFrames = {}
  MCGlobals = {FALSE}
  Spaces = {1, 2}
  AsidOf <- MCAsidOf
  Pages = {0}
  Fanout = 2
  MaxLevel = 1
  Frames = {0, 1}
  Instructions = {i0, i1}
  GuestPtes <- MCGuestPtes
  Modes = {0, 3}
  TlbSize = 1
  CacheSize = 2
  MaxUnfenced = 1
  None = None
INVARIANTS FetchTransparent TlbTransparent
