SPECIFICATION Spec
CONSTANTS
  ram = ram
  regs = regs
  straddle = straddle
  wrapping = wrapping
  Devices <- MCDevices
  Base <- MCBase
  Size <- MCSize
  Ram <- MCRam
  AddressLimit = 3
  Widths = {1, 2}
  AtomicWidths = {1, 2}
  Harts = {h1, h2}
  Values = {0, 1}
  MaxWrites = 2
  NoDevice = NoDevice
INVARIANTS
  TypeOK
  LookupExact
PROPERTY LrScContract
SYMMETRY MCSymmetry
