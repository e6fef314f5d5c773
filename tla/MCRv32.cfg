SPECIFICATION Spec
CONSTANTS
  i0 = i0
  i1 = i1
  Lines <- MCLines
  Operands <- MCOperands
  Programs <- MCPrograms
  Spaces = {1, 3}
  AsidOf <- MCAsidOf
  Pages = {0, 1}
  Fanout = 2
  PhysicalPages = {0, 1}
  Instructions <- MCInstructions
  GuestPtes <- MCGuestPtes
  Modes = {0, 1}
  MaxUnfenced = 1
  None = None
  Guests <- MCGuests
  Sets = 2
  Ways = 2
  EntryCount = 2
  EpochCount = 2
  MaxGeneration = 2
  MaxEpochs = 1
SYMMETRY MCSymmetry
PROPERTIES HartSpec TranslationSpec
