SPECIFICATION Spec
CONSTANTS
  QueueNum = 2
  IndexModulus = 4
  SectorCount = 2
  Data = {0, 1}
  Chains <- MCChains
  FaultSets <- MCFaultSets
  Malformed = Malformed
  None = None
INVARIANTS TypeOK NothingStranded CleanDiskIsSaved
PROPERTIES RequestSpec RequestsReturn
