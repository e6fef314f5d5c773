SPECIFICATION Spec
CONSTANTS
  FrameCount = 2
  MaxQueued = 1
  Interval = 2
  QueueNum = 1
  MaxPending = 1
  GuestFrames = {0}
  FaultSets <- MCFaultSets
  Fit = Fit
  Unfit = Unfit
  Spoilt = Spoilt
INVARIANTS TypeOK NothingStranded
PROPERTIES ChannelSpec FramesArrive
