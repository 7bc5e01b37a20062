SPECIFICATION MCSpec
CONSTANTS
  M65Hyppo = TRUE
  M65MapArgs <- MCMapArgs
  M65Knocks = {71, 83}
  cia1 = cia1
  vic4 = vic4
  cia2 = cia2
  IrqSources = {cia1, vic4}
  NmiSources = {cia2}
  EagerChips = {cia1, vic4, cia2}
  SilentReset = {}
  HdosDescs = 2
  HdosLength = 700
  DmaLists <- MCDmaBackward
  DmaExperimental = TRUE
  DmaWhole = 3
INVARIANT DmaBackwardDone
CHECK_DEADLOCK FALSE
