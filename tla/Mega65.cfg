\* CIA1 and the VIC-IV on IRQ, CIA2 and RESTORE on NMI; HYPPO present.
SPECIFICATION MCSpec
CONSTANTS
  cia1 = cia1
  vic4 = vic4
  cia2 = cia2
  IrqSources = {cia1, vic4}
  NmiSources = {cia2}
  EagerChips = {cia1, vic4, cia2}
  SilentReset = {}
  M65Hyppo = TRUE
  M65MapArgs <- MCMapArgs
  M65Knocks = {71, 83}
  HdosDescs = 2
  HdosLength = 700
  DmaLists <- MCDmaLists
  DmaExperimental = TRUE
  DmaWhole = 3
INVARIANTS
  IrqIsWiredOr GsNmiOncePerEdge M65MapSound HdosFilesRight DmaListRun
PROPERTIES
  GsIrqServed M65TrapTransparent
CHECK_DEADLOCK FALSE
