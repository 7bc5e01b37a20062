\* C64 / VIC-20 style wiring: two chips on IRQ, one CIA on NMI, all of which
\* release their line on reset; VERA and the X16's other parts with their sizes
\* reduced; the home computers' maps at their borders.
SPECIFICATION MachinesSpec
CONSTANTS
  cia1 = cia1
  via = via
  cia2 = cia2
  IrqSources = {cia1, via}
  NmiSources = {cia2}
  EagerChips = {cia1, cia2}
  SilentReset = {}
  VeraFx <- MCVeraFx
  VeraBytes = {0, 6}
  VeraAt = {2, 13}
  VeraIncs <- MCVeraIncs
  MaxVeraOps = 3
  VFifo = 3
  VAlmost = 2
  VCompares = {0, 3}
  MaxPcm = 3
  LineW = 5
  LineSprites = 2
  Budgets = {4, 7, 12}
  FetchEvery = 2
  SpriteSet <- MCSprites
  SdBlocks = 2
  SdCmds = {0, 12, 13, 17, 18, 24}
  X16Banks = {0, 1, 2}
  KbdSize = 3
  MseSize = 6
  CountWrap = 6
  MaxEvents = 4
  I2cBits = 3
  I2cJobs <- MCI2cJobs
  ClockHz = 2
  RtcYears = {0, 99}
  MaxClocks = 5
  PadBits = 1
  IdBits = 2
  NumPads = 2
  AppleIo <- MCAppleIo
  MaxAppleOps = 3
  AppleKeys = {"a"}
  MaxText = 2
  Plus4Images <- MCPlus4Images
  Plus4Bits <- MCPlus4Bits
  Plus4Keys = {"a", "b"}
  MaxStrokes = 6
  AtariCarts <- MCAtariCarts
  AtariCctl = {9, 117, 213, 230}
  MaxAtariOps = 2
  AtariKeys = {"a"}
INVARIANTS
  PinsAreWiredOr NmiOncePerEdge MachinesRight
PROPERTIES
  IrqServed
CHECK_DEADLOCK FALSE
