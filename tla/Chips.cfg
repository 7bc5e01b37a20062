\* VIA and PIA sides A and B, all timers, two-value timer bytes, and the
\* time-of-day clock at the ends of its registers.
SPECIFICATION Spec
CONSTANTS
  ViaSides = {"A", "B"}
  ViaTimers = {"T1", "T2"}
  ViaByteMod = 2
  ViaMaxTick = 3
  CiaTimers = {"TA", "TB"}
  Events = {"TOD", "SP", "FLG"}
  CiaByteMod = 2
  CiaMaxTick = 3
  TodPeriod = 2
  TodValues <- MCTodValues
  MaxTodTicks = 2
  PiaSides = {"A", "B"}
CONSTRAINTS
  ViaOneUnitAtATime CiaTimerBOrEvents CiaTimerAQuiet CiaTwoEvents TodReadOrAlarm
  PiaOneSideAtATime
INVARIANTS
  ViaIrqFollowsFlags ViaHandshakeHeld IrqNotLost TimerKeepsTime PiaLinesRight
PROPERTIES
  ViaOneShotFiresOnce CiaOneShotFiresOnce TodRight
