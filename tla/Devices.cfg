SPECIFICATION Spec
CONSTANTS
  DosChannels = {0, 2}
  FileLen = 2
  MaxBytes = 2
  ByteBits = 3
  VirtFiles = 1
  D2Tracks = 2
  D2Phases = 3
  D2Nibbles = 2
  D2Loaded = {0}
  D2Changed = {0}
  D2MaxWrites = 1
  CodeSectors = 2
  CodeTriples = 14
  CodeStarts = {0, 5, 11, 50}
INVARIANTS
  BytesComeBack Disk2Right
PROPERTIES
  IecTransferEnds
CHECK_DEADLOCK FALSE
