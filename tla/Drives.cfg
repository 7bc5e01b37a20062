SPECIFICATION Spec
CONSTANTS
  DosChannels = {0, 2}
  FileLen = 2
  MaxData = 1
  DiskTracks <- MCDiskTracks
  DiskDir = 2
  DiskSlots = 1
  DiskFill = 1
  DiskIl = 2
  DiskDirStep = 1
  ImgChannels = {2, 3}
  ImgNames = {"a"}
  ImgMaxLen = 2
  HostChannels = {2, 3}
  HostMaxLen = 2
  C128Pages = {0, 1, 2, 64, 192, 208, 255}
  C128Crs <- MCCrs
  C128Rcrs <- MCRcrs
  C128Relocs = {0, 1, 2, 208}
  MaxC128Ticks = 12
  C128Keys = {"a", "left_shift"}
  MaxTyped = 8
  FlashBytes = {16, 48, 85, 128, 144, 160, 170, 240}
  MaxFlashOps = 2
  CartBytes = {0, 31, 48, 63, 64, 127}
  MagicBanks = {1, 3, 4, 33, 64}
INVARIANTS
  IeeeRight FilesRight C128Right
CHECK_DEADLOCK FALSE
