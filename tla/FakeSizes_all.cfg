\* Every input of four-bit integers, with a block of three bytes.
SPECIFICATION InputSpec
CONSTANTS
  MegaByte = 2
  BlockSize = 3
  IntMax = 7
INVARIANTS RoundsAwayFromZero FreeWithinDisk ReportsWhatIsDocumented ReserveKept
CHECK_DEADLOCK FALSE
