\* An area whose rounds go on from one file of the emuMMC into the next, on
\* cards with a file system that has room for it in a file and with one that
\* has not.
CONSTANTS
  Value = {a, b}
  EmmcSize = 5
  First = 1
  LastLba = 3
  PartSize = 2
  BufSectors = 2
  Limits = {1, 4}
  MaxFile = 4
  MaxFaults = 2
  MaxCalls = 2
SPECIFICATION Spec
INVARIANTS DumpIsWhole RestoreIsWhole AsksFirst
PROPERTY CallsReturn
CHECK_DEADLOCK FALSE
