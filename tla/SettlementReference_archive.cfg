SPECIFICATION FairSpec
CONSTANTS
  Settlements = {p1, p2}
  Last = 2
  MaxRestarts = 1
PROPERTIES
  SettlesAtPriceInForce
  ArchiveCatchesUp
CHECK_DEADLOCK FALSE
