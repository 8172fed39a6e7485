\* Up to four faults: the daemon killed at any step, writes that fail, files removed.
SPECIFICATION FairSpec
CONSTANTS
  None = None
  Partial = Partial
  MaxFaults = 4
INVARIANTS
  TypeOK
  PairMatches
  AnnouncedOpens
PROPERTIES
  ComesUp
CHECK_DEADLOCK FALSE
