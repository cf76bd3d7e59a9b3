CONSTANTS
  ntasks = 5
  BasePrio <- MCBasePrio
  Lockers = {1, 3, 4}
  MaxCount = 2
SPECIFICATION FairSpec
INVARIANTS TypeOK MutualExclusion ParkedAreQueued WakeupsAreKept BoostsAreBorrowed
PROPERTIES NoInversion InversionEnds
CHECK_DEADLOCK FALSE
