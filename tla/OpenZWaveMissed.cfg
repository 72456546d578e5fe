SPECIFICATION Spec
CONSTANTS
  Getter = {g1}
  Ranges <- OpenOrAny
  MaxWatches = 2
  MaxQueue = 2
CHECK_DEADLOCK FALSE
INVARIANT WatchersAlwaysAgree
