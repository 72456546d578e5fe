SPECIFICATION WatchSpec
CONSTANTS
  AdapterId = {a1}
  ServiceId = {s1}
  GetterId = {g1}
  SetterId = {}
  TagId <- OneTag
  Persistent = FALSE
  MaxStoreFailures = 0
  Thread = {t1}
  TargetMaps <- ByTag
  MaxWatches = 1
CHECK_DEADLOCK FALSE
INVARIANT RemovalsTold
