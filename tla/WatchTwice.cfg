SPECIFICATION WatchSpec
CONSTANTS
  AdapterId = {a1}
  ServiceId = {s1}
  GetterId = {g1}
  SetterId = {}
  TagId <- TwoTags
  Persistent = FALSE
  MaxStoreFailures = 0
  Thread = {t1, t2}
  TargetMaps <- ByTag
  MaxWatches = 1
CHECK_DEADLOCK FALSE
INVARIANT NeverAlreadyWatching
