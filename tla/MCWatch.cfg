SPECIFICATION FairWatchSpec
CONSTANTS
  AdapterId = {a1}
  ServiceId = {s1}
  GetterId = {g1}
  SetterId = {st1}
  TagId <- OneTag
  Persistent = FALSE
  MaxStoreFailures = 0
  Thread = {t1, t2}
  TargetMaps <- ByTags
  MaxWatches = 1
CHECK_DEADLOCK FALSE
INVARIANTS
  NoLostRegistration
  AttachedKnown
  WaitingServed
PROPERTIES
  CallersReturn
  DroppedReleased
