SPECIFICATION TaxonomySpec
CONSTANTS
  Getter = {g1}
  Ranges <- OpenOrAny
  MaxWatches = 2
  MaxQueue = 2
  Day = 4
  MaxTime = 11
  MaxClockWatches = 1
  ClockRanges <- RangesOfClock
  ChannelId = {c1, c2}
  ServiceName = {s1, s2}
  ChannelTag = {t1, t2}
  Kind = {k1, k2}
  MaxCalls = 4
  ChannelAt <- ChannelsOfExchange
  Payload <- TwoOnOffs
  MaxTargets = 2
  Chains <- SampleChains
  Extensions <- SampleExtensions
CHECK_DEADLOCK FALSE
INVARIANTS
  ServiceTagsOfTheService
