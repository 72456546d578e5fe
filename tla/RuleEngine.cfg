SPECIFICATION FairSpec
CONSTANTS
  r1 = r1
  r2 = r2
  c1 = c1
  c2 = c2
  c3 = c3
  g1 = g1
  g2 = g2
  Rule = {r1, r2}
  Condition = {c1, c2, c3}
  rule_of <- MixedRules
  sources <- MixedSources
  Timed = {c2, c3}
  Getter = {g1, g2}
  Removable = {g2}
  MaxQueue = 2
CHECK_DEADLOCK FALSE
INVARIANTS
  RecordsExact
  QuietMatchesWorld
PROPERTIES
  FiresWhenItBecomesMet
  StopsEventually
