SPECIFICATION Spec
CONSTANTS
  r1 = r1
  r2 = r2
  c1 = c1
  c2 = c2
  c3 = c3
  g1 = g1
  g2 = g2
  Rule = {r1}
  Condition = {c1, c2}
  rule_of <- TwoConditions
  sources <- TwoSources
  Timed = {c1}
  Getter = {g1, g2}
  Removable = {g1}
  MaxQueue = 2
CHECK_DEADLOCK FALSE
INVARIANT RemovedNotCounted
