SPECIFICATION Spec
CONSTANTS
  AdapterId = {a1, a2}
  ServiceId = {s1, s2}
  GetterId = {g1}
  SetterId = {t1}
  TagId <- Tags
  Persistent = TRUE
  MaxStoreFailures = 1
SYMMETRY Symmetry
CONSTRAINT QuotesApart
INVARIANTS
  TypeOK
  Consistent
  TagsAsStored
