SPECIFICATION FairAdapterSpec
CONSTANTS
  s1 = s1
  old = old
  broken = broken
  u1 = u1
  u2 = u2
  ScriptId = {s1}
  Source = {old, broken}
  Valid = {old}
  SqlMayFail = TRUE
  MayPanic = TRUE
  User = {u1, u2}
  Statement <- DisablesScript
INVARIANTS
  OneRequestPerCaller
  ServicesMatchStored
PROPERTIES
  AnsweredUnlessStuck
