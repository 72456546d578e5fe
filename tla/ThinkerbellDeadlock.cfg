SPECIFICATION FairAdapterSpec
CONSTANTS
  s1 = s1
  old = old
  broken = broken
  u1 = u1
  u2 = u2
  ScriptId = {s1}
  Source = {old, broken}
  Valid = {old}
  SqlMayFail = FALSE
  MayPanic = FALSE
  User = {u1}
  Statement <- DisablesScript
PROPERTIES
  SettersAnswered
