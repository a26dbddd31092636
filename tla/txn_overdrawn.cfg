CONSTANTS
  Watches = {known, new}
  Rechecking = {new}
  Readers = {gui}
  Writers = {apply}
  MayAbort = {known}
  Statements = 1
  MaxBuffers = 2
  MaxCalls = 1
  MaxBreaks = 1
SPECIFICATION Spec
INVARIANT PerBuffer
CHECK_DEADLOCK FALSE
