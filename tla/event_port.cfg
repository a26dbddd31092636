CONSTANTS
  Receivers = {dump, view}
  Dump = dump
  Limit = 2
  MaxEvents = 5
SPECIFICATION Spec
INVARIANTS LostAfterLimit Heard OneLateWrite
PROPERTIES DestructorReturns GetsRegistered
CHECK_DEADLOCK FALSE
