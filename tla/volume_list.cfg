CONSTANTS
  Volumes = {c, d}
  MaxToggles = 3
  MaxSessions = 3
SPECIFICATION Spec
INVARIANTS NoneRefused EngineFollows TracedContinues
PROPERTY TracedGetsWatched
CHECK_DEADLOCK FALSE
