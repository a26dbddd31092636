CONSTANTS
  Tasklets = {t1, t2, t3}
  Clients = {c1, c2}
  Owner = owner
  Workers = {w1}
  QUIT = QUIT
SPECIFICATION Spec
INVARIANTS Conservation DrainedAtClose
PROPERTIES EventuallyRun CloseReturns ImplementsService
CHECK_DEADLOCK FALSE
