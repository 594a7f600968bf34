SPECIFICATION Spec
CONSTANTS
  r1 = r1 r2 = r2 t1 = t1 t2 = t2
  Runtime = {r1, r2}
  Task = {t1, t2}
  RuntimeOf <- MCRuntimeOf
  Slots = 1
  MaxProcesses = 2
  MaxFaults = 2
INVARIANTS SlotsHoldTheWork IdlePassAsksEveryRuntime
PROPERTIES StopsReachTheWork
CHECK_DEADLOCK FALSE
