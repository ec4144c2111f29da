SPECIFICATION Spec
CONSTANTS
  Tasks = {t1, t2, t3}
  MaxCalls = 4
  MaxCancels = 1
INVARIANTS
  OneHookAtATime
  ServerFollowsState
  NoLostWakeup
PROPERTIES
  CallsReturn
