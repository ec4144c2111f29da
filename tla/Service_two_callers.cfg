SPECIFICATION FairSpec
CONSTANTS
  Callers = {main, other}
  Checks = 1
  Timers = {t1, t2, t3, t4}
  NoTimer = NoTimer
  HasWorker = TRUE
  MaxCalls = 3
INVARIANTS
  EventsTellTheState
  
  SettlesDown
PROPERTIES
  
  StoppedServiceIsQuiet
