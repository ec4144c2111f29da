SPECIFICATION FairManagerSpec
CONSTANTS
  Callers = {c1, c2}
  Checks = 0
  Timers = {}
  NoTimer = NoTimer
  HasWorker = FALSE
  MaxCalls = 0
  MaxCommands = 5
PROPERTIES
  StopIsObeyed
