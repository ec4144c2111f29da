\* Two connections share one place for a task; three messages, so that one runs in
\* the task, one inline, and one is left to be read after a failure.
SPECIFICATION FairMessaging
CONSTANTS
  Conns = {c1, c2}
  MaxTasks = 1
  MaxMsgs = 3
INVARIANTS
  MessagingTypeOK
  CountedOnce
PROPERTIES
  FailureCloses
  EveryMessageIsSettled
