\* One request next to the changes that others cause: two facts change or one changes
\* back, the websocket closes, the executor breaks.
SPECIFICATION FairSpec
CONSTANTS
  Requests = {r1}
  MaxChanges = 2
INVARIANTS
  SignedAsAuthorized
  
  OneOutcome
PROPERTIES
  EveryRequestIsAnswered
