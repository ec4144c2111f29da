SPECIFICATION Spec
CONSTANTS
  MaxAuctions = 2
  EventsWatched = {"created", "deleted"}
  ImportBatch = 1
  WatchBatch = 1
  PageSize = 1
  WithClient = TRUE
  MaxFailures = 1
  MaxCleanups = 1
  MaxRegistrations = 1

  
PROPERTIES
  OnlyGoneAuctionsLeave
  
