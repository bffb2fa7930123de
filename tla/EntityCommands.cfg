CONSTANTS
  tv = tv
  assistant = assistant
  Commands <- AllCommands
  Entities = {tv, assistant}
  MaxEpoch = 2
  MaxRequests = 2
  MaxSuspends = 1
SPECIFICATION FairSpec
INVARIANTS
  BusyMeansPending
  PendingIsDriven
  SentOnce
PROPERTIES
  OnlyOwnAnswer
  WithdrawnStaysSilent
  PendingSettles
