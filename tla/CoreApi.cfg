CONSTANTS
  MaxRequestId = 4
  ProblemTries = 2
  MaxTries = 3
SPECIFICATION FairSpec
INVARIANTS
  FlagsFollowSocket
PROPERTIES
  LongOutageReported
  ImplementsContract
