SPECIFICATION FairSpec
CONSTANTS
  N = 3
  MaxRetries = 3
  MaxFaults = 2
INVARIANTS
  ExtractInv
  WholeOrError
  MissingHasCause
PROPERTIES
  Ends
