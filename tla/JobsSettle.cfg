SPECIFICATION FairJobSpec
CONSTANTS
  w1 = w1
  Workers = {w1, w2}
  Partitions = {0}
  Score <- Scores
  Mode = "config"
  ConfigMembers <- Fleet
  LeaseTTL = 3
  StaleAfter = 1
  Slow = 1
  None = None
  Jobs = {j1}
  Account <- OneAccount
  Partition <- OnePartition
  MaxDefers = 2
  Attempts = 2
  MaxStalled = 1
INVARIANT JobTypeOK
PROPERTIES AdmittedByTheOwner JobsWearOut JobsSettle
