SPECIFICATION JobSpec
CONSTANTS
  w1 = w1
  Workers = {w1, w2}
  Partitions = {0}
  Score <- Scores
  Mode = "registry"
  ConfigMembers <- Fleet
  LeaseTTL = 2
  StaleAfter = 0
  Slow = 1
  None = None
  Jobs = {j1, j2}
  Account <- OneAccount
  Partition <- OnePartition
  MaxDefers = 1
  Attempts = 1
  MaxStalled = 0
INVARIANT OneConsumerPerAccount
