\* Two tabs over one localStorage that may refuse a write; progress while no page dies.
SPECIFICATION FairSpec
CONSTANTS
  Tabs = {t1, t2}
  Ids = {i1, i2}
  MaxRetries = 2
  BatchSize = 1
  StorageMayFail = TRUE
  MaxRecords = 2
  MaxFails = 1
  MaxReloads = 1
INVARIANTS SyncedWasReceived OnePerId StillDue
PROPERTIES SyncsWhileOpen
