\* One tab, no request fails, one reload.
SPECIFICATION FairSpec
CONSTANTS
  Tabs = {t1}
  Ids = {i1, i2}
  MaxRetries = 3
  BatchSize = 2
  StorageMayFail = FALSE
  MaxRecords = 2
  MaxFails = 0
  MaxReloads = 1
PROPERTIES WillSyncWhenOnline
