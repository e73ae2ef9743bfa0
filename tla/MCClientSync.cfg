\* One tab, two ids, records replaced and given up, pages left and killed.
SPECIFICATION Spec
CONSTANTS
  Tabs = {t1}
  Ids = {i1, i2}
  MaxRetries = 2
  BatchSize = 2
  StorageMayFail = FALSE
  MaxRecords = 3
  MaxFails = 4
  MaxReloads = 2
INVARIANTS TypeOK RetryBudget RunIsSound
PROPERTIES ImplementsOutbox
