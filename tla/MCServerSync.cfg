\* One worker, a vessel and a tally, updates of two ids posted, resolved, edited and lost.
SPECIFICATION FairSpec
CONSTANTS
  Workers = {w1}
  SyncIds = {s1, s2}
  VesselRows = {v1}
  TallyRows = {c1}
  a = a
  b = b
  Vals = {a, b}
  Operations = {"update"}
  Payloads <- MCPayloads
  MaxRetry = 2
  BatchLimit = 2
  MaxPosts = 2
  MaxResolves = 1
  MaxEdits = 1
  MaxRestarts = 1
INVARIANTS TypeOK OneRecordPerId ServerRetryBudget ConflictHasTwoSides
PROPERTIES OutcomesStand PendingIsSettled
