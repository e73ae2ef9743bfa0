\* One worker, one record, which somebody keeps asking to process.
SPECIFICATION FairSpec
CONSTANTS
  Workers = {w1}
  SyncIds = {s1, s2}
  VesselRows = {v1}
  TallyRows = {c1}
  a = a
  b = b
  Vals = {a, b}
  Operations = {"create", "update"}
  Payloads <- MCPayloads
  MaxRetry = 3
  BatchLimit = 2
  MaxPosts = 1
  MaxResolves = 0
  MaxEdits = 0
  MaxRestarts = 0
PROPERTIES OfflineVesselIsCreated
