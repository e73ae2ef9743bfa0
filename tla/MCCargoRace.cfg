\* Two workers, tallies only, no request breaks off.
SPECIFICATION Spec
CONSTANTS
  v1 = v1
  v2 = v2
  Workers = {w1, w2}
  Vessels = {v1}
  Capacity <- MCCapacity
  Counts = {0, 1, 2}
  Settings <- MCSettings
  MaxTallied <- MCMaxTallied
  MaxOverrides = 0
  MaxFailures = 0
INVARIANTS ProgressFollowsTallies
