\* Two workers, tallies and settings by hand, broken requests.
SPECIFICATION Spec
CONSTANTS
  v1 = v1
  v2 = v2
  Workers = {w1, w2}
  Vessels = {v1, v2}
  Capacity <- MCCapacity
  Counts <- MCCounts
  Settings <- MCSettings
  MaxTallied <- MCMaxTallied
  MaxOverrides = 1
  MaxFailures = 1
SYMMETRY Symmetry
INVARIANTS TypeOK WasCalledFor
PROPERTIES SoloPostRepairs
