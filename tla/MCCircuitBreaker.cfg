\* Three callers, low thresholds, Redis up and down, forced open and closed.
CONSTANTS
    Callers = {c1, c2, c3}
    failure_threshold = 2
    success_threshold = 2
    failure_rate_threshold = 50
    min_requests = 3
    decay_after = 2
    HistoryBound = 3
SPECIFICATION FairSpec
INVARIANTS TypeOK ClosedBelowThresholds
PROPERTIES ClosesOnStreak OverrideHolds ImplementsBreaker BreakerRecovers
