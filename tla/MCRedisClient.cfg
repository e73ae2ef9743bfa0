\* Two threads, a cache of one entry, two requests and two uses of reconnect, close or ping, three in all.
CONSTANTS
    Callers = {c1, c2}
    Keys = {rate, other}
    RateKey = rate
    NoValue = NoValue
    max_size = 1
    limit = 1
    max_attempts = 2
    MaxRequests = 2
    MaxReconnects = 2
    MaxUses = 3
SYMMETRY Symmetry
SPECIFICATION Spec
INVARIANTS TypeOK MetricsBalance EveryAllowedIsCounted LimitOvershoot CacheIsSound CacheNeverOvercounts OneInitializer InitializedHasClient
PROPERTIES LiveEntriesStay KeepsToBreaker
CHECK_DEADLOCK FALSE
