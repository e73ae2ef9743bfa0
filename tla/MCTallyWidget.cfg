\* One vessel page: two tallies, two loads, one fault, one refresh or page change.
CONSTANTS
    Servers = {s1}
    MaxLoads = 2
    maxHistoryItems = 1
    ServerLimit = 2
    MaxTallies = 2
    MaxFailures = 1
    MaxTurns = 1
SPECIFICATION FairWidgetSpec
INVARIANTS WidgetTypeOK ToldIsTrue NoSilentLoss ShowsAPast LoadingIsUnderWay
PROPERTIES DisplaySettles
