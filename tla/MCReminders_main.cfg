CONSTANTS
    Handlers = {h1, h2}
    Interval = 2
SPECIFICATION FairSpec
INVARIANTS
    TypeOK
    AwaitingHasReference
    AwaitingIsScheduled
PROPERTIES
    NoRepeatWithinInterval
    EarlyOnlyAfterRace
    WaitingIsReminded
