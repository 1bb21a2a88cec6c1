CONSTANTS
    Tasks = {t1, t2}
    Clients = {c1, c2}
    NoTask = NoTask
    NoClient = NoClient
    Surfaces = {"bot", "app"}
    Failures = TRUE
SPECIFICATION FairSpec
INVARIANTS
    TypeOK
PROPERTIES
    NoClientLeaks
    KeepsPromise
    EveryCallReturns
