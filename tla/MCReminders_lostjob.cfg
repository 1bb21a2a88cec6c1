CONSTANTS
    Handlers = {h1, h2}
    Interval = 2
SPECIFICATION Spec
SYMMETRY HandlerSymmetry
INVARIANTS
    EveryAwaitingGroupHasJob
