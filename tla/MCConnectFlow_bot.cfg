CONSTANTS
    Tasks = {t1, t2, t3}
    Clients = {c1, c2}
    NoTask = NoTask
    NoClient = NoClient
    Surfaces = {"bot"}
    Failures = FALSE
SPECIFICATION Spec
SYMMETRY Symmetry
INVARIANTS
    BotStateFollowsLogin
