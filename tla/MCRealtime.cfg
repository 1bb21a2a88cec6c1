CONSTANTS
    u = u
    v = v
    d1 = d1
    d2 = d2
    Users = {u, v}
    Devices = {d1, d2}
    Owner <- MCOwner
    Sockets = {k1, k2, k3}
    Events = {e1}
    MaxCuts = 1
SPECIFICATION FairSpec
CHECK_DEADLOCK FALSE
INVARIANTS
    TypeOK
    ListenersAreRegistered
    RegistryIsServed
    OneChainPerDevice
    EveryListenerIsTold
PROPERTY
    Reconnects
