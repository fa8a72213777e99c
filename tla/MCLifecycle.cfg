\* The third forward stands behind one that cannot bind.  The process ends,
\* so the program may stop.
CONSTANTS
    p = p
    q = q
    NForwards = 3
    Ports = {p, q}
    PortOf <- MCPortOf
SPECIFICATION Spec
INVARIANTS
    PortsGoToFirst
    NeverPanics
PROPERTIES
    EveryFreePortServed
    PacketsTaken
    ListenerStops
CHECK_DEADLOCK FALSE
