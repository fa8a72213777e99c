\* Four connections for two slots and one slot per address, no timeout: the
\* port's counters and sockets under every interleaving of the goroutines.
\* Either limit refuses while the other does not.
CONSTANTS
    a = a
    b = b
    d = d
    a1 = a1
    a2 = a2
    b1 = b1
    d1 = d1
    IPs = {a, b, d}
    Conns = {a1, a2, b1, d1}
    IPOf <- MCIPOf
    MaxConnGlobal = 2
    MaxConnPerIP = 1
    IdleTimeout = 0
    DropDelay = FALSE
    MayStop = FALSE
SPECIFICATION Spec
SYMMETRY Twins
INVARIANTS
    TypeOK
    BackendWithinLimits
    NothingLeaks
PROPERTIES
    ImplementsSlotPool
