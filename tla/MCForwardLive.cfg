\* Two connections share the slots of their address under an idle timeout of
\* two ticks, with a delayed drop and a shutdown.
CONSTANTS
    a = a
    b = b
    d = d
    a1 = a1
    a2 = a2
    b1 = b1
    d1 = d1
    IPs = {a, b}
    Conns = {a1, a2}
    IPOf <- MCIPOfTwo
    MaxConnGlobal = 0
    MaxConnPerIP = 2
    IdleTimeout = 2
    DropDelay = TRUE
    MayStop = TRUE
SPECIFICATION Spec
INVARIANTS
    SlotsExact
PROPERTIES
    EveryConnectionEnds
    StopCompletes
    NothingAcceptedAfterDone
