\* Two connections that may carry bytes at every tick.
CONSTANTS
    a = a
    b = b
    d = d
    a1 = a1
    a2 = a2
    b1 = b1
    d1 = d1
    IPs = {a}
    Conns = {a1, a2}
    IPOf <- MCIPOfTwo
    MaxConnGlobal = 0
    MaxConnPerIP = 0
    IdleTimeout = 2
    DropDelay = FALSE
    MayStop = FALSE
SPECIFICATION Spec
PROPERTIES
    OnlyIdleCut
