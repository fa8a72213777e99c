\* A grant of one tick, a dial of one, a deadline of one. The denied address
\* is listed as static too, and has a client that is granted access.
CONSTANTS
    a = a
    d = d
    ca = ca
    cd = cd
    a1 = a1
    a2 = a2
    d1 = d1
    Conns = {a1, a2, d1}
    IPs = {a, d}
    IPOf <- MCIPOf
    MaxConnGlobal = 0
    MaxConnPerIP = 1
    IdleTimeout = 1
    DropDelay = TRUE
    MayStop = FALSE
    Clients = {ca, cd}
    ClientIP <- MCClientIP
    Period <- MCPeriod
    Denied = {d}
    Static <- MCStatic
    MaxClients = 1
    DialTimeout = 1
    Port = port
    Request = request
    MaxTime = 4
SYMMETRY Symmetry
SPECIFICATION GatewaySpec
INVARIANTS
    AccessEnds
CHECK_DEADLOCK FALSE
