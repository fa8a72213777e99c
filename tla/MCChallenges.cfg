\* Two may be pending for one address and three in all. The clock covers the
\* first cleanup and two periods.
CONSTANTS
    a = a
    b = b
    a1 = a1
    a2 = a2
    a3 = a3
    b1 = b1
    b2 = b2
    IPs = {a, b}
    Keys = {a1, a2, a3, b1, b2}
    IPOf <- MCIPOf
    MaxGlobal = 3
    MaxPerIP = 2
    TTL = 2
    CleanupPeriod = 3
    MaxLag = 1
    MaxTime = 8
SYMMETRY Symmetry
SPECIFICATION Spec
INVARIANTS
    TypeOK
    CountsExact
    WithinLimits
    RedeemedAtMostOnce
    DeadChallengesCollected
PROPERTIES
    RedeemedInTime
    LiveChallengeKept
