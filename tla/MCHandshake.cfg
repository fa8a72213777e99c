\* The laptop may try twice, the desktop once; an address holds one challenge.
\* The clock passes the past skew, a challenge's life and the key's end; the
\* counters stop the run when they are used up.
CONSTANTS
    office = office
    mobile = mobile
    laptop = laptop
    desktop = desktop
    Clients = {laptop, desktop}
    IPs = {office, mobile}
    Homes <- MCHomes
    Skew <- MCSkew
    KeyFrom <- MCKeyFrom
    KeyUntil <- MCKeyUntil
    Forwards = {1}
    NoForward = 0
    Target <- MCTarget
    Period <- MCPeriod
    MaxClients = 1
    MaxGlobal = 2
    MaxPerIP = 1
    Second = 2
    TTL = 3
    MaxPastSkew = 2
    MaxFutureSkew = 1
    ReadTimeout = 2
    MaxAttempts <- MCMaxAttempts
    MaxNonce = 2
    MaxRestarts = 1
    MaxTime = 7
CHECK_DEADLOCK FALSE
SPECIFICATION Spec
INVARIANTS
    TypeOK
    RedeemedOnce
    AnswersOwnChallenge
    AdmittedHaveAnswered
PROPERTIES
    GrantsAreRecent
