\* Two of the three clients fit; the clock lets a window open, be renewed and
\* close.
CONSTANTS
    nat = nat
    home = home
    cafe = cafe
    laptop = laptop
    desktop = desktop
    phone = phone
    t1 = t1
    t2 = t2
    NumForwards = 2
    Ports = {22, 80}
    Tokens = {t1, t2}
    BindPort <- MCBindPort
    AllowTokens <- MCAllowTokens
    GlobalAllowTokens = {t2}
    Listening = {1, 2}
    AuthExpiredTime <- MCAuthExpiredTime
    IPs = {nat, home, cafe}
    GlobalDenyIPs = {home}
    GlobalAllowIPs = {}
    AllowIPs <- MCAllowIPs
    Clients = {laptop, desktop, phone}
    ClientIP <- MCClientIP
    MaxAuthorizedClients = 2
    MaxTime = 3
SPECIFICATION Spec
INVARIANTS
    TypeOK
    WithinCapacity
PROPERTIES
    ImplementsAccessWindow
    ExpiredForgotten
