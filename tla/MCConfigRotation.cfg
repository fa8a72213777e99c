\* A documented rotation of keys: the server is started again after the old one ended.
CONSTANTS
    None = None
    strong = strong
    strong2 = strong2
    weak = weak
    addr = addr
    host = host
    junk = junk
    old = old
    new = new
    name = name
    other = other
    Files <- Rotation
    StrongSecrets = {strong, strong2}
    Literals = {addr}
    HostNames = {}
    MaxTime = 3
SPECIFICATION Spec
INVARIANTS
    ActiveKeysServed
