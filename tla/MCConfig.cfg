\* All the files: keys that begin at 1 and end at 2, rules of every shape,
\* host names that resolve or do not.
CONSTANTS
    None = None
    strong = strong
    strong2 = strong2
    weak = weak
    addr = addr
    host = host
    junk = junk
    old = old
    new = new
    name = name
    other = other
    Files <- MCFiles
    StrongSecrets = {strong, strong2}
    Literals = {addr}
    HostNames = {host}
    MaxTime = 2
SPECIFICATION Spec
INVARIANTS
    RulesValidated
    CheckedKeysFound
    RefusedForAReason
