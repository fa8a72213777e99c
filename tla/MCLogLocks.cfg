\* Up to two entries of a forward expire together; an upload takes a tick.
CONSTANTS
    Handlers = {reader, acceptor}
    Refreshers = {refresher1, refresher2}
    Loggers = {connection}
    MaxExpired = 2
    Timeout = 1
SPECIFICATION Spec
INVARIANTS
    StallBounded
PROPERTIES
    EveryoneServed
