\* An attempt takes 1 tick at most when all is well, else up to 5, a response
\* as much or up to 4; the interval is 3 or, if none is given, 4: attempts and
\* responses may outlast both. An interval of 2 is refused. A period of 10
\* survives one attempt without a grant at interval 4, two at 3.
CONSTANTS
    None = none
    Configured = {none, 2, 3}
    MinInterval = 3
    DefaultInterval = 4
    MaxAttempt = 5
    MaxFlight = 4
    Prompt = 1
    Period = 10
    AlarmFactor = 2
    MaxMissed = 3
SPECIFICATION Spec
INVARIANTS
    LapseAccounted
    AlarmsKeepPace
    OneAttemptPerTick
PROPERTIES
    StopEndsLoop
    RegainsAccess
