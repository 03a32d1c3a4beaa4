\* Two sockets, one after the other, of one instance or of two; a crash, or an
\* outage of Redis.
SPECIFICATION TelephonySpec
CONSTANTS
    None = None
    Sockets = {"k1", "k2"}  Hooks = {"w1"}
    Instances = {"api1", "api2"}  Sweepers = {"api1"}  Desks = {"api2"}
    On <- EndOn
    Overlapping = FALSE
    MaxFrames = 1  MaxStarts = 1  MaxMishaps = 1
    StreamFrames = 2  StreamStarts = 2  MaxHolds = 1
INVARIANTS TelephonyTypeOK AudioIsKept
PROPERTIES TheEndIsTheEnd FinalAudioLands PhoneCallsEnd
CHECK_DEADLOCK FALSE
