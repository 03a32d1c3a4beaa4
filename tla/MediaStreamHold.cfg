\* One stream, and a hold.
SPECIFICATION TelephonySpec
CONSTANTS
    None = None
    Sockets = {"k1"}  Hooks = {}
    Instances = {"api1"}  Sweepers = {}  Desks = {}
    On <- EndOn
    Overlapping = FALSE
    MaxFrames = 1  MaxStarts = 1  MaxMishaps = 0
    StreamFrames = 2  StreamStarts = 1  MaxHolds = 1
INVARIANT ChunksAreTaken
CHECK_DEADLOCK FALSE
