\* The socket of a call and the one it reconnects over.
SPECIFICATION Spec
CONSTANTS
    None = None
    Sockets = {"s", "r"}
    MaxSeconds = 5  Window = 4  LeadIn = 1  Retention = 1
    MaxStreams = 2  MaxFrames = 2  MaxClock = 2  MaxCrashes = 0  MaxFailures = 0
INVARIANT RevisionKeepsTheSpeech
CHECK_DEADLOCK FALSE
