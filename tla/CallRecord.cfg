\* One API instance, two threads, every operation, a crash.
SPECIFICATION FairSpec
CONSTANTS
    t1 = t1  t2 = t2  t3 = t3  api1 = api1  api2 = api2
    w1 = w1  w2 = w2  happy = happy  ana = ana  pune = pune  None = None
    LineIds <- MCLineIds
    Times <- MCTimes
    Words = {w1, w2}
    Tones = {happy}
    Executives = {ana}
    Locations = {pune}
    StartTime = 1
    Instances = {api1}
    Threads = {t1, t2}
    InstanceOf <- OneInstance
    Requests <- AllRequests
    MaxRequests = 3
    MaxCrashes = 1
INVARIANT AcceptedLinesKept
PROPERTIES ImplementsLedger TranscriptFrozen RequestsEnd
CHECK_DEADLOCK FALSE
