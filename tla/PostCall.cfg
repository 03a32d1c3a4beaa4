\* The sweep and a retry by hand, through a crash or a lost lock.
SPECIFICATION FairSpec
CONSTANTS
    Instances = {i1}
    Enders = {}
    Sweepers = {s1}
    Hands = {h}
    InstanceOf <- OnOneInstance
    MaxAttempts = 2
    LimitTries = 2
    MaxMishaps = 1
    MaxRetries = 1
    None = None
INVARIANTS SummaryRestsOnAnalysis OnlyTheStoredIsHanded ToneIsKept
PROPERTIES Settles
