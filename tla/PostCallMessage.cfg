\* A crash between storing the summary and delivering it.
SPECIFICATION FairSpec
CONSTANTS
    Instances = {i1}
    Enders = {e}
    Sweepers = {s1}
    Hands = {}
    InstanceOf <- OnOneInstance
    MaxAttempts = 2
    LimitTries = 1
    MaxMishaps = 1
    MaxRetries = 0
    None = None
PROPERTY MessageFollows
