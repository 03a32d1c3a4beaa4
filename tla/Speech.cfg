\* Each component with as few of each actor as meet.
SPECIFICATION Spec
CONSTANTS
    None = None
    Hands = {"h"}  Categories = {"c"}  NoCategory = "x"  LineRoles = {"CUSTOMER"}
    LineLimit = 1  MaxLines = 2  MaxGrowths = 1  MaxItems = 1  MaxFaults = 1  MaxRuns = 1
    Sockets = {"s"}  MaxSeconds = 5  Window = 4  LeadIn = 1  Retention = 1  MaxStreams = 1
    MaxHeard = 6  MaxClock = 1  MaxCrashes = 1
    Calls = {1, 2}  Values = {"v"}  Feedbacks = {"f", "g"}  Reviews = {"r"}
    MinOccurrences = 1  MinCalls = 1  MinTenths = 5
    Names = {"n1", "n2", "Other"}  Themes = {"t"}  AdminKeys = {"a"}  Other = "Other"
    Deciders = {"d", "e"}  Readers = {"r", "q"}  MaxDecisions = 3
    MaxFailures = 1
INVARIANTS TypeOK LinesReadWell FindingsAreGrounded RecordingsAreWhole
           CorrectionsCount
CHECK_DEADLOCK FALSE
