\* One instance; each component with as few of each actor as meet.
SPECIFICATION Spec
CONSTANTS
    None = None
    Instances = {"api1"}
    Categories = {"ac"}  Hands = {"hand"}  People = {"manager"}  Viewers = {"view"}
    Assessors = {"live", "final"}  Supervisors = {"supervisor"}
    Calls = {"x", "y"}  Slots = {1, 2}  MaxChanges = 0  MaxFaults = 1
    UserIds = {"u", "v"}  LocationIds = {"l"}  Numbers = {"n"}  Requests = {"r", "s"}
    Hooks = {"h1", "h2", "h3"}  Overlapping = FALSE  Executives = {"asha", "ravi"}
    PhoneNumbers = {1, 2, 3, 4, 5}  CentreNumbers = {3}  MaxFailures = 2
    OutputCalls = {1, 2}  Runs = {"live", "hand"}  MinEvidence = 1  MinOutputsAfter = 1
    MinTenths = 1  MaxClock = 2  MaxLost = 1  MaxAnalyses = 2
INVARIANTS TypeOK OpenComplaintsAreFlagged ShowsWhatIsAsked CallsReachTheirStaff
           FiguresAreTheCalls PricesAreTheLists
PROPERTY SettledStands
CHECK_DEADLOCK FALSE
