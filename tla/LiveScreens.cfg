\* One category and one sweep; one call, with two requests each; two numbers.
SPECIFICATION Spec
CONSTANTS
    None = None
    Categories = {"hygiene"}  Severe = {}  Unsure = {}
    Sweepers = {"sweep"}  Remembered = 1  Unrecognised = 1
    Calls = {"x"}  Slots = {1, 2}  MaxChanges = 1  MaxFaults = 1
    Numbers = {1, 2}  Customers = {"ann", "bob"}
    Askers = {}  Identifiers = {"identify"}  Choosers = {"choose"}  MaxEdits = 2
INVARIANT TypeOK
PROPERTIES AlertsFollow ScreenCatchesUp CustomerFollowsTheFile
CHECK_DEADLOCK FALSE
