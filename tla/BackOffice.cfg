\* Each component with as few of each actor as meet.
SPECIFICATION Spec
CONSTANTS
    None = None
    Instances = {"i"}  Calls = {"c1", "c2"}  Hands = {"h"}  Supervisors = {"s"}  MinCalls = 2
    BoardCalls = {1, 2}  Locations <- TakenAt  BoardTones = {"angry"}  MaxAlerts = 1
    MaxLevel = 1  BoardChoices <- BoardFilters  Unfiltered <- EveryCall  BoardPage = 1
    MaxLiveCalls = 3  CacheSeconds = 1  MaxChanges = 1  MaxClicks = 1  MaxFlying = 2
    Screen <- OfTheScreen  Listing <- OfTheListing  Called <- CalledSo  Texts = {"", "t"}
    Ranges <- DayRanges  Day = 1  BrowserPage = 1
    Enterers = {"h"}  Order <- OneCategory  Questions = {"p"}
    About <- QuestionAbout  Rule <- FixedQuestion  Unusable = "bad"  Limit = 1  MaxItems = 1
    MaxLines = 2
    MaxFailures = 1
INVARIANTS TypeOK ListsAreTheChosen
PROPERTIES DecisionStands WorkCatchesUp
CHECK_DEADLOCK FALSE
