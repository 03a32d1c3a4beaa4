------------------------------ MODULE MCCallCare -------------------------------
(***************************************************************************)
(* What the backend keeps about a call beside its record, who may change    *)
(* it, and what supervisors read of it: complaints, escalation, the screen  *)
(* of an executive who moves from call to call, the staff, the start of a   *)
(* phone call, the effect of an improvement, reports, estimates and the     *)
(* price list's sheet.  None writes what another reads, so one is chosen at *)
(* the start and the rest stand still.                                      *)
(***************************************************************************)
EXTENDS Integers, Sequences, FiniteSets

CONSTANTS
    Instances,                                                  \* of the API
    Categories, Hands, People, Viewers,                         \* Complaints
    Assessors, Supervisors,                                     \* Escalations
    Calls, Slots, MaxChanges, MaxFaults,                        \* LiveView
    UserIds, LocationIds, Numbers, Requests,                    \* Staff
    Hooks, Overlapping, Executives, PhoneNumbers, CentreNumbers, MaxFailures,   \* CallSetup
    OutputCalls, Runs, MinEvidence, MinOutputsAfter, MinTenths, \* ImprovementEffect
    MaxClock, MaxLost, MaxAnalyses,
    None

ASSUME OneInstance == Cardinality(Instances) = 1

COn == [w \in {"live", "final"} \cup Hands \cup People \cup Viewers |-> CHOOSE i \in Instances : TRUE]
EOn == [w \in Assessors \cup Supervisors |-> CHOOSE i \in Instances : TRUE]
SOn == [r \in Requests |-> CHOOSE i \in Instances : TRUE]
TargetOf == [e \in Executives |-> IF e = "asha" THEN 1 ELSE 2]
WorksAt == [e \in Executives |-> 3]

(* Two kinds of call, and two choices of filters (Reports).                 *)
Reported(exec, tone, cats) ==
    [link |-> [customer |-> IF tone = 3 THEN "k" ELSE None, number |-> None],
     executive |-> exec, location |-> IF tone = 3 THEN "loc" ELSE None,
     tone |-> tone, toneStart |-> 2, toneEnd |-> tone,
     escalation |-> IF tone > 2 THEN "open" ELSE "none", hold |-> 0,
     coverage |-> [i \in DOMAIN cats |-> [category |-> cats[i], status |-> "detected"]],
     tracked |-> [A |-> "open", B |-> None],
     words |-> [A |-> {"brake", "noise"}, B |-> {}],
     outcomes |-> [c \in {"A", "B"} |-> [accepted |-> 0, skipped |-> 0]]]
ReportedKinds == {Reported("e", 3, <<"A", "B">>), Reported("g", 1, <<"A">>)}
Filters(from, to, exec, category, bucket, offset) ==
    [from |-> from, to |-> to, location |-> None, executive |-> exec, tone |-> None,
     category |-> category, bucket |-> bucket, offset |-> offset]
AskedFilters == {Filters(0, 6, None, None, None, 1), Filters(2, 10, "e", "A", None, 0)}

(* Rows of a price list for every vehicle, for one model and for either,    *)
(* and with and without a part, a price, a GST rate and labour (Estimates). *)
Priced(service, models, part_, price, gst, labour, includes) ==
    [service |-> service, model |-> models, part |-> part_, price |-> price, gst |-> gst,
     labour |-> labour, includes |-> includes]
Either == <<"swift", "dzire">>
PricedRows ==
    {Priced("a", <<>>, "pad", 333, None, 1, {"b"}),
     Priced("a", <<"swift">>, None, None, None, 2, {}),
     Priced("a", Either, "pad", 1250, 5, 1, {}),
     Priced("a", Either, "disc", 777, None, None, {"b", "zz"}),
     Priced("b", <<>>, None, None, None, 3, {}),
     Priced("b", <<"swift">>, "oil", 99, 28, 1, {"c"}),
     Priced("c", <<>>, "gas", 1, None, 1, {}),
     Priced("c", Either, "gas", 51, None, 2, {"c"})}
DetectorReplies == {<<>>, <<"a">>, <<"c", "a">>, <<"a", "b", "a">>, <<"b", "zz", "a">>, <<"b", "c">>}
CustomerVehicles == {<<>>, <<"swift">>, <<"maruti", "swift", "dzire">>, <<"alto">>}

(* The built-in list, rows a supervisor types, and sheets filled in: a      *)
(* blank line, percentages, a price in words, more rows than a list may     *)
(* have (PriceListSheet).                                                   *)
Listed(service, price, gst, keywords) ==
    [service |-> service, price |-> price, gst |-> gst, keywords |-> keywords, unread |-> FALSE]
SampleList == <<Listed("oil", 10000, None, <<>>)>>
TypedRows == {Listed("brake", None, 1800, <<"pad", "disc">>), Listed("wash", -100, None, <<>>)}
Cell(kind, value) == [kind |-> kind, value |-> value]
Empty == Cell("blank", 0)
Line(service, price, gst, keywords) ==
    [service |-> service, price |-> price, gst |-> gst, keywords |-> keywords]
Sheet(format, header, lines) == [format |-> format, header |-> header, lines |-> lines]
FilledSheets ==
    {Sheet("xlsx", 0, <<>>),
     Sheet("xlsx", 2, <<Line("oil", Cell("number", 500), Cell("percent", 18), <<"", "a">>),
                        Line(None, Empty, Empty, <<"">>),
                        Line("brake", Cell("text", 700), Empty, <<"", "a">>)>>),
     Sheet("csv", 1, <<Line("oil", Cell("junk", 0), Empty, <<"", "a">>)>>),
     Sheet("csv", 1, [i \in 1..3 |-> Line(<<"oil", "a", "b">>[i], Empty, Empty, <<"", "a">>)])}

VARIABLES part,
    cEnded, cCoverage, cRecords, cTold, cLock, cAt, cFound, cTodo, cCopy, cMissed,
    eOver, eSaid, eTone, eEscalation, eLock, eAt, eSeen, eCopy,
    vStored, vRevision, vOver, vPage, vShown, vCompleting, vRequests, vSocket, vSeen,
    vPushed, vFaults,
    sUsers, sLocations, sUserLock, sLocationLock, sWriting,
    wFrom, wTo, wCalls, wMapping, wAt, wOwn, wGiven, wFailures,
    fClock, fImprovement, fAt, fGuided, fObserved, fPredictions, fCorrections, fUsages,
    fFailures, fBegun,
    rNow, rStore, rName, rPage, rFlights, rLoaded, rChanges, rChoices,
    pRows, pReply, pVehicle, pSaid, pEstimate,
    tVersions, tPage, tSteps

C == INSTANCE Complaints WITH
    ended <- cEnded, coverage <- cCoverage, records <- cRecords, told <- cTold,
    lock <- cLock, at <- cAt, found <- cFound, todo <- cTodo, copy <- cCopy,
    missed <- cMissed, On <- COn
E == INSTANCE Escalations WITH
    over <- eOver, said <- eSaid, tone <- eTone, escalation <- eEscalation,
    lock <- eLock, at <- eAt, seen <- eSeen, copy <- eCopy, On <- EOn
V == INSTANCE LiveView WITH
    stored <- vStored, revision <- vRevision, over <- vOver, page <- vPage,
    shown <- vShown, completing <- vCompleting, requests <- vRequests, socket <- vSocket,
    seen <- vSeen, pushed <- vPushed, faults <- vFaults
S == INSTANCE Staff WITH
    users <- sUsers, locations <- sLocations, userLock <- sUserLock,
    locationLock <- sLocationLock, writing <- sWriting, On <- SOn
W == INSTANCE CallSetup WITH
    from <- wFrom, to <- wTo, calls <- wCalls, mapping <- wMapping, at <- wAt,
    own <- wOwn, given <- wGiven, failures <- wFailures, Numbers <- PhoneNumbers
F == INSTANCE ImprovementEffect WITH
    clock <- fClock, improvement <- fImprovement, at <- fAt, guided <- fGuided,
    observed <- fObserved, predictions <- fPredictions, corrections <- fCorrections,
    usages <- fUsages, failures <- fFailures, begun <- fBegun,
    Calls <- OutputCalls, MaxFailures <- MaxLost
R == INSTANCE Reports WITH
    now <- rNow, store <- rStore, name <- rName, page <- rPage, flights <- rFlights,
    loaded <- rLoaded, changes <- rChanges, choices <- rChoices, Day <- 2,
    MaxRangeDays <- 5, MaxReportCalls <- 3, MaxDailyBuckets <- 3, MaxThemes <- 1,
    MinShared <- 2, MaxLines <- 1, FcrDays <- 1, RepeatDays <- 2, LongHold <- 1,
    CallIds <- {1, 2}, Kinds <- ReportedKinds, Categories <- {"A", "B"},
    Moments <- {1, 3}, Asked <- AskedFilters, MaxChanges <- 1, MaxChoices <- 1
P == INSTANCE Estimates WITH
    rows <- pRows, reply <- pReply, vehicle <- pVehicle, said <- pSaid,
    estimate <- pEstimate, RowChoices <- PricedRows, MaxRows <- 3,
    Replies <- DetectorReplies, Vehicles <- CustomerVehicles, LabourRate <- 45050,
    LabourGst <- 18, DefaultGst <- 18
T == INSTANCE PriceListSheet WITH
    versions <- tVersions, page <- tPage, steps <- tSteps, Supervisors <- {"s"},
    Sample <- SampleList, Typed <- TypedRows, Sheets <- FilledSheets, MaxRows <- 2,
    HeaderSearch <- 2, MaxVersions <- 3, MaxSteps <- 7
cVars == <<cEnded, cCoverage, cRecords, cTold, cLock, cAt, cFound, cTodo, cCopy, cMissed>>
eVars == <<eOver, eSaid, eTone, eEscalation, eLock, eAt, eSeen, eCopy>>
vVars == <<vStored, vRevision, vOver, vPage, vShown, vCompleting, vRequests, vSocket, vSeen,
    vPushed, vFaults>>
sVars == <<sUsers, sLocations, sUserLock, sLocationLock, sWriting>>
wVars == <<wFrom, wTo, wCalls, wMapping, wAt, wOwn, wGiven, wFailures>>
fVars == <<fClock, fImprovement, fAt, fGuided, fObserved, fPredictions, fCorrections, fUsages,
    fFailures, fBegun>>
rVars == <<rNow, rStore, rName, rPage, rFlights, rLoaded, rChanges, rChoices>>
pVars == <<pRows, pReply, pVehicle, pSaid, pEstimate>>
tVars == <<tVersions, tPage, tSteps>>

vars == <<part, cVars, eVars, vVars, sVars, wVars, fVars, rVars, pVars, tVars>>

ASSUME PartsAssumption ==
    /\ C!ComplaintsAssumption /\ E!EscalationsAssumption /\ S!StaffAssumption
    /\ W!SetupAssumption /\ V!ViewAssumption /\ F!EffectAssumption /\ R!ReportsAssumption
    /\ T!SheetAssumption

(* None is none of the things it stands for the absence of.                 *)
ASSUME NoneIsNothing ==
    /\ None \notin Requests \cup S!Users \cup S!Locations
    /\ None \notin C!Clients \cup C!Records \cup E!Clients \cup E!Records \cup Calls

Init ==
    /\ part \in {"complaints", "escalation", "switching", "staff", "setup", "effect",
                "reports", "estimates", "sheet"}
    /\ C!Init
    /\ E!Init
    /\ V!Init
    /\ F!Init
    /\ IF part = "staff" THEN S!Init
       ELSE /\ sUsers = None /\ sLocations = None /\ sUserLock = None
            /\ sLocationLock = None /\ sWriting = None
    /\ IF part = "setup" THEN W!Init
       ELSE /\ wFrom = None /\ wTo = None /\ wCalls = None /\ wMapping = None
            /\ wAt = None /\ wOwn = None /\ wGiven = None /\ wFailures = None
    /\ IF part = "reports" THEN R!Init
       ELSE /\ rNow = None /\ rStore = None /\ rName = None /\ rPage = None
            /\ rFlights = None /\ rLoaded = None /\ rChanges = None /\ rChoices = None
    /\ IF part = "estimates" THEN P!Init
       ELSE /\ pRows = None /\ pReply = None /\ pVehicle = None /\ pSaid = None
            /\ pEstimate = None
    /\ IF part = "sheet" THEN T!Init
       ELSE /\ tVersions = None /\ tPage = None /\ tSteps = None

(* One part moves, and the rest stand still.                               *)
Next ==
    \/ part = "complaints" /\ C!Next
       /\ UNCHANGED <<part, eVars, vVars, sVars, wVars, fVars, rVars, pVars, tVars>>
    \/ part = "escalation" /\ E!Next
       /\ UNCHANGED <<part, cVars, vVars, sVars, wVars, fVars, rVars, pVars, tVars>>
    \/ part = "switching" /\ V!Next
       /\ UNCHANGED <<part, cVars, eVars, sVars, wVars, fVars, rVars, pVars, tVars>>
    \/ part = "staff" /\ S!Next
       /\ UNCHANGED <<part, cVars, eVars, vVars, wVars, fVars, rVars, pVars, tVars>>
    \/ part = "setup" /\ W!Next
       /\ UNCHANGED <<part, cVars, eVars, vVars, sVars, fVars, rVars, pVars, tVars>>
    \/ part = "effect" /\ F!Next
       /\ UNCHANGED <<part, cVars, eVars, vVars, sVars, wVars, rVars, pVars, tVars>>
    \/ part = "reports" /\ R!Next
       /\ UNCHANGED <<part, cVars, eVars, vVars, sVars, wVars, fVars, pVars, tVars>>
    \/ part = "estimates" /\ P!Next
       /\ UNCHANGED <<part, cVars, eVars, vVars, sVars, wVars, fVars, rVars, tVars>>
    \/ part = "sheet" /\ T!Next
       /\ UNCHANGED <<part, cVars, eVars, vVars, sVars, wVars, fVars, rVars, pVars>>

Spec == Init /\ [][Next]_vars

-----------------------------------------------------------------------------
TypeOK ==
    /\ C!TypeOK
    /\ E!TypeOK
    /\ V!TypeOK
    /\ part = "staff" => S!TypeOK
    /\ part = "setup" => W!TypeOK
    /\ F!TypeOK

(* What a call leaves open is flagged for follow-up (Complaints).           *)
OpenComplaintsAreFlagged == part = "complaints" => C!OpenComplaintsAreFlagged

(* What a person has settled the call leaves alone (Complaints), an         *)
(* escalation only ever rises (Escalations), and an improvement is judged   *)
(* by what was given after it, once (ImprovementEffect).                    *)
SettledStands == C!HandledIsLeftAlone /\ E!EscalationOnlyRises /\ F!EffectIsFair

(* A screen shows nothing of another call than the one it is on (LiveView), *)
(* and no report or figures but those its filters ask for (Reports).        *)
ShowsWhatIsAsked ==
    /\ part = "switching" => V!ShowsItsCall
    /\ part = "reports" => R!ShowsWhatIsAsked

(* Administrators who act on each other at once leave one of them, no two   *)
(* users are rung on one number (Staff), and the audio of a phone call goes *)
(* to the call its webhooks reach (CallSetup).                              *)
CallsReachTheirStaff ==
    /\ part = "staff" => S!AnAdminRemains /\ S!TargetsAreDistinct
    /\ part = "setup" => W!AnswersAgree

(* Every figure of a report is that of the calls of its range, the parts of *)
(* one total agree, and settling a complaint never makes a figure worse     *)
(* (Reports).                                                               *)
FiguresAreTheCalls ==
    part = "reports" => R!ReportsAddUp /\ R!FiguresAreTheCalls /\ R!WorkNeverHurts

(* Work and parts are charged once and the total is what they come to       *)
(* (Estimates), by the list that the sheet a supervisor filled in says      *)
(* (PriceListSheet).                                                        *)
PricesAreTheLists ==
    /\ part = "estimates" => P!ChargedOnce /\ P!TotalIsFair
    /\ part = "sheet" => T!SheetsReadWell
=============================================================================
