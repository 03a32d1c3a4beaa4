------------------------------ MODULE MCBackOffice ------------------------------
(***************************************************************************)
(* What comes to be true in the end beside the call's record: the emerging  *)
(* complaints read of completed calls, the price list each instance answers *)
(* with, the lists of calls on a supervisor's screen, the archive of a      *)
(* call's recording, and what is shown of a live analysis.  None writes     *)
(* what another reads, so one is chosen at the start and the rest stand     *)
(* still.                                                                   *)
(***************************************************************************)
EXTENDS Integers, Sequences, FiniteSets

CONSTANTS
    Instances, Calls, Hands, Supervisors, MinCalls,                             \* Themes
    BoardCalls, Locations, BoardTones, MaxAlerts, MaxLevel, BoardChoices,       \* LiveBoard
    Unfiltered, BoardPage, MaxLiveCalls, CacheSeconds, MaxChanges, MaxClicks, MaxFlying,
    Screen, Listing, Called(_, _), Texts, Ranges, Day, BrowserPage,              \* CallBrowser
    Enterers, Order, Questions, About, Rule, Unusable, Limit, MaxItems, MaxLines,    \* LiveAnalysis
    MaxFailures, None

(* One instance completes the calls; a second one prices some.              *)
AllOnOne == [x \in Calls \cup Hands \cup Supervisors |-> CHOOSE i \in Instances : TRUE]
FarOnOther == [x \in {"near", "far", "e", "f"} |-> IF x = "far" THEN "j" ELSE "i"]

(* Where each call is taken, and the filters of the live board.             *)
TakenAt == <<"north", "south">>
EveryCall == [location |-> None, tone |-> None, alertsOnly |-> FALSE]
BoardFilters == {EveryCall, [location |-> "north", tone |-> "angry", alertsOnly |-> TRUE]}

(* Only the first call is of the caller looked for.                         *)
CalledSo(call, text) == call = 1
DayRanges == {<<None, None>>, <<0, 0>>, <<1, None>>, <<None, 1>>}

(* The screen is tried with two calls and the choices of a person, the two  *)
(* stores with one call and the changes of its complaints.                  *)
OfTheScreen ==
    [calls |-> 2, complaints |-> {"k"}, changes |-> 1, choices |-> 2, failures |-> 0, clock |-> 0]
OfTheListing ==
    [calls |-> 1, complaints |-> {"k", "l"}, changes |-> 6, choices |-> 0, failures |-> 1,
     clock |-> 3]

(* The one question, about the one category, is also its fixed question.    *)
OneCategory == <<"c">>
QuestionAbout == [q \in {"p"} |-> "c"]
FixedQuestion == [c |-> "p"]

VARIABLES part,
    tCompleted, tRequested, tTheme, tLastRead, tKnown, tRunning, tPending, tRunLock,
    tLock, tAt, tCopy, tFailures,
    pVersions, pLast, pCached, pFresh, pAt, pCopy, pFailures,
    bCalls, bCached, bReading, bPage, bFlying, bUsed,
    cStore, cClock, cSettled, cBrowser, cChosen, cFlying, cUsed,
    rSocket, rStreams, rLive, rTranscript, rCompleted, rHeld, rJobs, rFile, rRow, rSweep,
    rClock, rMishaps,
    lEnded, lSaid, lBooked, lDue, lOpen, lHandled, lSnapshot, lAnalysed, lAt, lSeen,
    lMade, lFailures, lMixed

T == INSTANCE Themes WITH
    completed <- tCompleted, requested <- tRequested, theme <- tTheme,
    lastRead <- tLastRead, known <- tKnown, running <- tRunning, pending <- tPending,
    runLock <- tRunLock, lock <- tLock, at <- tAt, copy <- tCopy, failures <- tFailures,
    On <- AllOnOne
P == INSTANCE PriceList WITH
    versions <- pVersions, last <- pLast, cached <- pCached, fresh <- pFresh, at <- pAt,
    copy <- pCopy, failures <- pFailures, Instances <- {"i", "j"},
    Lists <- {"s", "a", "bad"}, Valid <- {"s", "a"}, Sample <- "s",
    Readers <- {"near", "far"}, Editors <- {"e", "f"}, On <- FarOnOther,
    KeptVersions <- 1, MaxVersions <- 2, MaxFailures <- 1
B == INSTANCE LiveBoard WITH
    calls <- bCalls, cached <- bCached, reading <- bReading, page <- bPage,
    flying <- bFlying, used <- bUsed, Calls <- BoardCalls, Location <- Locations,
    Tones <- BoardTones, Choices <- BoardChoices, NoFilters <- Unfiltered,
    PageSize <- BoardPage
C(size) == INSTANCE CallBrowser WITH
    store <- cStore, clock <- cClock, settled <- cSettled, browser <- cBrowser,
    chosen <- cChosen, flying <- cFlying, used <- cUsed, Calls <- 1..size.calls,
    Complaints <- size.complaints, PageSize <- BrowserPage, MaxChanges <- size.changes,
    MaxChoices <- size.choices, MaxFailures <- size.failures, MaxClock <- size.clock
R == INSTANCE Recordings WITH
    socket <- rSocket, streams <- rStreams, live <- rLive, transcript <- rTranscript,
    completed <- rCompleted, held <- rHeld, jobs <- rJobs, file <- rFile, row <- rRow,
    sweep <- rSweep, clock <- rClock, mishaps <- rMishaps, Sockets <- {"s"},
    MaxSeconds <- 2, Window <- 4, LeadIn <- 1, Retention <- 1, MaxStreams <- 1,
    MaxFrames <- 3, MaxClock <- 2, MaxCrashes <- 1, MaxFailures <- 1
L == INSTANCE LiveAnalysis WITH
    ended <- lEnded, said <- lSaid, booked <- lBooked, due <- lDue, open <- lOpen,
    handled <- lHandled, snapshot <- lSnapshot, analysed <- lAnalysed, at <- lAt,
    seen <- lSeen, made <- lMade, failures <- lFailures, mixed <- lMixed,
    Hands <- Enterers
tVars == <<tCompleted, tRequested, tTheme, tLastRead, tKnown, tRunning, tPending, tRunLock,
    tLock, tAt, tCopy, tFailures>>
pVars == <<pVersions, pLast, pCached, pFresh, pAt, pCopy, pFailures>>
bVars == <<bCalls, bCached, bReading, bPage, bFlying, bUsed>>
cVars == <<cStore, cClock, cSettled, cBrowser, cChosen, cFlying, cUsed>>
rVars == <<rSocket, rStreams, rLive, rTranscript, rCompleted, rHeld, rJobs, rFile, rRow, rSweep,
    rClock, rMishaps>>
lVars == <<lEnded, lSaid, lBooked, lDue, lOpen, lHandled, lSnapshot, lAnalysed, lAt, lSeen,
    lMade, lFailures, lMixed>>

vars == <<part, tVars, pVars, bVars, cVars, rVars, lVars>>

(* Themes and people are of one API instance, and None is unlike whatever   *)
(* is kept where it may stand.                                              *)
ASSUME PartsAssumption ==
       /\ T!ThemesAssumption /\ P!PriceListAssumption /\ B!LiveBoardAssumption
       /\ C(Screen)!BrowserAssumption /\ C(Listing)!BrowserAssumption
       /\ R!RecordingsAssumption /\ L!LiveAnalysisAssumption
ASSUME OneInstance == \A i, j \in Instances : i = j
ASSUME CallsAreFew == IsFiniteSet(BoardCalls)
ASSUME NoneIsNothing ==
       /\ None \notin Nat \cup Texts \cup T!People
       /\ None \notin [status : {"open", "resolved"}, updated : Nat, events : SUBSET Nat]

Init ==
    /\ part \in {"themes", "prices", "board", "browser", "listing", "archive", "analysis"}
    /\ T!Init
    /\ P!Init
    /\ B!Init /\ (part # "board" => bCalls = [c \in BoardCalls |-> B!NewCall])
    /\ IF part = "listing" THEN C(Listing)!Init ELSE C(Screen)!Init
    /\ R!Init
    /\ L!Init

(* One part moves, and the rest stand still.                               *)
Themes(which, A) == part = which /\ A /\ UNCHANGED <<part, pVars, bVars, cVars, rVars, lVars>>
Prices(which, A) == part = which /\ A /\ UNCHANGED <<part, tVars, bVars, cVars, rVars, lVars>>
Board(which, A) == part = which /\ A /\ UNCHANGED <<part, tVars, pVars, cVars, rVars, lVars>>
Browser(which, A) == part = which /\ A /\ UNCHANGED <<part, tVars, pVars, bVars, rVars, lVars>>
Archive(which, A) == part = which /\ A /\ UNCHANGED <<part, tVars, pVars, bVars, cVars, lVars>>
Analysis(which, A) == part = which /\ A /\ UNCHANGED <<part, tVars, pVars, bVars, cVars, rVars>>

Next ==
    \/ Themes("themes", T!Next)
    \/ Prices("prices", P!Next)
    \/ Board("board", B!Next)
    \/ Browser("browser", C(Screen)!Next)
    \/ Browser("listing", C(Listing)!Next)
    \/ Archive("archive", R!Next)
    \/ Analysis("analysis", L!Next)

(* The fairness of each part, while it is the one that moves.               *)
Fairness ==
    /\ SF_tVars(part = "themes" /\ \E c \in Calls : T!Request(c))
    /\ \A i \in Instances :
         SF_tVars(part = "themes" /\ (T!Wakes(i) \/ T!StartInBackground(i) \/ T!Run(i)))
    /\ \A h \in Hands : SF_tVars(part = "themes" /\ T!Run(h))
    /\ \A s \in Supervisors : WF_tVars(part = "themes" /\ T!SaveReview(s))
    /\ \A r \in {"near", "far"} : WF_pVars(part = "prices" /\ (P!Price(r) \/ P!Read(r) \/ P!Keep(r)))
    /\ \A i \in {"i", "j"} : WF_pVars(part = "prices" /\ P!CacheAges(i))
    /\ \A e \in {"e", "f"} : WF_pVars(part = "prices" /\ (P!Add(e) \/ P!Use(e)))
    /\ WF_bVars(part = "board" /\ B!Reads) /\ WF_bVars(part = "board" /\ B!ReadTheRest(TRUE))
    /\ WF_bVars(part = "board" /\ B!Tick) /\ WF_bVars(part = "board" /\ B!Poll)
    /\ WF_bVars(part = "board" /\ B!AnswerShown)
    /\ WF_cVars(part = "browser" /\ C(Screen)!TimerFires)
    /\ WF_cVars(part = "browser" /\ C(Screen)!Render)
    /\ WF_cVars(part = "browser" /\ C(Screen)!Serves)
    /\ WF_rVars(part = "archive" /\ R!SweepRemoves) /\ WF_rVars(part = "archive" /\ R!SweepMarks)
    /\ WF_rVars(part = "archive" /\ R!Tick)
    /\ WF_lVars(part = "analysis" /\ L!LiveStep)
    /\ \A h \in Enterers : WF_lVars(part = "analysis" /\ L!Steps(h))

Spec == Init /\ [][Next]_vars /\ Fairness

-----------------------------------------------------------------------------
TypeOK ==
    /\ T!TypeOK
    /\ P!TypeOK
    /\ L!TypeOK

(* A supervisor's decision on an emerging complaint (Themes) and the tone   *)
(* found of a call (LiveAnalysis) are taken back by no later answer.        *)
DecisionStands == T!DecisionStands /\ [][L!ToneStands]_lVars

(* What was done shows in the end, and goes on to: completed calls are read *)
(* (Themes), every instance prices by the list saved (PriceList), the       *)
(* estimate comes up to what was said (LiveAnalysis), a recording past its  *)
(* time is removed (Recordings), and the screens that list calls show what  *)
(* the server holds for what was chosen last (LiveBoard, CallBrowser).      *)
(* What each part comes to for good, together they do.                      *)
WorkCatchesUp ==
    <>[](/\ part = "themes" => T!LastRunReadAll
         /\ part = "prices" => P!LatestPrices
         /\ part = "analysis" => L!EstimateIsLatest
         /\ part = "archive" => R!NoneIsExpired
         /\ part = "board" => B!ListIsRight
         /\ part = "browser" => C(Screen)!ListIsUpToDate)

(* A list shows no calls but those of the filters chosen (LiveBoard), keeps *)
(* what was chosen (CallBrowser), and is the same in memory and in SQL      *)
(* (call_listing_query.py).                                                 *)
ListsAreTheChosen ==
    /\ part = "board" => B!ShowsTheChosen
    /\ part = "browser" => C(Screen)!ChoicesAreKept /\ C(Screen)!StoresAgree
    /\ part = "listing" => C(Listing)!StoresAgree

=============================================================================
