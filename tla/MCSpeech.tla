-------------------------------- MODULE MCSpeech --------------------------------
(***************************************************************************)
(* From audio to what is known of it: the lines made of a stream and their  *)
(* language, who speaks, what the lines are found to say, the recording     *)
(* that is transcribed again, and what corrections and decisions make of    *)
(* later answers.  None writes what another reads, so one is chosen at the  *)
(* start and the rest stand still.                                          *)
(***************************************************************************)
EXTENDS Integers, Sequences, FiniteSets

CONSTANTS
    Hands, Categories, NoCategory, LineRoles, LineLimit, MaxLines, MaxGrowths,     \* LineTags
    MaxItems, MaxFaults, MaxRuns,
    Sockets, MaxSeconds, Window, LeadIn, Retention, MaxStreams, MaxHeard,       \* Recordings
    MaxClock, MaxCrashes,
    Calls, Values, Feedbacks, Reviews, MinOccurrences, MinCalls, MinTenths,     \* Learning
    Names, Themes, AdminKeys, Other, Deciders, Readers, MaxDecisions,           \* Categories
    MaxFailures,
    None

(* The one track of a mixed stream carries both sides; a track of its own   *)
(* is the customer's.                                                       *)
MixedRoles == [t \in {"mixed"} |-> {"icr", "customer", "unknown"}]
CustomerRoles == [t \in {"mixed"} |-> {"customer"}]

(* The cue of a line points to the executive, decisively, or to the         *)
(* customer; the stream moves to the other instance once, or the store      *)
(* fails once.                                                              *)
SomeCues == {-2, 3}
OneMishap == {[moves |-> 1, outages |-> 0], [moves |-> 0, outages |-> 1]}

VARIABLES part,
    sBuffer, sEnded, sQueue, sOpen, sLatest, sLines, sLock, sOutcomes, sLost, sFailures,
    sHands,
    rAt, rProfiles, rSession, rRoles, rEvidence, rLines, rChunks, rBudget,
    tTogether, tLines, tEnded, tRevised, tFinished, tIds, tGrowths, tFaults, tBegun, tAt,
    tAgain, tSeen, tGot, tOwn, tPartial, tInvented,
    kSocket, kStreams, kLive, kTranscript, kCompleted, kHeld, kJobs, kFile, kRow, kSweep,
    kClock, kMishaps,
    nObserved, nPredicted, nFeedback, nCorrected, nCandidates, nImprovements,
    nRefreshing, nAt, nHand, nList, nTodo, nCopy, nFailures,
    gAccepted, gManaged, gHeld, gFresh, gHasRead, gRefreshing, gAt, gCopy, gDecisions,
    gFailures

S == INSTANCE LiveSpeech WITH
    buffer <- sBuffer, ended <- sEnded, queue <- sQueue, open <- sOpen,
    latest <- sLatest, lines <- sLines, lock <- sLock, outcomes <- sOutcomes,
    lost <- sLost, failures <- sFailures, hands <- sHands, Tracks <- {"mixed"},
    Languages <- {"english"}, Indian <- {}, Limit <- 3, Pause <- 2, MinSpeech <- 2,
    MaxLine <- 5, LockAfter <- 2, UnlockAfter <- 2, MaxFrames <- 6, MaxFailures <- 1,
    MaxHands <- 1, Roles <- MixedRoles
A == INSTANCE LiveSpeech WITH
    buffer <- sBuffer, ended <- sEnded, queue <- sQueue, open <- sOpen,
    latest <- sLatest, lines <- sLines, lock <- sLock, outcomes <- sOutcomes,
    lost <- sLost, failures <- sFailures, hands <- sHands, Tracks <- {"mixed"},
    Languages <- {"english", "ta", "te"}, Indian <- {"ta", "te"}, Limit <- 2, Pause <- 1,
    MinSpeech <- 1, MaxLine <- 5, LockAfter <- 2, UnlockAfter <- 2, MaxFrames <- 7,
    MaxFailures <- 2, MaxHands <- 0, Roles <- CustomerRoles
R == INSTANCE SpeakerRoles WITH
    at <- rAt, profiles <- rProfiles, session <- rSession, roles <- rRoles,
    evidence <- rEvidence, lines <- rLines, chunks <- rChunks, budget <- rBudget,
    Voices <- {"a", "b"}, Instances <- {"i", "j"}, Cues <- SomeCues, Decisive <- 3,
    Margin <- 2, MinLines <- 2, EveryLines <- 2, MaxAttempts <- 1, Budgets <- OneMishap,
    MaxChunks <- 4
T == INSTANCE LineTags WITH
    together <- tTogether, lines <- tLines, ended <- tEnded, revised <- tRevised,
    finished <- tFinished, ids <- tIds, growths <- tGrowths, faults <- tFaults,
    begun <- tBegun, at <- tAt, again <- tAgain, seen <- tSeen, got <- tGot, own <- tOwn,
    partial <- tPartial, invented <- tInvented, Unknown <- NoCategory, Roles <- LineRoles
K == INSTANCE Recordings WITH
    socket <- kSocket, streams <- kStreams, live <- kLive, transcript <- kTranscript,
    completed <- kCompleted, held <- kHeld, jobs <- kJobs, file <- kFile, row <- kRow,
    sweep <- kSweep, clock <- kClock, mishaps <- kMishaps, MaxFrames <- MaxHeard
N == INSTANCE Learning WITH
    observed <- nObserved, predicted <- nPredicted, feedback <- nFeedback,
    corrected <- nCorrected, candidates <- nCandidates, improvements <- nImprovements,
    refreshing <- nRefreshing, at <- nAt, hand <- nHand, list <- nList, todo <- nTodo,
    copy <- nCopy, failures <- nFailures
G == INSTANCE Categories WITH
    accepted <- gAccepted, managed <- gManaged, held <- gHeld, fresh <- gFresh,
    hasRead <- gHasRead, refreshing <- gRefreshing, at <- gAt, copy <- gCopy,
    decisions <- gDecisions, failures <- gFailures
sVars == <<sBuffer, sEnded, sQueue, sOpen, sLatest, sLines, sLock, sOutcomes, sLost, sFailures,
    sHands>>
rVars == <<rAt, rProfiles, rSession, rRoles, rEvidence, rLines, rChunks, rBudget>>
tVars == <<tTogether, tLines, tEnded, tRevised, tFinished, tIds, tGrowths, tFaults, tBegun, tAt,
    tAgain, tSeen, tGot, tOwn, tPartial, tInvented>>
kVars == <<kSocket, kStreams, kLive, kTranscript, kCompleted, kHeld, kJobs, kFile, kRow, kSweep,
    kClock, kMishaps>>
nVars == <<nObserved, nPredicted, nFeedback, nCorrected, nCandidates, nImprovements,
    nRefreshing, nAt, nHand, nList, nTodo, nCopy, nFailures>>
gVars == <<gAccepted, gManaged, gHeld, gFresh, gHasRead, gRefreshing, gAt, gCopy, gDecisions,
    gFailures>>

vars == <<part, sVars, rVars, tVars, kVars, nVars, gVars>>

ASSUME PartsAssumption ==
       /\ S!LiveSpeechAssumption /\ A!LiveSpeechAssumption /\ R!RolesAssumption
       /\ T!LineTagsAssumption /\ K!RecordingsAssumption /\ N!LearningAssumption
       /\ G!CategoriesAssumption

(* A correction counts: corrections too few for a pattern are some.  The    *)
(* candidates of the one pattern are reviewed by one person at a time.      *)
ASSUME LearningIsReviewed ==
       /\ MinOccurrences # 0
       /\ \A r, s \in Reviews : r = s
       /\ Feedbacks \cap Reviews = {}
       /\ IsFiniteSet(Calls)
ASSUME DecidersDoNotRead == Deciders \cap Readers = {}
ASSUME NoneIsNothing ==
       None \notin Values \cup Feedbacks \cup Readers /\ None \notin Nat \X Nat

Init ==
    /\ part \in {"speech", "languages", "roles", "tags", "recording", "learning", "catalog"}
    /\ IF part = "languages" THEN A!Init ELSE S!Init
    /\ K!Init
    /\ N!Init
    /\ G!Init
    /\ IF part = "roles" THEN R!Init
       ELSE /\ rAt = None /\ rProfiles = None /\ rSession = None /\ rRoles = None
            /\ rEvidence = None /\ rLines = None /\ rChunks = None /\ rBudget = None
    /\ IF part = "tags" THEN T!Init
       ELSE /\ tTogether = None /\ tLines = None /\ tEnded = None /\ tRevised = None
            /\ tFinished = None /\ tIds = None /\ tGrowths = None /\ tFaults = None
            /\ tBegun = None /\ tAt = None /\ tAgain = None /\ tSeen = None
            /\ tGot = None /\ tOwn = None /\ tPartial = None /\ tInvented = None

(* One part moves, and the rest stand still.                               *)
Next ==
    \/ part = "speech" /\ S!Next
       /\ UNCHANGED <<part, rVars, tVars, kVars, nVars, gVars>>
    \/ part = "languages" /\ A!Next
       /\ UNCHANGED <<part, rVars, tVars, kVars, nVars, gVars>>
    \/ part = "roles" /\ R!Next
       /\ UNCHANGED <<part, sVars, tVars, kVars, nVars, gVars>>
    \/ part = "tags" /\ T!Next
       /\ UNCHANGED <<part, sVars, rVars, kVars, nVars, gVars>>
    \/ part = "recording" /\ K!Next
       /\ UNCHANGED <<part, sVars, rVars, tVars, nVars, gVars>>
    \/ part = "learning" /\ N!Next
       /\ UNCHANGED <<part, sVars, rVars, tVars, kVars, gVars>>
    \/ part = "catalog" /\ G!Next
       /\ UNCHANGED <<part, sVars, rVars, tVars, kVars, nVars>>

Spec == Init /\ [][Next]_vars

-----------------------------------------------------------------------------
TypeOK ==
    /\ IF part = "languages" THEN A!TypeOK ELSE S!TypeOK
    /\ part = "roles" => R!TypeOK
    /\ part = "tags" => T!TypeOK
    /\ N!TypeOK
    /\ G!TypeOK

(* The lines of a call hold what was said, once, in the order it was said   *)
(* and never cut within a sentence, a track is locked to no language but    *)
(* the one it is heard in (LiveSpeech), and the lines of one speaker are    *)
(* not given to the other, though the stream moves to another instance or   *)
(* the store fails (SpeakerRoles).                                          *)
LinesReadWell ==
    /\ part = "speech" => S!LinesReadWell /\ S!SentencesStayWhole /\ S!LockFitsTheSpeech
    /\ part = "languages" => A!LinesReadWell /\ A!SentencesStayWhole /\ A!LockFitsTheSpeech
    /\ part = "roles" => R!SpeakersAreToldApart

(* Nothing is found in words nobody said, no answer that came is thrown     *)
(* away for one that did not, and the last lines of a long call are rated   *)
(* (LineTags).                                                              *)
FindingsAreGrounded ==
    part = "tags" => T!FindingsAreGrounded /\ T!NoResultIsLost /\ T!LastLinesAreRated

(* What is transcribed again loses nothing of the live transcript, and a    *)
(* recording that is kept can be played (Recordings).                       *)
RecordingsAreWhole == K!RevisionKeepsTheSpeech /\ K!KeptIsPlayable

(* Corrections given at once propose one improvement (Learning), and a      *)
(* decision on a category shows at once on its instance (Categories).       *)
CorrectionsCount == N!ProposedOnce /\ G!ChangesShowAtOnce
=============================================================================
