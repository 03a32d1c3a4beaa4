----------------------------- MODULE MCLiveScreens -----------------------------
(***************************************************************************)
(* What is shown beside a call in progress: its alerts, the screen of one   *)
(* executive and the customer, none of which writes what another reads.     *)
(* One is chosen at the start and the rest stand still, so one run checks   *)
(* each of them alone.                                                      *)
(***************************************************************************)
EXTENDS Naturals, Sequences, FiniteSets

CONSTANTS
    Categories, Severe, Unsure, Sweepers, Remembered, Unrecognised,     \* CallAlerts
    Calls, Slots, MaxChanges, MaxFaults,                                \* LiveView
    Numbers, Customers, Askers, Identifiers, Choosers, MaxEdits,        \* CustomerLink
    None

Vehicles == [c \in Customers |-> IF c = "ann" THEN {"van", "car"} ELSE {c}]
Contents == {[c \in Customers |-> IF c = "ann" THEN 1 ELSE 2],
             [c \in Customers |-> IF c = "ann" THEN None ELSE 1],
             [c \in Customers |-> 1]}

VARIABLES part,
    aOver, aCoverage, aWaited, aChunks, aUnclear, aStanding, aLocked, aAt, aConditions,
    aListed, aCovered,
    vStored, vRevision, vOver, vPage, vShown, vCompleting, vRequests, vSocket, vSeen,
    vPushed, vFaults,
    lFile, lEdits, lStamp, lUnreadable, lData, lLink, lAt, lRead, lFound, lChosen, lMatches,
    lStrayed

A == INSTANCE CallAlerts WITH
    over <- aOver, coverage <- aCoverage, waited <- aWaited, chunks <- aChunks,
    unclear <- aUnclear, standing <- aStanding, locked <- aLocked, at <- aAt,
    conditions <- aConditions, listed <- aListed, covered <- aCovered
V == INSTANCE LiveView WITH
    stored <- vStored, revision <- vRevision, over <- vOver, page <- vPage,
    shown <- vShown, completing <- vCompleting, requests <- vRequests, socket <- vSocket,
    seen <- vSeen, pushed <- vPushed, faults <- vFaults
L == INSTANCE CustomerLink WITH
    file <- lFile, edits <- lEdits, stamp <- lStamp, unreadable <- lUnreadable,
    data <- lData, link <- lLink, at <- lAt, read <- lRead, found <- lFound,
    chosen <- lChosen, matches <- lMatches, strayed <- lStrayed
aVars == <<aOver, aCoverage, aWaited, aChunks, aUnclear, aStanding, aLocked, aAt, aConditions,
    aListed, aCovered>>
vVars == <<vStored, vRevision, vOver, vPage, vShown, vCompleting, vRequests, vSocket, vSeen,
    vPushed, vFaults>>
lVars == <<lFile, lEdits, lStamp, lUnreadable, lData, lLink, lAt, lRead, lFound, lChosen,
    lMatches, lStrayed>>

vars == <<part, aVars, vVars, lVars>>

ASSUME A!AlertsAssumption /\ L!LinkAssumption

Init ==
    /\ part \in {"alerts", "screen", "customer"}
    /\ A!Init
    /\ V!Init
    /\ IF part = "customer" THEN L!Init
       ELSE /\ lFile = None /\ lEdits = 0 /\ lStamp = 0 /\ lUnreadable = 0 /\ lData = None
            /\ lLink = None /\ lAt = None /\ lRead = None /\ lFound = None
            /\ lChosen = {} /\ lMatches = {} /\ lStrayed = FALSE

Next ==
    \/ part = "alerts" /\ A!Next /\ UNCHANGED <<part, vVars, lVars>>
    \/ part = "screen" /\ V!Next /\ UNCHANGED <<part, aVars, lVars>>
    \/ part = "customer" /\ L!Next /\ UNCHANGED <<part, aVars, vVars>>

(* The fairness of each part, while it is the one that moves.               *)
Fairness ==
    /\ WF_aVars(part = "alerts" /\ A!LockExpires)
    /\ WF_aVars(part = "alerts" /\ \E w \in Sweepers : A!StartSweep(w))
    /\ \A w \in Sweepers : WF_aVars(part = "alerts" /\ (A!Sweep(w) \/ A!Write(w)))
    /\ WF_aVars(part = "alerts" /\ (A!Refresh \/ A!Write("analysis")))
    /\ \A s \in Slots : WF_vVars(part = "screen" /\ V!Progress(s))
    /\ WF_vVars(part = "screen" /\ \E s \in Slots : V!Poll(s))
    /\ WF_lVars(part = "customer" /\ L!Check)

Spec == Init /\ [][Next]_vars /\ Fairness

-----------------------------------------------------------------------------
TypeOK ==
    /\ A!TypeOK
    /\ V!TypeOK
    /\ part = "customer" => L!TypeOK

(* Alerts follow what is true of the call (CallAlerts).                     *)
AlertsFollow == part = "alerts" => A!AlertsFollow

(* A screen that stays on a call comes to show what the server holds        *)
(* (LiveView).                                                              *)
ScreenCatchesUp == part = "screen" => V!ScreenCatchesUp

(* The customer of a call is one the CRM has had for its number, unless the *)
(* number changed while a vehicle was chosen, and the directory comes to    *)
(* answer from the CRM's file as it is (CustomerLink).                      *)
CustomerFollowsTheFile ==
    /\ [](part = "customer" => L!CustomerIsTheNumbers)
    /\ part = "customer" => L!DirectoryFollows
=============================================================================
