------------------------------ MODULE MCDelivery -------------------------------
(***************************************************************************)
(* The delivery of a call's summary: while the CRM answers, and, beside it, *)
(* with fewer runs, while the CRM may be away or know nobody.  One of the   *)
(* two is chosen at the start and the other stands still.                   *)
(***************************************************************************)
EXTENDS SummaryDelivery

CONSTANTS AwayPosts, AwayRetriers

VARIABLES part, aRows, aAged, aLate, aAt, aHand, aOutcome, aCrashes

Away == INSTANCE SummaryDelivery WITH
    rows <- aRows, aged <- aAged, late <- aLate, at <- aAt, hand <- aHand,
    outcome <- aOutcome, crashes <- aCrashes, Posts <- AwayPosts, Retriers <- AwayRetriers,
    Lookups <- {"known", "unknown", "fails"}, MaxAttempts <- 2, MaxCrashes <- 1
aVars == <<aRows, aAged, aLate, aAt, aHand, aOutcome, aCrashes>>

DeliveryInit == part \in {"answering", "away"} /\ Init /\ Away!Init
DeliveryNext ==
    \/ part = "answering" /\ Next /\ UNCHANGED <<part, aVars>>
    \/ part = "away" /\ Away!Next /\ UNCHANGED <<part, vars>>

(* The fairness of each, while it is the one that moves: the CRM answers    *)
(* now and then.                                                            *)
Fairness ==
    /\ \A t \in Runs : WF_vars(part = "answering" /\ Step(t))
    /\ \A t \in Retriers : WF_vars(part = "answering" /\ Pick(t))
    /\ WF_vars(part = "answering" /\ \E r \in rows : Age(r))
    /\ \A t \in AwayPosts \cup AwayRetriers :
        /\ WF_aVars(part = "away" /\ Away!Step(t))
        /\ SF_aVars(part = "away" /\ \E answer \in {"known", "unknown"} : Away!Resolve(t, answer))
    /\ \A t \in AwayRetriers : WF_aVars(part = "away" /\ Away!Pick(t))
    /\ WF_aVars(part = "away" /\ \E r \in aRows : Away!Age(r))

DeliverySpec == DeliveryInit /\ [][DeliveryNext]_<<part, vars, aVars>> /\ Fairness

-----------------------------------------------------------------------------
(* A delivery that was begun ends, whatever crashed and although the CRM is *)
(* away now and then: sent, given up, or out of its time (SummaryDelivery). *)
DeliveriesConclude ==
    /\ part = "answering" => Concludes
    /\ part = "away" => Away!Concludes
=============================================================================
