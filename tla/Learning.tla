-------------------------------- MODULE Learning --------------------------------
(***************************************************************************)
(* What the AI learns from corrections: an output is observed on a call,   *)
(* corrected once, the corrections that agree are proposed to a reviewer,  *)
(* and what a reviewer approves is put to use                              *)
(* (learning_management_service.py,                                        *)
(* learning_candidate_generation_service.py, pattern_discovery_service.py).*)
(* One output of one component: a correction is the call it was made on and*)
(* the value it was corrected to, and corrections to one value are one     *)
(* pattern.                                                                *)
(***************************************************************************)
EXTENDS Naturals, FiniteSets, Sequences, FiniteSetsExt

CONSTANTS
    Calls,
    Values,         \* what the output may be corrected to
    Feedbacks,      \* requests that give feedback
    Reviews,        \* requests that review a candidate
    MinOccurrences, MinCalls,
    MinTenths,      \* min_correction_rate, in tenths
    MaxFailures,
    None

LearningAssumption == {MinOccurrences, MinCalls, MinTenths, MaxFailures} \subseteq Nat

VARIABLES
    observed,   \* calls on which the output was observed
    predicted,  \* and has its prediction as evidence
    feedback,   \* of each call: the correction given, or None
    corrected,  \* and as evidence
    candidates, \* improvement_candidates, in the order they were made
    improvements,   \* active_improvements
    refreshing, \* who holds _refresh_lock
    at,         \* the step each request is at
    hand,       \* of each feedback: its call, then the signals it read
    list,       \* of each feedback: the candidates it listed
    todo,       \* of each feedback: patterns yet to be brought up to date
    copy,       \* of each review: the candidate it read
    failures

evidence == <<observed, predicted, feedback, corrected>>
requests == <<refreshing, at, hand, list, todo, copy>>
vars == <<evidence, candidates, improvements, requests, failures>>

Requests == Feedbacks \cup Reviews
Statuses == {"pending_review", "approved", "rejected"}

Init ==
    /\ observed = {} /\ predicted = {}
    /\ feedback = [c \in Calls |-> None]
    /\ corrected = [c \in Calls |-> None]
    /\ candidates = <<>>
    /\ improvements = <<>>
    /\ refreshing = None
    /\ at = [r \in Requests |-> "rest"]
    /\ hand = [f \in Feedbacks |-> None]
    /\ list = [f \in Feedbacks |-> <<>>]
    /\ todo = [f \in Feedbacks |-> {}]
    /\ copy = [r \in Reviews |-> None]
    /\ failures = 0

Move(r, stage) == at' = [at EXCEPT ![r] = stage]
Failure == failures < MaxFailures /\ failures' = failures + 1

-----------------------------------------------------------------------------
(* The rules                                                                *)

(* discover_patterns, for the corrections of one pattern.                   *)
IsPattern(calls, outputs) ==
    LET n == Cardinality(calls)
    IN  /\ n >= MinOccurrences
        /\ n >= MinCalls
        /\ 10 * n >= MinTenths * Max({n, outputs})

\* The corrections to a value, among the signals.
To(signals, v) == {c \in Calls : signals[c] = v}

(* _refresh_pattern: of the candidates made from the pattern, the pending   *)
(* one and what the reviewed ones cover.                                    *)
Related(listed, calls) == {i \in DOMAIN listed : listed[i].evidence \cap calls # {}}
Pending(listed, calls) ==
    {i \in Related(listed, calls) : listed[i].status = "pending_review"}
Reviewed(listed, calls) ==
    UNION {listed[i].evidence : i \in Related(listed, calls) \ Pending(listed, calls)}
Fresh(listed, calls) == calls \ Reviewed(listed, calls)

Proposed(listed, calls, outputs) ==
    /\ IsPattern(Fresh(listed, calls), outputs)
    /\ \A i \in Pending(listed, calls) :
         i = Min(Pending(listed, calls)) => listed[i].evidence # Fresh(listed, calls)

-----------------------------------------------------------------------------
(* An analysis records its output: the observation, then its evidence; an   *)
(* observation already made is left alone.                                  *)
Observe(c) ==
    /\ c \notin observed
    /\ observed' = observed \cup {c}
    /\ \/ predicted' = predicted \cup {c} /\ UNCHANGED failures
       \/ Failure /\ UNCHANGED predicted
    /\ UNCHANGED <<feedback, corrected, candidates, improvements, requests>>

(* submit_feedback                                                          *)
GiveFeedback(f, c, v) ==
    /\ at[f] = "rest"
    /\ c \in observed
    /\ feedback[c] = None
    /\ feedback' = [feedback EXCEPT ![c] = v]
    /\ hand' = [hand EXCEPT ![f] = [call |-> c]]
    /\ Move(f, "evidence")
    /\ UNCHANGED <<observed, predicted, corrected, candidates, improvements,
                   refreshing, list, todo, copy, failures>>

(* The evidence; if it cannot be stored the feedback stays without.         *)
RecordEvidence(f) ==
    /\ at[f] = "evidence"
    /\ \/ /\ corrected' = [corrected EXCEPT ![hand[f].call] = feedback[hand[f].call]]
          /\ Move(f, "signals")
          /\ UNCHANGED failures
       \/ /\ Failure
          /\ Move(f, "rest")
          /\ UNCHANGED corrected
    /\ hand' = [hand EXCEPT ![f] = None]
    /\ UNCHANGED <<observed, predicted, feedback, candidates, improvements,
                   refreshing, list, todo, copy>>

(* signals() and output_calls(), before the lock of the refresh             *)
ReadSignals(f) ==
    /\ at[f] = "signals"
    /\ hand' = [hand EXCEPT ![f] = [signals |-> corrected, outputs |-> Cardinality(predicted)]]
    /\ Move(f, "refresh")
    /\ UNCHANGED <<evidence, candidates, improvements, refreshing, list, todo, copy, failures>>

Patterns(h) == {v \in Values : IsPattern(To(h.signals, v), h.outputs)}

\* Mutant: two refreshes at once.
ListAnyway(f) ==
    /\ at[f] = "refresh"
    /\ refreshing' = f
    /\ list' = [list EXCEPT ![f] = candidates]
    /\ todo' = [todo EXCEPT ![f] = Patterns(hand[f])]
    /\ Move(f, "proposing")
    /\ UNCHANGED <<evidence, candidates, improvements, hand, copy, failures>>

(* refresh, under _refresh_lock                                             *)
List(f) ==
    /\ at[f] = "refresh"
    /\ refreshing = None
    /\ refreshing' = f
    /\ list' = [list EXCEPT ![f] = candidates]
    /\ todo' = [todo EXCEPT ![f] = Patterns(hand[f])]
    /\ Move(f, "proposing")
    /\ UNCHANGED <<evidence, candidates, improvements, hand, copy, failures>>

(* A new candidate, or the listed one with the evidence it has now.         *)
Propose(f, v) ==
    /\ at[f] = "proposing"
    /\ v \in todo[f]
    /\ LET calls == To(hand[f].signals, v)
           pending == Pending(list[f], calls)
           fresh == Fresh(list[f], calls)
       IN  candidates' =
             IF ~Proposed(list[f], calls, hand[f].outputs) THEN candidates
             ELSE IF pending = {}
             THEN Append(candidates, [to |-> v, evidence |-> fresh, status |-> "pending_review"])
             ELSE [candidates EXCEPT ![Min(pending)] = [list[f][Min(pending)] EXCEPT !.evidence = fresh]]
    /\ todo' = [todo EXCEPT ![f] = @ \ {v}]
    /\ UNCHANGED <<evidence, improvements, refreshing, at, hand, list, copy, failures>>

Refreshed(f) ==
    /\ at[f] = "proposing"
    /\ todo[f] = {}
    /\ refreshing' = IF refreshing = f THEN None ELSE refreshing
    /\ hand' = [hand EXCEPT ![f] = None]
    /\ list' = [list EXCEPT ![f] = <<>>]
    /\ Move(f, "rest")
    /\ UNCHANGED <<evidence, candidates, improvements, todo, copy, failures>>

-----------------------------------------------------------------------------
(* A review: the candidate is read, and saved as reviewed; an approved one  *)
(* is put to use, or restored as it was read.                               *)
Open(r, i) ==
    /\ at[r] = "rest"
    /\ i \in DOMAIN candidates
    /\ candidates[i].status = "pending_review"
    /\ copy' = [copy EXCEPT ![r] = [id |-> i, candidate |-> candidates[i]]]
    /\ Move(r, "deciding")
    /\ UNCHANGED <<evidence, candidates, improvements, refreshing, hand, list, todo, failures>>

SaveReview(r, status) ==
    /\ at[r] = "deciding"
    /\ candidates' = [candidates EXCEPT ![copy[r].id] = [copy[r].candidate EXCEPT !.status = status]]
    /\ IF status = "approved" THEN Move(r, "activating") /\ UNCHANGED copy
       ELSE Move(r, "rest") /\ copy' = [copy EXCEPT ![r] = None]
    /\ UNCHANGED <<evidence, improvements, refreshing, hand, list, todo, failures>>

\* The improvement get_by_candidate_id may return.
Existing(i) == {n \in DOMAIN improvements : improvements[n].candidate = i}

Activate(r) ==
    /\ at[r] = "activating"
    /\ LET i == copy[r].id IN
         improvements' = IF \E n \in Existing(i) : improvements[n].active THEN improvements
                         ELSE Append(improvements, [candidate |-> i, active |-> TRUE])
    /\ Move(r, "rest")
    /\ copy' = [copy EXCEPT ![r] = None]
    /\ UNCHANGED <<evidence, candidates, refreshing, hand, list, todo, failures>>

ActivationFails(r) ==
    /\ at[r] = "activating"
    /\ Failure
    /\ candidates' = [candidates EXCEPT ![copy[r].id] = copy[r].candidate]
    /\ Move(r, "rest")
    /\ copy' = [copy EXCEPT ![r] = None]
    /\ UNCHANGED <<evidence, improvements, refreshing, hand, list, todo>>

(* deactivate_improvement                                                   *)
Deactivate(n) ==
    /\ n \in DOMAIN improvements
    /\ improvements[n].active
    /\ improvements' = [improvements EXCEPT ![n].active = FALSE]
    /\ UNCHANGED <<evidence, candidates, requests, failures>>

Next ==
    \/ \E c \in Calls : Observe(c)
    \/ \E f \in Feedbacks :
         \/ \E c \in Calls, v \in Values : GiveFeedback(f, c, v)
         \/ RecordEvidence(f) \/ ReadSignals(f) \/ List(f) \/ Refreshed(f)
         \/ \E v \in Values : Propose(f, v)
    \/ \E r \in Reviews :
         \/ \E i \in DOMAIN candidates : Open(r, i)
         \/ \E status \in {"approved", "rejected"} : SaveReview(r, status)
         \/ Activate(r) \/ ActivationFails(r)
    \/ \E n \in DOMAIN improvements : Deactivate(n)

Spec == Init /\ [][Next]_vars

-----------------------------------------------------------------------------
Candidates == [to : Values, evidence : SUBSET Calls, status : Statuses]
Corrections == [Calls -> Values \cup {None}]

TypeOK ==
    /\ predicted \subseteq observed /\ observed \subseteq Calls
    /\ {feedback, corrected} \subseteq Corrections
    /\ candidates \in Seq(Candidates)
    /\ improvements \in Seq([candidate : DOMAIN candidates, active : BOOLEAN])
    /\ refreshing \in Feedbacks \cup {None}
    /\ at \in [Requests -> {"rest", "evidence", "signals", "refresh", "proposing",
                            "deciding", "activating"}]
    /\ hand \in [Feedbacks -> {None} \cup [call : Calls]
                              \cup [signals : Corrections, outputs : 0..Cardinality(Calls)]]
    /\ list \in [Feedbacks -> Seq(Candidates)]
    /\ todo \in [Feedbacks -> SUBSET Values]
    /\ copy \in [Reviews -> [id : DOMAIN candidates, candidate : Candidates] \cup {None}]
    /\ failures \in 0..MaxFailures

(* "Evidence already covered by a reviewed ... candidate is not proposed   *)
(* again", and "a pattern keeps at most one PENDING_REVIEW candidate":     *)
(* while nothing fails no correction is in two candidates, and each        *)
(* candidate has of one pattern what makes a pattern by itself, although   *)
(* signals are read before the lock and reviews take none.  It takes one   *)
(* review at a time: a second one saves what it read before a refresh.     *)
ProposedOnce ==
    /\ failures = 0 =>
         \A i, j \in DOMAIN candidates :
             i # j => candidates[i].evidence \cap candidates[j].evidence = {}
    /\ \A i \in DOMAIN candidates :
         /\ Cardinality(candidates[i].evidence) >= MinOccurrences
         /\ \A c \in candidates[i].evidence : corrected[c] = candidates[i].to

(* "Evidence already covered by a reviewed (approved or rejected) candidate*)
(* is not proposed again": a review stands.                                *)
ReviewsStand ==
    [][\A i \in DOMAIN candidates :
         candidates[i].status # "pending_review" /\ failures' = 0
         => candidates'[i].status = candidates[i].status]_vars
=============================================================================
