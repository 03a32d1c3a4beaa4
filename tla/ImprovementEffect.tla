-------------------------- MODULE ImprovementEffect --------------------------
(***************************************************************************)
(* Whether an approved improvement helped: how often reviewers correct the  *)
(* output it is about, on the calls before it went live and since           *)
(* (improvement_effectiveness_service.py, runtime_improvement_service.py,   *)
(* learning_call_integration_service.py). One improvement of one component, *)
(* and the output it was made from; what is proposed and approved is module *)
(* Learning.                                                                *)
(*                                                                          *)
(* Several analyses of a call may record the same output; a correction      *)
(* comes any time later. A share that moved by exactly the least change is  *)
(* left to the rounding of floating point and does not occur in the checked *)
(* instance.                                                                *)
(***************************************************************************)
EXTENDS Integers, FiniteSets, FiniteSetsExt

CONSTANTS
    Calls,
    Runs,               \* analyses of a call that may overlap
    MinEvidence,        \* MIN_EVIDENCE_FOR_EVALUATION
    MinOutputsAfter,    \* MIN_OUTPUTS_AFTER
    MinTenths,          \* MIN_RATE_CHANGE, in tenths
    MaxClock,
    MaxFailures,
    MaxAnalyses,
    None

EffectAssumption ==
    /\ {MinEvidence, MinOutputsAfter, MinTenths, MaxClock, MaxFailures} \subseteq Nat
    /\ MinEvidence > 0

VARIABLES
    clock,
    improvement,    \* [from, until]: when it went live, and until when
    at,             \* the step of each analysis: "rest", "asking", "recording"
    guided,         \* the analyses that were given the improvement
    observed,       \* calls the output was observed on
    predictions,    \* evidence of the output: its call, and when it was stored
    corrections,    \* evidence of its corrections
    usages,         \* calls it is recorded to have been used on
    failures,
    begun           \* analyses so far

effectVars == <<clock, improvement, at, guided, observed, predictions, corrections, usages,
                failures, begun>>
evidence == <<observed, predictions, corrections, usages>>

Analyses == Calls \X Runs
At(c) == [call |-> c, at |-> clock]

Init ==
    /\ clock = 0
    /\ improvement = [from |-> None, until |-> None]
    /\ at = [a \in Analyses |-> "rest"]
    /\ guided = {} /\ observed = {} /\ predictions = {} /\ corrections = {} /\ usages = {}
    /\ failures = 0 /\ begun = 0

Failure == failures < MaxFailures /\ failures' = failures + 1

Tick ==
    /\ clock < MaxClock
    /\ clock' = clock + 1
    /\ UNCHANGED <<improvement, at, guided, evidence, failures, begun>>

-----------------------------------------------------------------------------
(* The improvement, approved and later taken back                           *)

Live == improvement.from # None /\ improvement.until = None

GoLive ==
    /\ improvement.from = None
    /\ improvement' = [improvement EXCEPT !.from = clock]
    /\ UNCHANGED <<clock, at, guided, evidence, failures, begun>>

Deactivate ==
    /\ Live
    /\ improvement' = [improvement EXCEPT !.until = clock]
    /\ UNCHANGED <<clock, at, guided, evidence, failures, begun>>

-----------------------------------------------------------------------------
(* An analysis                                                              *)

(* get_context_for_component(): no learning data never stops an analysis.   *)
ReadGuidance(a) ==
    /\ at[a] = "rest" /\ begun < MaxAnalyses
    /\ begun' = begun + 1
    /\ at' = [at EXCEPT ![a] = "asking"]
    /\ \/ guided' = (IF Live THEN guided \cup {a} ELSE guided) /\ UNCHANGED failures
       \/ Live /\ Failure /\ UNCHANGED guided
    /\ UNCHANGED <<clock, improvement, evidence>>

(* The model gives the output, or another: what it was given is recorded,   *)
(* once for a call, and then whether the output is new to the call is seen. *)
RecordUsage(a) ==
    /\ at[a] = "asking"
    /\ guided' = guided \ {a}
    /\ \/ usages' = (IF a \in guided THEN usages \cup {a[1]} ELSE usages) /\ UNCHANGED failures
       \/ a \in guided /\ Failure /\ UNCHANGED usages
    /\ \E given \in BOOLEAN :
          at' = [at EXCEPT ![a] = IF given /\ a[1] \notin observed THEN "recording" ELSE "rest"]
    /\ UNCHANGED <<clock, improvement, observed, predictions, corrections, begun>>

(* _record_outcome(): the observation, then its evidence                    *)
RecordOutcome(a) ==
    /\ at[a] = "recording"
    /\ observed' = observed \cup {a[1]}
    /\ \/ predictions' = predictions \cup {At(a[1])} /\ UNCHANGED failures
       \/ Failure /\ UNCHANGED predictions
    /\ at' = [at EXCEPT ![a] = "rest"]
    /\ UNCHANGED <<clock, improvement, guided, corrections, usages, begun>>

(* A reviewer corrects the output, once for a call.                         *)
Correct(c) ==
    /\ c \in observed /\ \A e \in corrections : e.call # c
    /\ corrections' = corrections \cup {At(c)}
    /\ UNCHANGED <<clock, improvement, at, guided, observed, predictions, usages, failures,
                   begun>>

-----------------------------------------------------------------------------
(* measure_effect()                                                         *)

Outputs == {e.call : e \in predictions \cup corrections}
Corrected == {e.call : e \in corrections}

TimesOf(c, records) == {e.at : e \in {x \in records : x.call = c}}

\* Mutant: an output belongs to the time it was reviewed.
GivenWhenReviewed(c) ==
    IF c \in Corrected THEN Min(TimesOf(c, corrections)) ELSE Min(TimesOf(c, predictions))

\* Mutant: of two records the later counts.
GivenLast(c) ==
    IF TimesOf(c, predictions) # {} THEN Max(TimesOf(c, predictions))
    ELSE Min(TimesOf(c, corrections))

(* When the AI first gave the output, or when it was corrected where that   *)
(* is all there is                                                          *)
GivenAt(c) ==
    IF TimesOf(c, predictions) # {} THEN Min(TimesOf(c, predictions))
    ELSE Min(TimesOf(c, corrections))

Before == {c \in Outputs : GivenAt(c) < improvement.from}
Since  == {c \in Outputs : /\ GivenAt(c) >= improvement.from
                           /\ improvement.until = None \/ GivenAt(c) < improvement.until}

(* The change of the corrected share, over the product of both totals       *)
Change ==
    Cardinality(Since \cap Corrected) * Cardinality(Before)
        - Cardinality(Before \cap Corrected) * Cardinality(Since)

LeastChange == MinTenths * Cardinality(Before) * Cardinality(Since)

Effect ==
    IF Before = {} \/ Cardinality(Since) < MinOutputsAfter THEN "not_enough_data"
    ELSE IF 10 * Change <= -LeastChange THEN "better"
    ELSE IF 10 * Change >= LeastChange THEN "worse" ELSE "no_change"

(* evaluate(): the feedback on the calls it was used on                     *)
Feedback == {e \in corrections : e.call \in usages}
Evaluated == Cardinality(Feedback) >= MinEvidence

-----------------------------------------------------------------------------
Next ==
    \/ Tick \/ GoLive \/ Deactivate
    \/ \E a \in Analyses : ReadGuidance(a) \/ RecordUsage(a) \/ RecordOutcome(a)
    \/ \E c \in Calls : Correct(c)

Spec == Init /\ [][Next]_effectVars

-----------------------------------------------------------------------------
TypeOK ==
    /\ clock \in 0 .. MaxClock
    /\ at \in [Analyses -> {"rest", "asking", "recording"}]
    /\ guided \subseteq Analyses
    /\ \A e \in predictions \cup corrections : e.call \in observed
    /\ Evaluated => improvement.from # None

(* What is counted before the improvement stays so, whenever the output is  *)
(* reviewed and however often it is recorded again, and what was counted    *)
(* since is never lost: a late correction of an earlier output never makes  *)
(* the improvement look worse, nor that of a later one better ("a           *)
(* correction belongs to the time the AI gave the output, not the (later)   *)
(* time it was reviewed"). Stated while the evidence is stored.             *)
EffectIsFair ==
    [][improvement.from # None /\ failures' = 0 =>
         /\ Before' = Before
         /\ improvement' = improvement => Since \subseteq Since'
         /\ \A c \in Corrected' \ Corrected :
               /\ c \in Before => (Effect' = "worse" => Effect = "worse")
               /\ c \in Since => (Effect' = "better" => Effect = "better")]_effectVars
=============================================================================
