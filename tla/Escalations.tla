------------------------------ MODULE Escalations ------------------------------
(***************************************************************************)
(* The escalation of one call: the phrase rules as each line is stored, the *)
(* full assessment with each analysis and after the call, and supervisors   *)
(* who acknowledge and resolve it (escalation_service.py,                   *)
(* domain/escalation.py, ai/escalation).  The record is read and written    *)
(* back as a whole under a lock of the process.                             *)
(***************************************************************************)
EXTENDS Naturals, FiniteSets, FiniteSetsExt

CONSTANTS
    Assessors,      \* "final" and whatever else assesses the call
    Supervisors,
    Instances,      \* API instances
    On,             \* the instance each of them runs on
    None

EscalationsAssumption ==
    /\ "final" \in Assessors
    /\ On \in [Assessors \cup Supervisors -> Instances]

VARIABLES
    over,       \* the call has ended
    said,       \* the phrases the customer has used
    tone,       \* how the call goes: the tone, and how many complaints are open
    escalation, \* the record, or None
    lock,       \* of each instance: who holds EscalationService._lock
    at,         \* the step each client is at
    seen,       \* of each assessor: what it assessed
    copy        \* of each client: the record it read

vars == <<over, said, tone, escalation, lock, at, seen, copy>>

Clients == Assessors \cup Supervisors

(* EscalationLevel by its rank, 0 for NONE.  A phrase has its level; a bad  *)
(* tone or several open complaints are worth a watch, and are not serious.  *)
Levels == 0..3
Phrases == {"manager_request", "legal_threat"}
Types == Phrases \cup {"negative_tone"}
PhraseLevel == [manager_request |-> 2, legal_threat |-> 3]

(* Signals: the level of each type, 0 where there is none.                  *)
Signals == [Types -> Levels]
Highest(signals) == Max({signals[t] : t \in Types})
Raised(signals) == {t \in Types : signals[t] > 0}

\* Mutant: a step above the highest level.
CombinedUnbounded(signals) ==
    IF Cardinality(Raised(signals)) < 2 \/ Raised(signals) \cap Phrases = {}
    THEN Highest(signals)
    ELSE Highest(signals) + 1

(* combined_level, by _ONE_STEP_UP                                          *)
CombinedLevel(signals) ==
    IF Cardinality(Raised(signals)) < 2 \/ Raised(signals) \cap Phrases = {}
    THEN Highest(signals)
    ELSE Min({3, Highest(signals) + 1})

(* merge_signals: one of each type, the higher.                             *)
Merge(one, other) == [t \in Types |-> Max({one[t], other[t]})]

FromRules(phrases, bad) ==
    [t \in Types |-> IF t \in phrases THEN PhraseLevel[t]
                     ELSE IF t = "negative_tone" /\ bad THEN 1 ELSE 0]

(* HybridEscalationProvider: the model adds to what the rules found.        *)
Assessment(rules, llm) ==
    [level |-> Max({CombinedLevel(rules), CombinedLevel(llm), CombinedLevel(Merge(rules, llm))}),
     signals |-> Merge(rules, llm)]

NoSignals == [t \in Types |-> 0]
Nothing == Assessment(NoSignals, NoSignals)

(* What the model may report: nothing, or one kind of phrase.               *)
Findings == {f \in Signals : \E t \in Phrases : f[t] < 3 /\ \A u \in Types \ {t} : f[u] = 0}

Init ==
    /\ over = FALSE
    /\ said = {}
    /\ tone = FALSE
    /\ escalation = None
    /\ lock = [i \in Instances |-> None]
    /\ at = [c \in Clients |-> "rest"]
    /\ seen = [a \in Assessors |-> Nothing]
    /\ copy = [c \in Clients |-> None]

Move(c, stage) == at' = [at EXCEPT ![c] = stage]
Rest(a) == Move(a, "rest") /\ seen' = [seen EXCEPT ![a] = Nothing]
Unlock(c) == lock' = [lock EXCEPT ![On[c]] = None] /\ copy' = [copy EXCEPT ![c] = None]

-----------------------------------------------------------------------------
Say(phrase) ==
    /\ ~over
    /\ said' = said \cup {phrase}
    /\ UNCHANGED <<over, tone, escalation, lock, at, seen, copy>>

ToneChanges ==
    /\ ~over
    /\ tone' = ~tone
    /\ UNCHANGED <<over, said, escalation, lock, at, seen, copy>>

End ==
    /\ ~over
    /\ over' = TRUE
    /\ UNCHANGED <<said, tone, escalation, lock, at, seen, copy>>

(* assess_what_was_said(): the phrase rules alone.                          *)
Glance(a) ==
    /\ at[a] = "rest"
    /\ a # "final"
    /\ seen' = [seen EXCEPT ![a] = Assessment(FromRules(said, FALSE), NoSignals)]
    /\ Move(a, "assessed")
    /\ UNCHANGED <<over, said, tone, escalation, lock, copy>>

(* assess(): the rules, and the model, which may fail or see more in what   *)
(* was said than the rules do.                                              *)
Assess(a) ==
    /\ at[a] = "rest"
    /\ a = "final" => over
    /\ \E llm \in Findings :
         seen' = [seen EXCEPT ![a] = Assessment(FromRules(said, tone), llm)]
    /\ Move(a, "assessed")
    /\ UNCHANGED <<over, said, tone, escalation, lock, copy>>

\* Mutant: the level follows the latest assessment.
RaisedToLatest(r, assessment) ==
    [r EXCEPT !.level = assessment.level, !.signals = Merge(r.signals, assessment.signals)]

(* raise_with                                                               *)
RaisedWith(r, assessment) ==
    LET level == Max({r.level, assessment.level})
    IN  [r EXCEPT !.level = level,
                  !.signals = Merge(r.signals, assessment.signals),
                  !.status = IF @ = "resolved" /\ level > r.level THEN "open" ELSE @]

(* _fold: the record is read under the lock; nothing new to say changes     *)
(* nothing.                                                                 *)
Folded(r, assessment) ==
    IF assessment.level = 0 THEN r
    ELSE IF r = None
         THEN [level |-> assessment.level, signals |-> assessment.signals,
               status |-> "open", acknowledged |-> FALSE]
         ELSE RaisedWith(r, assessment)

Load(a) ==
    /\ at[a] = "assessed"
    /\ lock[On[a]] = None
    /\ IF Folded(escalation, seen[a]) = escalation
       THEN Rest(a) /\ UNCHANGED <<lock, copy>>
       ELSE /\ lock' = [lock EXCEPT ![On[a]] = a]
            /\ copy' = [copy EXCEPT ![a] = escalation]
            /\ Move(a, "folding")
            /\ UNCHANGED seen
    /\ UNCHANGED <<over, said, tone, escalation>>

Save(a) ==
    /\ at[a] = "folding"
    /\ escalation' = Folded(copy[a], seen[a])
    /\ Unlock(a)
    /\ Rest(a)
    /\ UNCHANGED <<over, said, tone>>

SaveFails(a) ==
    /\ at[a] = "folding"
    /\ Unlock(a)
    /\ Rest(a)
    /\ UNCHANGED <<over, said, tone, escalation>>

-----------------------------------------------------------------------------
(* acknowledge and resolve, by a supervisor                                 *)
Take(s) ==
    /\ at[s] = "rest"
    /\ lock[On[s]] = None
    /\ escalation # None
    /\ escalation.status # "resolved"
    /\ lock' = [lock EXCEPT ![On[s]] = s]
    /\ copy' = [copy EXCEPT ![s] = escalation]
    /\ Move(s, "working")
    /\ UNCHANGED <<over, said, tone, escalation, seen>>

Acknowledge(s) ==
    /\ at[s] = "working"
    /\ copy[s].status = "open"
    /\ escalation' = [copy[s] EXCEPT !.status = "acknowledged", !.acknowledged = TRUE]
    /\ Unlock(s)
    /\ Move(s, "rest")
    /\ UNCHANGED <<over, said, tone, seen>>

Resolve(s) ==
    /\ at[s] = "working"
    /\ escalation' = [copy[s] EXCEPT !.status = "resolved"]
    /\ Unlock(s)
    /\ Move(s, "rest")
    /\ UNCHANGED <<over, said, tone, seen>>

Next ==
    \/ \E phrase \in Phrases : Say(phrase)
    \/ ToneChanges
    \/ End
    \/ \E a \in Assessors : Glance(a) \/ Assess(a) \/ Load(a) \/ Save(a) \/ SaveFails(a)
    \/ \E s \in Supervisors : Take(s) \/ Acknowledge(s) \/ Resolve(s)

Spec == Init /\ [][Next]_vars

-----------------------------------------------------------------------------
Records == [level : Levels \ {0}, signals : Signals, acknowledged : BOOLEAN,
            status : {"open", "acknowledged", "resolved"}]

TypeOK ==
    /\ {over, tone} \subseteq BOOLEAN
    /\ said \subseteq Phrases
    /\ escalation \in Records \cup {None}
    /\ lock \in [Instances -> Clients \cup {None}]
    /\ at \in [Clients -> {"rest", "assessed", "folding", "working"}]
    /\ seen \in [Assessors -> [level : Levels, signals : Signals]]
    /\ copy \in [Clients -> Records \cup {None}]

(* "The level of a call's escalation only ever rises ..., so a call cannot  *)
(* quietly drop out of the supervisors' queue": nor does a signal weaken or *)
(* an acknowledgement get lost, whoever writes last; and what a supervisor  *)
(* resolved returns to the queue exactly when the level rises above it.     *)
EscalationOnlyRises ==
    [][escalation # None =>
         /\ escalation' # None
         /\ escalation'.level >= escalation.level
         /\ \A t \in Types : escalation'.signals[t] >= escalation.signals[t]
         /\ escalation.acknowledged => escalation'.acknowledged
         /\ escalation.status = "resolved" =>
              (escalation'.status = "open") = (escalation'.level > escalation.level)]_vars
=============================================================================
