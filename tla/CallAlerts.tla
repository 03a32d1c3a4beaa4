------------------------------- MODULE CallAlerts -------------------------------
(***************************************************************************)
(* The alerts of one call in progress: refreshed by each of its analyses,   *)
(* and by a sweep over all calls in progress, which one instance makes per  *)
(* interval (call_alerts.py, LiveAlertSweeper of live_calls.py).  Both read *)
(* what is true and what stands, and then write the alerts that differ.     *)
(***************************************************************************)
EXTENDS Naturals, FiniteSets, Sequences

CONSTANTS
    Categories,     \* complaint categories
    Severe,         \* those that always alert
    Unsure,         \* those detected with a confidence below low_confidence_below
    Sweepers,       \* the sweep of each instance
    Remembered,     \* AUDIO_CHUNKS_REMEMBERED
    Unrecognised,   \* unrecognised_chunks
    None

AlertsAssumption ==
    /\ Severe \subseteq Categories /\ Unsure \subseteq Categories
    /\ Remembered \in Nat /\ Unrecognised \in 1..Remembered

VARIABLES
    over,       \* the call has ended
    coverage,   \* of each category: its status
    waited,     \* categories detected uncovered_after_seconds ago
    chunks,     \* which of the latest chunks of audio were recognised
    unclear,    \* the latest lines were transcribed with low confidence
    standing,   \* the alerts that stand, in the database
    locked,     \* the sweep's lock is taken
    at,         \* the step each writer is at
    conditions, \* what it found true
    listed,     \* what it found standing
    covered     \* the coverage a sweep has read

world == <<over, coverage, waited, chunks, unclear>>
vars == <<world, standing, locked, at, conditions, listed, covered>>

Writers == {"analysis"} \cup Sweepers

Uncovered(c) == <<"uncovered_category", c>>
HighSeverity(c) == <<"high_severity_category", c>>
LowConfidence(c) == <<"low_confidence", c>>
UnrecognisedAudio == <<"poor_audio", "">>
UnclearAudio == <<"poor_audio", "transcription confidence">>
Keys == {Uncovered(c) : c \in Categories} \cup {HighSeverity(c) : c \in Severe}
          \cup {LowConfidence(c) : c \in Unsure} \cup {UnrecognisedAudio, UnclearAudio}

Init ==
    /\ over = FALSE
    /\ coverage = [c \in Categories |-> "none"]
    /\ waited = {}
    /\ chunks = <<>>
    /\ unclear = FALSE
    /\ standing = {}
    /\ locked = FALSE
    /\ at = [w \in Writers |-> "rest"]
    /\ conditions = [w \in Writers |-> {}]
    /\ listed = [w \in Writers |-> {}]
    /\ covered = [w \in Sweepers |-> None]

Move(w, stage) == at' = [at EXCEPT ![w] = stage]

-----------------------------------------------------------------------------
(* _complaint_conditions, and the two kinds of poor audio                   *)
ComplaintConditions(cov) ==
    UNION {(IF cov[c] = "detected" /\ c \in waited THEN {Uncovered(c)} ELSE {})
             \cup (IF c \in Severe THEN {HighSeverity(c)} ELSE {})
             \cup (IF c \in Unsure THEN {LowConfidence(c)} ELSE {})
           : c \in {k \in Categories : cov[k] # "none"}}

PoorChunks == Len(SelectSeq(chunks, LAMBDA recognised : ~recognised)) >= Unrecognised
UnrecognisedNow == IF PoorChunks THEN {UnrecognisedAudio} ELSE {}
PoorAudio == IF PoorChunks THEN {UnrecognisedAudio}
             ELSE IF unclear THEN {UnclearAudio} ELSE {}

\* Mutant: one chunk too many is remembered.
NoteAudioOver(recognised) ==
    /\ ~over
    /\ LET all == Append(chunks, recognised)
       IN  chunks' = IF Len(all) > Remembered + 1 THEN Tail(all) ELSE all
    /\ UNCHANGED <<over, coverage, waited, unclear, standing, locked, at, conditions, listed, covered>>

(* note_audio                                                               *)
NoteAudio(recognised) ==
    /\ ~over
    /\ LET all == Append(chunks, recognised)
       IN  chunks' = IF Len(all) > Remembered THEN Tail(all) ELSE all
    /\ UNCHANGED <<over, coverage, waited, unclear, standing, locked, at, conditions, listed, covered>>

TimePasses(c) ==
    /\ coverage[c] # "none"
    /\ waited' = waited \cup {c}
    /\ UNCHANGED <<over, coverage, chunks, unclear, standing, locked, at, conditions, listed, covered>>

End ==
    /\ ~over
    /\ over' = TRUE
    /\ UNCHANGED <<coverage, waited, chunks, unclear, standing, locked, at, conditions, listed, covered>>

-----------------------------------------------------------------------------
(* An analysis of new lines saves what it found in them.                    *)
Analyse(c, status, low) ==
    /\ at["analysis"] = "rest"
    /\ ~over
    /\ coverage[c] = "probed" => status = "probed"
    /\ coverage' = [coverage EXCEPT ![c] = status]
    /\ unclear' = low
    /\ Move("analysis", "refresh")
    /\ UNCHANGED <<over, waited, chunks, standing, locked, conditions, listed, covered>>

(* refresh                                                                  *)
Refresh ==
    /\ at["analysis"] = "refresh"
    /\ conditions' = [conditions EXCEPT !["analysis"] = ComplaintConditions(coverage) \cup PoorAudio]
    /\ listed' = [listed EXCEPT !["analysis"] = standing]
    /\ Move("analysis", "settle")
    /\ UNCHANGED <<world, standing, locked, covered>>

(* LiveAlertSweeper.run: the lock is left to run out with the interval.     *)
StartSweep(w) ==
    /\ at[w] = "rest"
    /\ ~locked
    /\ locked' = TRUE
    /\ ~over
    /\ covered' = [covered EXCEPT ![w] = coverage]
    /\ Move(w, "list")
    /\ UNCHANGED <<world, standing, conditions, listed>>

LockExpires ==
    /\ locked
    /\ locked' = FALSE
    /\ UNCHANGED <<world, standing, at, conditions, listed, covered>>

\* Mutant: what the passing of time makes true is left to the analyses.
SweepAudio(w) ==
    /\ at[w] = "list"
    /\ conditions' = [conditions EXCEPT ![w] =
         {k \in ComplaintConditions(covered[w]) : k \in standing} \cup UnrecognisedNow]
    /\ listed' = [listed EXCEPT ![w] = standing]
    /\ covered' = [covered EXCEPT ![w] = None]
    /\ Move(w, "settle")
    /\ UNCHANGED <<world, standing, locked>>

(* sweep: the alerts and the audio are read after the coverage.             *)
Sweep(w) ==
    /\ at[w] = "list"
    /\ conditions' = [conditions EXCEPT ![w] = ComplaintConditions(covered[w]) \cup UnrecognisedNow]
    /\ listed' = [listed EXCEPT ![w] = standing]
    /\ covered' = [covered EXCEPT ![w] = None]
    /\ Move(w, "settle")
    /\ UNCHANGED <<world, standing, locked>>

(* _settle, alert by alert, what is true first; a sweep leaves what only    *)
(* the transcript tells.                                                    *)
Leave(w) == IF w = "analysis" THEN {} ELSE {UnclearAudio}
ToRaise(w) == conditions[w] \ listed[w]
ToClear(w) == (listed[w] \ conditions[w]) \ Leave(w)

Raise(w) ==
    /\ at[w] = "settle"
    /\ ToRaise(w) # {}
    /\ LET k == CHOOSE k \in ToRaise(w) : TRUE IN
         /\ standing' = standing \cup {k}
         /\ listed' = [listed EXCEPT ![w] = @ \cup {k}]
    /\ UNCHANGED <<world, locked, at, conditions, covered>>

Clear(w) ==
    /\ at[w] = "settle"
    /\ ToRaise(w) = {}
    /\ ToClear(w) # {}
    /\ LET k == CHOOSE k \in ToClear(w) : TRUE IN
         /\ standing' = standing \ {k}
         /\ listed' = [listed EXCEPT ![w] = @ \ {k}]
    /\ UNCHANGED <<world, locked, at, conditions, covered>>

Settled(w) ==
    /\ at[w] = "settle"
    /\ ToRaise(w) \cup ToClear(w) = {}
    /\ Move(w, "rest")
    /\ conditions' = [conditions EXCEPT ![w] = {}]
    /\ listed' = [listed EXCEPT ![w] = {}]
    /\ UNCHANGED <<world, standing, locked, covered>>

Write(w) == Raise(w) \/ Clear(w) \/ Settled(w)

Next ==
    \/ \E recognised \in BOOLEAN : NoteAudio(recognised)
    \/ \E c \in Categories : TimePasses(c)
    \/ End
    \/ \E c \in Categories, status \in {"detected", "probed"}, low \in BOOLEAN :
         Analyse(c, status, low)
    \/ Refresh
    \/ LockExpires
    \/ \E w \in Sweepers : StartSweep(w) \/ Sweep(w)
    \/ \E w \in Writers : Write(w)

Spec == Init /\ [][Next]_vars

(* The job sweeps in every interval.                                        *)
Fairness ==
    /\ WF_vars(LockExpires)
    /\ WF_vars(\E w \in Sweepers : StartSweep(w))
    /\ \A w \in Sweepers : WF_vars(Sweep(w) \/ Write(w))
    /\ WF_vars(Refresh \/ Write("analysis"))

FairSpec == Spec /\ Fairness

-----------------------------------------------------------------------------
TypeOK ==
    /\ {over, unclear, locked} \subseteq BOOLEAN
    /\ coverage \in [Categories -> {"none", "detected", "probed"}]
    /\ waited \subseteq Categories
    /\ chunks \in Seq(BOOLEAN) /\ Len(chunks) <= Remembered
    /\ standing \subseteq Keys
    /\ at \in [Writers -> {"rest", "refresh", "list", "settle"}]
    /\ conditions \in [Writers -> SUBSET Keys]
    /\ listed \in [Writers -> SUBSET Keys]

(* Whatever is true of a call in progress, by the passing of time too, is   *)
(* raised, and what is no longer true is cleared, although sweeps and       *)
(* analyses write from what they read before one another.  The alert judged *)
(* from the transcript is the analyses' own.                                *)
True == ComplaintConditions(coverage) \cup UnrecognisedNow
AlertsFollow ==
    \A k \in Keys \ {UnclearAudio} :
        /\ k \in True ~> k \in standing \/ k \notin True \/ over
        /\ k \in standing ~> k \notin standing \/ k \in True \/ over
=============================================================================
