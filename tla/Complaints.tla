------------------------------- MODULE Complaints -------------------------------
(***************************************************************************)
(* The complaints of one call: what its analyses find (the coverage) and   *)
(* the record kept of each complaint beyond the call, by the live analysis,*)
(* analyses of lines entered by hand, the final analysis with its          *)
(* close-out, people who settle complaints, and views that link the        *)
(* customer (call_workflow_service.py, post_call_processor.py,             *)
(* complaint_analysis_service.py, complaint_lifecycle_service.py).         *)
(*                                                                         *)
(* The records are changed under a lock of the process; the coverage is    *)
(* read, taken to the language model and saved as a whole, under none.     *)
(***************************************************************************)
EXTENDS Naturals, FiniteSets, Sequences, SequencesExt

CONSTANTS
    Categories,     \* complaint categories
    Hands,          \* requests that enter lines by hand
    People,         \* people who settle complaints
    Viewers,        \* requests that show the call's complaints
    Instances,      \* API instances
    On,             \* the instance each of them and each analysis runs on
    None

Analyses == {"live", "final"} \cup Hands
Clients == Analyses \cup People \cup Viewers

ComplaintsAssumption ==
    /\ On \in [Clients -> Instances]
    /\ People \cap (Analyses \cup Viewers) = {}
    /\ Viewers \cap Analyses = {}

VARIABLES
    ended,      \* the call is completed
    coverage,   \* complaint_coverages: the status of each category
    records,    \* complaint_lifecycle_records: the record of each, or None
    told,       \* the status in the latest event of each, or None
    lock,       \* of each instance: who holds ComplaintLifecycleService._lock
    at,         \* the step each client is at
    found,      \* of each analysis: the coverage it read, or found
    todo,       \* categories a client has yet to bring up to date
    copy,       \* the records it has read
    missed      \* an analysis saved its coverage after the end or took back what
                \* another had found, or a step of the final one failed

stored == <<records, told>>
vars == <<ended, coverage, records, told, lock, at, found, todo, copy, missed>>

(* ComplaintCoverageStatus, as far as any code sets it, and the            *)
(* lifecycle's.                                                            *)
CoverageStatuses == {"none", "detected", "probed"}
Statuses == {"detected", "probed", "covered", "resolved", "unresolved", "follow_up"}
Manual == {"resolved", "unresolved"}
InCallOrder == <<"detected", "probed", "covered">>

AllowedNext == [detected |-> {"probed", "resolved", "unresolved"},
                probed |-> {"covered", "resolved", "unresolved"},
                covered |-> {"resolved", "unresolved"},
                resolved |-> {"follow_up"},
                unresolved |-> {"follow_up", "resolved"},
                follow_up |-> {"resolved"}]

Open(r) == r.status # "resolved"
Raised(c) == {k \in Categories : c[k] # "none"}

Init ==
    /\ ended = FALSE
    /\ coverage = [c \in Categories |-> "none"]
    /\ records = [c \in Categories |-> None]
    /\ told = [c \in Categories |-> None]
    /\ lock = [i \in Instances |-> None]
    /\ at = [w \in Clients |-> "rest"]
    /\ found = [w \in Analyses |-> [c \in Categories |-> "none"]]
    /\ todo = [w \in Clients |-> {}]
    /\ copy = [w \in Clients |-> [c \in Categories |-> None]]
    /\ missed = FALSE

Move(w, stage) == at' = [at EXCEPT ![w] = stage]
Lock(w) == lock[On[w]] = None /\ lock' = [lock EXCEPT ![On[w]] = w]
Unlock(w) == lock' = [lock EXCEPT ![On[w]] = None]
Forget(w) == copy' = [copy EXCEPT ![w] = [c \in Categories |-> None]]
Clear(w) == Forget(w) /\ found' = [found EXCEPT ![w] = [c \in Categories |-> "none"]]

(* repository.save, and _record_event.                                      *)
Write(c, r, event) ==
    /\ records' = [records EXCEPT ![c] = r]
    /\ told' = IF event THEN [told EXCEPT ![c] = r.status] ELSE told

-----------------------------------------------------------------------------
(* An analysis                                                              *)

End ==
    /\ ~ended
    /\ ended' = TRUE
    /\ UNCHANGED <<coverage, stored, lock, at, found, todo, copy, missed>>

(* A live analysis and a line by hand need an active call, the final one a  *)
(* completed call; each reads the coverage.                                 *)
Begin(w) ==
    /\ at[w] = "rest"
    /\ ended = (w = "final")
    /\ found' = [found EXCEPT ![w] = coverage]
    /\ Move(w, "asking")
    /\ UNCHANGED <<ended, coverage, stored, lock, todo, copy, missed>>

(* apply(): a category is detected once, and probed once it is detected.    *)
Applied(c, detected, probed) ==
    [k \in Categories |-> IF k \notin detected THEN c[k]
                          ELSE IF k \in probed THEN "probed"
                          ELSE IF c[k] = "none" THEN "detected" ELSE c[k]]

Answer(w) ==
    /\ at[w] = "asking"
    /\ \E detected \in SUBSET Categories : \E probed \in SUBSET detected :
         found' = [found EXCEPT ![w] = Applied(found[w], detected, probed)]
    /\ Move(w, IF w = "live" THEN "checking" ELSE "saving")
    /\ UNCHANGED <<ended, coverage, stored, lock, todo, copy, missed>>

(* The model fails or is rate limited; the final analysis is tried again.   *)
NoAnswer(w) ==
    /\ at[w] = "asking"
    /\ Move(w, "rest")
    /\ Clear(w)
    /\ UNCHANGED <<ended, coverage, stored, lock, todo, missed>>

(* still_active(), of the live analysis only.                               *)
Check ==
    /\ at["live"] = "checking"
    /\ IF ended THEN Move("live", "rest") /\ Clear("live")
       ELSE Move("live", "saving") /\ UNCHANGED <<found, copy>>
    /\ UNCHANGED <<ended, coverage, stored, lock, todo, missed>>

SaveCoverage(w) ==
    /\ at[w] = "saving"
    /\ coverage' = found[w]
    /\ missed' = \/ missed
                 \/ ended /\ w # "final"
                 \/ ~(Raised(coverage) \subseteq Raised(found[w]))
    /\ Move(w, "tracking")
    /\ UNCHANGED <<ended, stored, lock, found, todo, copy>>

-----------------------------------------------------------------------------
(* sync_from_coverage, for one complaint after the other                    *)

\* Mutant: also a complaint a person has settled is brought up to the call.
StepsAnyhow(current, target) ==
    IF current = target THEN <<>> ELSE <<target>>

(* _steps_to                                                                *)
StepsTo(current, target) ==
    IF current = target \/ current \notin Range(InCallOrder) THEN <<>>
    ELSE LET path == IF target \in Manual THEN Append(InCallOrder, target) ELSE InCallOrder
             place(s) == CHOOSE i \in DOMAIN path : path[i] = s
         IN  SubSeq(path, place(current) + 1, place(target))

Current(w) == CHOOSE c \in todo[w] : TRUE

Track(w) ==
    /\ at[w] = "tracking"
    /\ Lock(w)
    /\ todo' = [todo EXCEPT ![w] = Raised(found[w])]
    /\ Move(w, "reading")
    /\ UNCHANGED <<ended, coverage, stored, found, copy, missed>>

Read(w) ==
    /\ at[w] = "reading"
    /\ todo[w] # {}
    /\ LET c == Current(w) IN
         /\ copy' = [copy EXCEPT ![w][c] = records[c]]
         /\ IF records[c] = None \/ StepsTo(records[c].status, found[w][c]) # <<>>
            THEN Move(w, "writing") /\ UNCHANGED todo
            ELSE todo' = [todo EXCEPT ![w] = @ \ {c}] /\ UNCHANGED at
    /\ UNCHANGED <<ended, coverage, stored, lock, found, missed>>

(* create(), or transition() by one step from the copy read.                *)
SyncWrite(w) ==
    /\ at[w] = "writing"
    /\ LET c == Current(w)
           r == copy[w][c]
       IN  Write(c, IF r = None
                    THEN [status |-> found[w][c], flagged |-> FALSE, linked |-> FALSE]
                    ELSE [r EXCEPT !.status = Head(StepsTo(r.status, found[w][c]))], TRUE)
    /\ Move(w, "reading")
    /\ UNCHANGED <<ended, coverage, lock, found, todo, copy, missed>>

AfterSync(w) == IF w = "final" THEN "closing" ELSE "rest"

Synced(w) ==
    /\ at[w] = "reading"
    /\ todo[w] = {}
    /\ Unlock(w)
    /\ Clear(w)
    /\ Move(w, AfterSync(w))
    /\ UNCHANGED <<ended, coverage, stored, todo, missed>>

(* The tracking is best effort: it may fail at any of its steps.            *)
TrackingFails(w) ==
    /\ at[w] \in {"reading", "writing"}
    /\ Unlock(w)
    /\ Clear(w)
    /\ todo' = [todo EXCEPT ![w] = {}]
    /\ Move(w, AfterSync(w))
    /\ missed' = (missed \/ w = "final")
    /\ UNCHANGED <<ended, coverage, stored>>

-----------------------------------------------------------------------------
(* close_call, and attach_customer by a view of the complaints: all records *)
(* are listed and those that need it written back, changed.                 *)

Changed(w, r) ==
    [r EXCEPT !.linked = TRUE, !.flagged = r.flagged \/ (w = "final" /\ Open(r))]

\* Mutant: complaints a person has looked at need no follow-up.
ListDetected(w) ==
    /\ at[w] = IF w = "final" THEN "closing" ELSE "rest"
    /\ Lock(w)
    /\ copy' = [copy EXCEPT ![w] = records]
    /\ todo' = [todo EXCEPT ![w] =
         {c \in Categories : records[c] # None /\ records[c].status \notin Manual
                             /\ Changed(w, records[c]) # records[c]}]
    /\ Move(w, "amending")
    /\ UNCHANGED <<ended, coverage, stored, found, missed>>

List(w) ==
    /\ at[w] = IF w = "final" THEN "closing" ELSE "rest"
    /\ Lock(w)
    /\ copy' = [copy EXCEPT ![w] = records]
    /\ todo' = [todo EXCEPT ![w] =
         {c \in Categories : records[c] # None /\ Changed(w, records[c]) # records[c]}]
    /\ Move(w, "amending")
    /\ UNCHANGED <<ended, coverage, stored, found, missed>>

Amend(w) ==
    /\ at[w] = "amending"
    /\ todo[w] # {}
    /\ LET c == Current(w)
           r == copy[w][c]
       IN  /\ Write(c, Changed(w, r), Changed(w, r).flagged # r.flagged)
           /\ todo' = [todo EXCEPT ![w] = @ \ {c}]
    /\ UNCHANGED <<ended, coverage, lock, at, found, copy, missed>>

Amended(w) ==
    /\ at[w] = "amending"
    /\ todo[w] = {}
    /\ Unlock(w)
    /\ Forget(w)
    /\ Move(w, IF w = "final" THEN "closed" ELSE "rest")
    /\ UNCHANGED <<ended, coverage, stored, found, todo, missed>>

-----------------------------------------------------------------------------
(* apply_action: a person settles a complaint.                              *)

Choose(p, c) ==
    /\ at[p] = "rest"
    /\ Lock(p)
    /\ records[c] # None
    /\ AllowedNext[records[c].status] \cap Manual # {}
    /\ copy' = [copy EXCEPT ![p][c] = records[c]]
    /\ Move(p, "settling")
    /\ UNCHANGED <<ended, coverage, stored, found, todo, missed>>

Settle(p, c, status) ==
    /\ at[p] = "settling"
    /\ copy[p][c] # None
    /\ status \in AllowedNext[copy[p][c].status]
    /\ Write(c, [copy[p][c] EXCEPT !.status = status,
                                   !.flagged = @ /\ status # "resolved"], TRUE)
    /\ Unlock(p)
    /\ Forget(p)
    /\ Move(p, "rest")
    /\ UNCHANGED <<ended, coverage, found, todo, missed>>

-----------------------------------------------------------------------------
(* Reading the complaints of a call links them to its customer, and a      *)
(* person marks a complaint from the queue.                                *)
Attaches(w) == List(w) \/ Amend(w) \/ Amended(w)
Marks(p) ==
    \E c \in Categories : Choose(p, c) \/ \E status \in Manual : Settle(p, c, status)

Next ==
    \/ End
    \/ Check
    \/ \E w \in Analyses : \/ Begin(w) \/ Answer(w) \/ NoAnswer(w) \/ SaveCoverage(w)
                           \/ Track(w) \/ Read(w) \/ SyncWrite(w) \/ Synced(w) \/ TrackingFails(w)
    \/ \E w \in {"final"} \cup Viewers : Attaches(w)
    \/ \E p \in People : Marks(p)

Spec == Init /\ [][Next]_vars

-----------------------------------------------------------------------------
Coverages == [Categories -> CoverageStatuses]
Records == [status : Statuses, flagged : BOOLEAN, linked : BOOLEAN]
Stages == {"rest", "asking", "checking", "saving", "tracking", "reading", "writing",
           "closing", "amending", "closed", "settling"}

TypeOK ==
    /\ {ended, missed} \subseteq BOOLEAN
    /\ coverage \in Coverages
    /\ records \in [Categories -> Records \cup {None}]
    /\ told \in [Categories -> Statuses \cup {None}]
    /\ lock \in [Instances -> Clients \cup {None}]
    /\ at \in [Clients -> Stages]
    /\ found \in [Analyses -> Coverages]
    /\ todo \in [Clients -> SUBSET Categories]
    /\ copy \in [Clients -> [Categories -> Records \cup {None}]]

(* What a person has settled the call leaves alone, and its history says   *)
(* so.                                                                     *)
Settled(c) == records[c] # None /\ records[c].status \in Manual
HandledIsLeftAlone ==
    [][\A c \in Categories :
         Settled(c) => /\ records'[c].status \in {records[c].status, "resolved"}
                       /\ told'[c] = records'[c].status]_vars

(* Once the call is closed out, every complaint it left unresolved is       *)
(* flagged for follow-up, also by analyses still under way, unless one of   *)
(* them saved what it found after the call had ended, or over what another  *)
(* had found since it read.                                                 *)
OpenComplaintsAreFlagged ==
    at["final"] = "closed" /\ ~missed =>
        \A c \in Categories : records[c] # None /\ Open(records[c]) => records[c].flagged

(* The final analysis is final.                                             *)
FinalAnalysisStands ==
    [][at["final"] \in {"tracking", "reading", "writing", "closing", "amending", "closed"}
       => coverage' = coverage]_vars
=============================================================================
