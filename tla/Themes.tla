--------------------------------- MODULE Themes ---------------------------------
(***************************************************************************)
(* The discovery of emerging complaints (emerging_complaint_service.py):   *)
(* after calls complete, and when a person asks, the recent calls are read *)
(* and what they have in common is stored as a theme for a supervisor to   *)
(* accept, reject or reopen.  One theme, which the provider may or may not *)
(* find in the calls it is given; the instances of the API share the last  *)
(* run and a lock in the live state store.                                 *)
(***************************************************************************)
EXTENDS Naturals, FiniteSets

CONSTANTS
    Instances,
    Calls,
    On,             \* the instance that completes each call, and serves each person
    Hands,          \* people who run discovery now
    Supervisors,
    MinCalls,       \* MIN_CALLS_FOR_DISCOVERY
    MaxFailures,
    None

Workers == Instances    \* the one thread of each instance's executor
Runners == Workers \cup Hands
People == Runners \cup Supervisors

ThemesAssumption ==
    /\ On \in [Calls \cup Hands \cup Supervisors -> Instances]
    /\ {MinCalls, MaxFailures} \subseteq Nat

VARIABLES
    completed,  \* calls completed, with speech
    requested,  \* and whose completion has asked for a discovery
    theme,      \* the stored candidate, or None
    lastRead,   \* the calls the last run read, as all instances know it
    known,      \* and as each does
    running,    \* the instance with the lock in the live state store
    pending,    \* of each instance: _pending, a run its executor has yet to start
    runLock, lock,  \* of each instance: who holds _run_lock and _lock
    at, copy, failures

store == <<theme, lastRead, known, running>>
vars == <<completed, requested, store, pending, runLock, lock, at, copy, failures>>

Statuses == {"pending_review", "accepted", "rejected"}
HomeOf(p) == IF p \in Workers THEN p ELSE On[p]

Init ==
    /\ completed = {} /\ requested = {}
    /\ theme = None
    /\ lastRead = None
    /\ known = [i \in Instances |-> None]
    /\ running = None
    /\ pending = [i \in Instances |-> FALSE]
    /\ runLock = [i \in Instances |-> None]
    /\ lock = [i \in Instances |-> None]
    /\ at = [p \in People |-> "rest"]
    /\ copy = [p \in People |-> None]
    /\ failures = 0

Move(p, stage) == at' = [at EXCEPT ![p] = stage]
Failure == failures < MaxFailures /\ failures' = failures + 1
Free(l, p) == l[HomeOf(p)] = None
Take(l, p) == Free(l, p) /\ l' = [l EXCEPT ![HomeOf(p)] = p]
Release(l, p) == l' = [l EXCEPT ![HomeOf(p)] = None]

-----------------------------------------------------------------------------
Completes(c) ==
    /\ c \notin completed
    /\ completed' = completed \cup {c}
    /\ UNCHANGED <<requested, store, pending, runLock, lock, at, copy, failures>>

\* Mutant: a run under way is taken for the one that will read the call.
RequestOfIdle(c) ==
    /\ c \in completed \ requested
    /\ lock[On[c]] = None
    /\ requested' = requested \cup {c}
    /\ pending' = [pending EXCEPT ![On[c]] = @ \/ at[On[c]] = "rest"]
    /\ UNCHANGED <<completed, store, runLock, lock, at, copy, failures>>

(* request_discovery: a run is handed to the executor, unless one waits.    *)
Request(c) ==
    /\ c \in completed \ requested
    /\ lock[On[c]] = None
    /\ requested' = requested \cup {c}
    /\ pending' = [pending EXCEPT ![On[c]] = TRUE]
    /\ UNCHANGED <<completed, store, runLock, lock, at, copy, failures>>

(* _run_pending, once the interval has passed: requests from here on get a  *)
(* run of their own.                                                        *)
Wakes(i) ==
    /\ at[i] = "rest"
    /\ pending[i]
    /\ lock[i] = None
    /\ pending' = [pending EXCEPT ![i] = FALSE]
    /\ Move(i, "starting")
    /\ UNCHANGED <<completed, requested, store, runLock, lock, copy, failures>>

(* _discover_in_background takes the lock of all instances, does without it*)
(* where it cannot ask for it, or leaves the run to the instance that has  *)
(* it.                                                                     *)
StartInBackground(i) ==
    /\ at[i] = "starting"
    /\ \/ running = None /\ running' = i /\ Move(i, "reading") /\ UNCHANGED failures
       \/ Failure /\ Move(i, "reading") /\ UNCHANGED running
       \/ running # None /\ Move(i, "rest") /\ UNCHANGED <<running, failures>>
    /\ UNCHANGED <<completed, requested, theme, lastRead, known, pending, runLock, lock, copy>>

(* discover()                                                               *)
StartByHand(h) ==
    /\ at[h] = "rest"
    /\ Move(h, "reading")
    /\ UNCHANGED <<completed, requested, store, pending, runLock, lock, copy, failures>>

(* _discover, under _run_lock: the calls, unless the last run read just    *)
(* those; too few for the provider are remembered as read.                 *)
Read(r) ==
    /\ at[r] = "reading"
    /\ Take(runLock, r)
    /\ copy' = [copy EXCEPT ![r] = [calls |-> completed]]
    /\ \E seen \in {lastRead, known[HomeOf(r)]} :
         /\ IF seen = lastRead THEN UNCHANGED failures ELSE Failure
         /\ IF r \in Workers /\ seen = completed THEN Move(r, "ending")
            ELSE IF Cardinality(completed) < MinCalls THEN Move(r, "remembering")
            ELSE Move(r, "asking")
    /\ UNCHANGED <<completed, requested, store, pending, lock>>

(* The provider finds the theme in some of the calls, in none, or fails.    *)
Ask(r) ==
    /\ at[r] = "asking"
    /\ \/ /\ \E found \in (SUBSET copy[r].calls) \ {{}} :
               copy' = [copy EXCEPT ![r] = [calls |-> @.calls, found |-> found]]
          /\ Move(r, "storing")
          /\ UNCHANGED failures
       \/ Move(r, "remembering") /\ UNCHANGED <<copy, failures>>
       \/ Failure /\ Move(r, "ending") /\ UNCHANGED copy
    /\ UNCHANGED <<completed, requested, store, pending, runLock, lock>>

\* Mutant: the theme is read without its lock.
LookWithoutLock(r) ==
    /\ at[r] = "storing"
    /\ copy' = [copy EXCEPT ![r] = [calls |-> @.calls, found |-> @.found, existing |-> theme]]
    /\ Move(r, "saving")
    /\ UNCHANGED <<completed, requested, store, pending, runLock, lock, failures>>

(* _store, under _lock: the theme as it is stored,                          *)
Look(r) ==
    /\ at[r] = "storing"
    /\ Take(lock, r)
    /\ copy' = [copy EXCEPT ![r] = [calls |-> @.calls, found |-> @.found, existing |-> theme]]
    /\ Move(r, "saving")
    /\ UNCHANGED <<completed, requested, store, pending, runLock, failures>>

(* then with the latest evidence and the review it had; or for the first    *)
(* time.                                                                    *)
Store(r) ==
    /\ at[r] = "saving"
    /\ theme' = IF copy[r].existing = None
                THEN [calls |-> copy[r].found, status |-> "pending_review"]
                ELSE [copy[r].existing EXCEPT !.calls = copy[r].found]
    /\ Release(lock, r)
    /\ Move(r, "remembering")
    /\ UNCHANGED <<completed, requested, lastRead, known, running, pending, runLock, copy, failures>>

StoreFails(r) ==
    /\ at[r] = "saving"
    /\ Failure
    /\ Release(lock, r)
    /\ Move(r, "ending")
    /\ UNCHANGED <<completed, requested, store, pending, runLock, copy>>

(* _remember, and if the store fails only here.                             *)
Remember(r) ==
    /\ at[r] = "remembering"
    /\ known' = [known EXCEPT ![HomeOf(r)] = copy[r].calls]
    /\ \/ lastRead' = copy[r].calls /\ UNCHANGED failures
       \/ Failure /\ UNCHANGED lastRead
    /\ Move(r, "ending")
    /\ UNCHANGED <<completed, requested, theme, running, pending, runLock, lock, copy>>

(* The locks are given back; the shared one expires where that fails.       *)
EndRun(r) ==
    /\ at[r] = "ending"
    /\ Release(runLock, r)
    /\ IF running = r
       THEN (running' = None /\ UNCHANGED failures) \/ (Failure /\ UNCHANGED running)
       ELSE UNCHANGED <<running, failures>>
    /\ copy' = [copy EXCEPT ![r] = None]
    /\ Move(r, "rest")
    /\ UNCHANGED <<completed, requested, theme, lastRead, known, pending, lock>>

RunLockExpires ==
    /\ running # None
    /\ running' = None
    /\ UNCHANGED <<completed, requested, theme, lastRead, known, pending, runLock, lock,
                   at, copy, failures>>

(* review, under _lock; one to the status it has is refused.                *)
OpenReview(s, decision) ==
    /\ at[s] = "rest"
    /\ theme # None
    /\ Take(lock, s)
    /\ decision # theme.status
    /\ copy' = [copy EXCEPT ![s] = [theme EXCEPT !.status = decision]]
    /\ Move(s, "deciding")
    /\ UNCHANGED <<completed, requested, store, pending, runLock, failures>>

SaveReview(s) ==
    /\ at[s] = "deciding"
    /\ theme' = copy[s]
    /\ Release(lock, s)
    /\ copy' = [copy EXCEPT ![s] = None]
    /\ Move(s, "rest")
    /\ UNCHANGED <<completed, requested, lastRead, known, running, pending, runLock, failures>>

Run(r) == Read(r) \/ Ask(r) \/ Look(r) \/ Store(r) \/ Remember(r) \/ EndRun(r)

Next ==
    \/ \E c \in Calls : Completes(c) \/ Request(c)
    \/ \E i \in Workers : Wakes(i) \/ StartInBackground(i)
    \/ \E h \in Hands : StartByHand(h)
    \/ \E r \in Runners : Run(r) \/ StoreFails(r)
    \/ \E s \in Supervisors :
         (\E decision \in Statuses : OpenReview(s, decision)) \/ SaveReview(s)
    \/ RunLockExpires

Spec == Init /\ [][Next]_vars

(* Threads go on, and get a lock others take and give back; a completed    *)
(* call asks, its post-call processing being retried until it has          *)
(* (PostCall). Nobody need run discovery or review, and the provider need  *)
(* find nothing.                                                           *)
Fairness ==
    /\ SF_vars(\E c \in Calls : Request(c))
    /\ \A i \in Workers : SF_vars(Wakes(i) \/ StartInBackground(i) \/ Run(i))
    /\ \A h \in Hands : SF_vars(Run(h))
    /\ \A s \in Supervisors : WF_vars(SaveReview(s))

FairSpec == Spec /\ Fairness

-----------------------------------------------------------------------------
TypeOK ==
    /\ requested \subseteq completed /\ completed \subseteq Calls
    /\ theme = None \/ theme \in [calls : SUBSET Calls, status : Statuses]
    /\ lastRead = None \/ lastRead \subseteq Calls
    /\ running \in Instances \cup {None}
    /\ pending \in [Instances -> BOOLEAN]
    /\ runLock \in [Instances -> Runners \cup {None}]
    /\ lock \in [Instances -> People \cup {None}]
    /\ failures \in 0..MaxFailures

(* What a supervisor decided of a theme stands until a supervisor decides  *)
(* again: no run of discovery, which reads the theme first and saves the   *)
(* whole of it later, takes a decision back.                               *)
DecisionStands ==
    [][theme # None /\ theme'.status # theme.status
       => \E s \in Supervisors : at[s] = "deciding" /\ theme' = copy[s]]_vars

(* A burst of completed calls shares a run, and no call is left out of the *)
(* last one: while nothing fails the calls read come to be the calls       *)
(* completed.                                                              *)
LastRunReadAll == failures = 0 /\ completed # {} => lastRead = completed
CallsAreRead == <>[]LastRunReadAll
=============================================================================
