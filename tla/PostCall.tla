-------------------------------- MODULE PostCall --------------------------------
(***************************************************************************)
(* What happens to one call once it has completed: post_call_processor.py  *)
(* run by the request that ended the call, by the repair sweep of each     *)
(* instance (post_call_repair_service.py) and by a supervisor's retry, all *)
(* over the shared database and live-state store.                          *)
(*                                                                         *)
(* A summary is identified by the thread that drafted it and by where its  *)
(* sentiment came from.                                                    *)
(***************************************************************************)
EXTENDS Naturals

CONSTANTS
    Instances,
    Enders,         \* the background task of the request that ended the call
    Sweepers,       \* the repair job, one per instance
    Hands,          \* supervisors who press "retry"
    InstanceOf,     \* the instance each thread runs on
    MaxAttempts,    \* max_attempts of the repair service
    LimitTries,     \* _RATE_LIMIT_ATTEMPTS
    MaxMishaps,     \* bound: crashes, and locks lost before the attempt
    MaxRetries,     \* bound: retries by hand
    None

Threads == Enders \cup Sweepers \cup Hands

\* The least there can be: one instance ended the call, has its repair job and serves the retry.
OnOneInstance == [t \in Threads |-> CHOOSE i \in Instances : TRUE]

ASSUME PostCallAssumption ==
    /\ MaxAttempts \in Nat \ {0}
    /\ LimitTries \in Nat \ {0}
    /\ MaxMishaps \in Nat
    /\ MaxRetries \in Nat
    /\ InstanceOf \in [Threads -> Instances]

ASSUME ThreadsAreDistinct ==
    /\ Enders \cap Sweepers = {}
    /\ Enders \cap Hands = {}
    /\ Sweepers \cap Hands = {}

ASSUME NoneIsNothing ==
    /\ None \notin Threads
    /\ None \notin [by: Threads, tone: {"final", "live", "neutral"}]
    /\ None \notin [attempts: 0..MaxAttempts, since: {"never", "recent", "long"}]

VARIABLES
    (* the database *)
    spoken,         \* does the call have utterances?
    done,           \* what the final analysis has brought about
    summary,        \* the stored post-call summary
    handed,         \* history: summaries given to the customer delivery
    (* the live-state store *)
    live,           \* is there a live analysis with a sentiment?
    repair,         \* the repair bookkeeping of the call
    ripe,           \* is the call's next attempt due?
    paused,         \* do all attempts wait for the LLM's limit?
    lock,           \* who holds the sweep lock
    (* the memory of each instance *)
    remembered,     \* _live_sentiments: is the live sentiment kept here?
    waits,          \* _rate_limit_waits: was the last run stopped by a limit?
    (* each thread *)
    at,
    tries,          \* tries of the current LLM step
    draft,          \* the summary in hand
    copy,           \* the bookkeeping it loaded
    result,         \* how its run of process() ended
    (* history and bounds *)
    toned,          \* did the call have a live sentiment when it ended?
    mishaps,
    retries

database == <<spoken, done, summary, handed>>
store == <<live, repair, ripe, paused, lock>>
memory == <<remembered, waits>>
locals == <<tries, draft, copy, result>>
bounds == <<toned, mishaps, retries>>
vars == <<database, store, memory, at, locals, bounds>>

Here(t) == InstanceOf[t]
Move(t, stage) == at' = [at EXCEPT ![t] = stage]

FreshState == [attempts |-> 0, since |-> "never"]

Init ==
    /\ spoken \in BOOLEAN
    /\ done = {}
    /\ summary = None
    /\ handed = {}
    /\ live \in BOOLEAN
    /\ repair = None
    /\ ripe = FALSE
    /\ paused = FALSE
    /\ lock = None
    /\ remembered = [i \in Instances |-> FALSE]
    /\ waits = [i \in Instances |-> FALSE]
    /\ at = [t \in Threads |-> IF t \in Enders THEN "remember" ELSE "resting"]
    /\ tries = [t \in Threads |-> 0]
    /\ draft = [t \in Threads |-> None]
    /\ copy = [t \in Threads |-> None]
    /\ result = [t \in Threads |-> "none"]
    /\ toned = live
    /\ mishaps = 0
    /\ retries = 0

-----------------------------------------------------------------------------
(* process(), a step per read or write of what others see.                 *)

(* process() returns, to the request's end or to the attempt it is of.     *)
Return(t, how) ==
    /\ Move(t, IF t \in Enders THEN "ended" ELSE "settle")
    /\ result' = [result EXCEPT ![t] = how]
    /\ tries' = [tries EXCEPT ![t] = 0]
    /\ draft' = [draft EXCEPT ![t] = None]

(* An exception of the LLM ends the run; a rate limit is noted.            *)
Abandon(t) ==
    /\ \/ Return(t, "failed") /\ UNCHANGED waits
       \/ /\ Return(t, "limited")
          /\ waits' = [waits EXCEPT ![Here(t)] = TRUE]
    /\ UNCHANGED <<database, store, remembered, copy, bounds>>

(* _waiting_out_rate_limits: a short limit is waited out, so many times.   *)
Wait(t) ==
    /\ tries[t] + 1 < LimitTries
    /\ tries' = [tries EXCEPT ![t] = tries[t] + 1]
    /\ UNCHANGED <<database, store, memory, at, draft, copy, result, bounds>>

\* Mutant: a retry that finds no live analysis forgets the sentiment kept.
RememberAnew(t) ==
    /\ at[t] = "remember"
    /\ waits' = [waits EXCEPT ![Here(t)] = FALSE]
    /\ remembered' = [remembered EXCEPT ![Here(t)] = live]
    /\ Move(t, "look")
    /\ UNCHANGED <<database, store, locals, bounds>>

(* _rate_limit_waits is reset and the live sentiment remembered.           *)
Remember(t) ==
    /\ at[t] = "remember"
    /\ waits' = [waits EXCEPT ![Here(t)] = FALSE]
    /\ remembered' = [remembered EXCEPT ![Here(t)] = live \/ remembered[Here(t)]]
    /\ Move(t, "look")
    /\ UNCHANGED <<database, store, locals, bounds>>

(* The live analysis is dropped; a stored summary is the answer.           *)
Look(t) ==
    /\ at[t] = "look"
    /\ live' = FALSE
    /\ IF summary # None
       THEN /\ Return(t, "summary")
            /\ remembered' = [remembered EXCEPT ![Here(t)] = FALSE]
       ELSE Move(t, "revise") /\ UNCHANGED <<remembered, tries, draft, result>>
    /\ UNCHANGED <<database, repair, ripe, paused, lock, waits, copy, bounds>>

(* _revise_transcript: the recording may give a transcript to a call that  *)
(* had none; on any failure the live one stays.  Without one, that is all. *)
Revise(t) ==
    /\ at[t] = "revise"
    /\ \E heard \in {spoken, TRUE} :
         /\ spoken' = heard
         /\ IF heard
            THEN Move(t, "analyse") /\ UNCHANGED <<tries, draft, result>>
            ELSE Return(t, "failed")
    /\ UNCHANGED <<done, summary, handed, store, memory, copy, bounds>>

\* Mutant: the final coverage stays with the run.
AnalysedUnsaved(t) ==
    /\ draft' = [draft EXCEPT ![t] = [by |-> t, tone |-> "final"]]
    /\ tries' = [tries EXCEPT ![t] = 0]
    /\ Move(t, "closeout")
    /\ UNCHANGED <<database, store, memory, copy, result, bounds>>

(* The coverage is saved.  An unusable sentiment gives way to the one the  *)
(* call had while live, if this process knows it.                          *)
Analysed(t) ==
    /\ done' = done \cup {"coverage"}
    /\ \E usable \in BOOLEAN :
         draft' = [draft EXCEPT ![t] = [by |-> t, tone |->
                     CASE usable -> "final"
                       [] ~usable /\ remembered[Here(t)] -> "live"
                       [] OTHER -> "neutral"]]
    /\ tries' = [tries EXCEPT ![t] = 0]
    /\ Move(t, "closeout")
    /\ UNCHANGED <<spoken, summary, handed, store, memory, copy, result, bounds>>

Analyse(t) == at[t] = "analyse" /\ (Analysed(t) \/ Wait(t) \/ Abandon(t))

(* Closing out the complaints is best effort: it may fail, and the run     *)
(* goes on (as it does past the last escalation check).                    *)
CloseOut(t) ==
    /\ at[t] = "closeout"
    /\ done' \in {done, done \cup {"closed"}}
    /\ Move(t, "summarise")
    /\ UNCHANGED <<spoken, summary, handed, store, memory, locals, bounds>>

Summarised(t) ==
    /\ tries' = [tries EXCEPT ![t] = 0]
    /\ Move(t, "store")
    /\ UNCHANGED <<database, store, memory, draft, copy, result, bounds>>

Summarise(t) == at[t] = "summarise" /\ (Summarised(t) \/ Wait(t) \/ Abandon(t))

\* Mutant: the run delivers its own draft instead of what is stored.
StoreAside(t) ==
    /\ at[t] = "store"
    /\ summary' = IF summary = None THEN draft[t] ELSE summary
    /\ remembered' = [remembered EXCEPT ![Here(t)] = FALSE]
    /\ Move(t, "deliver")
    /\ UNCHANGED <<spoken, done, handed, store, waits, locals, bounds>>

(* add_if_absent: whichever is stored is what is delivered.                *)
Store(t) ==
    /\ at[t] = "store"
    /\ \/ /\ summary' = IF summary = None THEN draft[t] ELSE summary
          /\ draft' = [draft EXCEPT ![t] = summary']
          /\ remembered' = [remembered EXCEPT ![Here(t)] = FALSE]
          /\ Move(t, "deliver")
          /\ UNCHANGED <<tries, result>>
       \/ Return(t, "failed") /\ UNCHANGED <<summary, remembered>>
    /\ UNCHANGED <<spoken, done, handed, store, waits, copy, bounds>>

Deliver(t) ==
    /\ at[t] = "deliver"
    /\ handed' = handed \cup {draft[t]}
    /\ Return(t, "summary")
    /\ UNCHANGED <<spoken, done, summary, store, memory, copy, bounds>>

Process(t) ==
    \/ Remember(t) \/ Look(t) \/ Revise(t) \/ Analyse(t)
    \/ CloseOut(t) \/ Summarise(t) \/ Store(t) \/ Deliver(t)

-----------------------------------------------------------------------------
(* The repair sweep of an instance.                                        *)
Acquire(t) ==
    /\ at[t] = "resting"
    /\ lock = None
    /\ lock' = t
    /\ Move(t, "scan")
    /\ UNCHANGED <<database, live, repair, ripe, paused, memory, locals, bounds>>

(* _unprocessed_calls: with speech and without a summary.                  *)
Scan(t) ==
    /\ at[t] = "scan"
    /\ Move(t, IF spoken /\ summary = None THEN "load" ELSE "release")
    /\ UNCHANGED <<database, store, memory, locals, bounds>>

(* _state: read, or written afresh for a call first seen.                  *)
State == IF repair = None THEN FreshState ELSE repair

Load(t) ==
    /\ at[t] = "load"
    /\ repair' = State
    /\ copy' = [copy EXCEPT ![t] = State]
    /\ Move(t, IF State.attempts < MaxAttempts /\ ~paused /\ ripe THEN "renew" ELSE "release")
    /\ UNCHANGED <<database, live, ripe, paused, lock, memory, tries, draft, result, bounds>>

\* Mutant: the attempt is counted only when it fails for good.
RenewUncounted(t) ==
    /\ at[t] = "renew"
    /\ Move(t, IF lock = t THEN "remember" ELSE "release")
    /\ UNCHANGED <<database, store, memory, locals, bounds>>

(* Still our lock?  Then an attempt starts, counted in our copy.           *)
Renew(t) ==
    /\ at[t] = "renew"
    /\ IF lock = t
       THEN /\ copy' = [copy EXCEPT ![t].attempts = copy[t].attempts + 1]
            /\ Move(t, "remember")
       ELSE Move(t, "release") /\ UNCHANGED copy
    /\ UNCHANGED <<database, store, memory, tries, draft, result, bounds>>

(* retry(): by hand, without the lock, the count started anew.             *)
Retry(t) ==
    /\ at[t] = "resting"
    /\ retries < MaxRetries
    /\ retries' = retries + 1
    /\ repair' = State
    /\ copy' = [copy EXCEPT ![t] = [attempts |-> 1, since |-> "never"]]
    /\ Move(t, "remember")
    /\ UNCHANGED <<database, live, ripe, paused, lock, memory, tries, draft, result, toned, mishaps>>

\* Mutant: every failed attempt is given back, as if a limit had stopped it.
SettleFree(t) ==
    /\ at[t] = "settle"
    /\ ripe' = FALSE
    /\ repair' = IF result[t] = "summary" THEN None
                 ELSE [copy[t] EXCEPT !.attempts = @ - 1, !.since = "never"]
    /\ Move(t, IF t \in Sweepers THEN "release" ELSE "resting")
    /\ copy' = [copy EXCEPT ![t] = None]
    /\ result' = [result EXCEPT ![t] = "none"]
    /\ UNCHANGED <<database, live, paused, lock, memory, tries, draft, bounds>>

(* The end of _attempt: what is written is the copy loaded before it.      *)
Since(t) == IF copy[t].since = "never" THEN "recent" ELSE copy[t].since

Settle(t) ==
    /\ at[t] = "settle"
    /\ ripe' = FALSE
    /\ CASE result[t] = "summary" ->
              repair' = None /\ UNCHANGED paused
         [] result[t] # "summary" /\ ~waits[Here(t)] ->
              repair' = [copy[t] EXCEPT !.since = "never"] /\ UNCHANGED paused
         [] result[t] # "summary" /\ waits[Here(t)] /\ Since(t) = "long" ->
              repair' = [attempts |-> MaxAttempts, since |-> "long"] /\ UNCHANGED paused
         [] OTHER ->
              /\ repair' = [attempts |-> copy[t].attempts - 1, since |-> Since(t)]
              /\ paused' = TRUE
    /\ Move(t, IF t \in Sweepers THEN "release" ELSE "resting")
    /\ copy' = [copy EXCEPT ![t] = None]
    /\ result' = [result EXCEPT ![t] = "none"]
    /\ UNCHANGED <<database, live, lock, memory, tries, draft, bounds>>

Release(t) ==
    /\ at[t] = "release"
    /\ lock' = IF lock = t THEN None ELSE lock
    /\ copy' = [copy EXCEPT ![t] = None]
    /\ Move(t, "resting")
    /\ UNCHANGED <<database, live, repair, ripe, paused, memory, tries, draft, result, bounds>>

-----------------------------------------------------------------------------
(* Time, and the death of a process.                                       *)
Ripen ==
    /\ repair # None
    /\ ~ripe
    /\ ripe' = TRUE
    /\ UNCHANGED <<database, live, repair, paused, lock, memory, at, locals, bounds>>

PauseEnds ==
    /\ paused
    /\ paused' = FALSE
    /\ UNCHANGED <<database, live, repair, ripe, lock, memory, at, locals, bounds>>

(* A call has waited rate_limit_give_up_seconds for its limit.             *)
Older(state) ==
    IF state # None /\ state.since = "recent" THEN [state EXCEPT !.since = "long"] ELSE state

Day ==
    /\ repair' = Older(repair)
    /\ copy' = [t \in Threads |-> Older(copy[t])]
    /\ UNCHANGED <<database, live, ripe, paused, lock, memory, at, tries, draft, result, bounds>>

(* The lock of a dead process expires, and an attempt may outlast its own. *)
LockExpires ==
    /\ lock # None
    /\ at[lock] \notin {"scan", "load", "renew"}
    /\ lock' = None
    /\ UNCHANGED <<database, live, repair, ripe, paused, memory, at, locals, bounds>>

(* A sweep held up by other calls loses its lock before it comes to ours.  *)
LockIsLost ==
    /\ lock # None
    /\ at[lock] \in {"scan", "load", "renew"}
    /\ mishaps < MaxMishaps
    /\ mishaps' = mishaps + 1
    /\ lock' = None
    /\ UNCHANGED <<database, live, repair, ripe, paused, memory, at, locals, toned, retries>>

(* _STATE_TTL_SECONDS: a call given up on is, after a week, a new one.     *)
GiveUpIsForgotten ==
    /\ repair # None
    /\ repair.attempts >= MaxAttempts
    /\ repair' = None
    /\ ripe' = FALSE
    /\ UNCHANGED <<database, live, paused, lock, memory, at, locals, bounds>>

Crash(i) ==
    /\ mishaps < MaxMishaps
    /\ mishaps' = mishaps + 1
    /\ at' = [t \in Threads |->
                CASE Here(t) # i -> at[t]
                  [] Here(t) = i /\ t \in Enders -> "ended"
                  [] OTHER -> "resting"]
    /\ remembered' = [remembered EXCEPT ![i] = FALSE]
    /\ waits' = [waits EXCEPT ![i] = FALSE]
    /\ tries' = [t \in Threads |-> IF Here(t) = i THEN 0 ELSE tries[t]]
    /\ draft' = [t \in Threads |-> IF Here(t) = i THEN None ELSE draft[t]]
    /\ copy' = [t \in Threads |-> IF Here(t) = i THEN None ELSE copy[t]]
    /\ result' = [t \in Threads |-> IF Here(t) = i THEN "none" ELSE result[t]]
    /\ UNCHANGED <<database, store, toned, retries>>

-----------------------------------------------------------------------------
Sweep(t) == Acquire(t) \/ Scan(t) \/ Load(t) \/ Renew(t) \/ Settle(t) \/ Release(t)

(* What a thread does of its own accord.                                   *)
Step(t) ==
    \/ Process(t)
    \/ t \in Sweepers /\ Sweep(t)
    \/ t \in Hands /\ Settle(t)

Next ==
    \/ \E t \in Threads : Step(t)
    \/ \E t \in Hands : Retry(t)
    \/ Ripen \/ PauseEnds \/ Day \/ LockExpires \/ LockIsLost \/ GiveUpIsForgotten
    \/ \E i \in Instances : Crash(i)

Spec == Init /\ [][Next]_vars

(* Threads run, the sweep is a job that runs again and again, LLM calls    *)
(* return or time out, and time passes.  Nothing makes a person retry.     *)
FairSpec ==
    /\ Spec
    /\ \A t \in Threads : WF_vars(Step(t))
    /\ WF_vars(Ripen) /\ WF_vars(PauseEnds) /\ WF_vars(Day) /\ WF_vars(LockExpires)

-----------------------------------------------------------------------------
Summaries == [by: Threads, tone: {"final", "live", "neutral"}]
States == [attempts: 0..MaxAttempts, since: {"never", "recent", "long"}]
Stages == {"remember", "look", "revise", "analyse", "closeout", "summarise",
           "store", "deliver", "settle", "ended", "resting", "scan", "load", "renew", "release"}

(* Every variable keeps to its domain: no count of attempts leaves its     *)
(* range, whoever writes the bookkeeping last.                             *)
TypeOK ==
    /\ spoken \in BOOLEAN
    /\ done \subseteq {"coverage", "closed"}
    /\ summary \in Summaries \cup {None}
    /\ handed \subseteq Summaries
    /\ live \in BOOLEAN
    /\ repair \in States \cup {None}
    /\ ripe \in BOOLEAN
    /\ paused \in BOOLEAN
    /\ lock \in Sweepers \cup {None}
    /\ remembered \in [Instances -> BOOLEAN]
    /\ waits \in [Instances -> BOOLEAN]
    /\ at \in [Threads -> Stages]
    /\ tries \in [Threads -> 0..LimitTries - 1]
    /\ draft \in [Threads -> Summaries \cup {None}]
    /\ copy \in [Threads -> States \cup {None}]
    /\ result \in [Threads -> {"none", "summary", "failed", "limited"}]
    /\ toned \in BOOLEAN
    /\ mishaps \in 0..MaxMishaps
    /\ retries \in 0..MaxRetries

(* No summary without the final analysis stored: the coverage a reader     *)
(* finds beside it is the final one.                                       *)
SummaryRestsOnAnalysis == summary # None => "coverage" \in done /\ spoken

(* The customer is only ever sent the summary that is stored, although     *)
(* overlapping runs each draft their own: the later draft neither replaces *)
(* the summary that was stored and sent first nor is sent in its stead.    *)
OnlyTheStoredIsHanded == handed \subseteq {summary}

(* "the call keeps the tone it had while live rather than being stored as  *)
(* neutral", however often the final analysis is tried: on one instance    *)
(* that does not restart (the sentiment is kept in its memory).            *)
ToneIsKept ==
    mishaps = 0 /\ (\A t, u \in Threads : Here(t) = Here(u)) /\ summary # None /\ toned
        => summary.tone # "neutral"

(* A call with speech gets its summary, or is given up on after its        *)
(* attempts: crashes, lost locks and rate limits never leave it hanging.   *)
GivenUp == repair # None /\ repair.attempts >= MaxAttempts
Settles == spoken ~> summary # None \/ GivenUp

(* The customer's message follows the stored summary, come what may.       *)
MessageFollows == summary # None ~> handed # {}
=============================================================================
