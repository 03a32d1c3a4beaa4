----------------------------- MODULE SummaryDelivery -----------------------------
(***************************************************************************)
(* Sending one call's summary to its customer                              *)
(* (customer_summary_delivery_service.py) and the books kept about it      *)
(* (customer_summary_delivery_records.py): the run that follows the call,  *)
(* and the retry job of every instance, which takes no lock.  What is      *)
(* shared is the table of deliveries.                                      *)
(***************************************************************************)
EXTENDS Naturals, FiniteSets

CONSTANTS
    Posts,          \* post-call runs, each of which delivers once
    Retriers,       \* the retry job of each instance
    Lookups,        \* what the CRM may answer: "known", "unknown", "fails"
    MaxAttempts,    \* max_attempts of one delivery
    MaxCrashes      \* bound

Runs == Posts \cup Retriers

ASSUME DeliveryAssumption ==
    /\ MaxAttempts \in Nat \ {0}
    /\ MaxCrashes \in Nat
    /\ Lookups \subseteq {"known", "unknown", "fails"}
    /\ Posts \cap Retriers = {}

VARIABLES
    rows,           \* customer_summary_deliveries, of this call
    aged,           \* deliveries left untouched for QUEUED_STALE_SECONDS
    late,           \* has the RETRY_WINDOW_SECONDS passed?
    at,             \* what each run is at
    hand,           \* the deliveries it has read or claimed
    outcome,        \* how its claimed delivery ended
    crashes

vars == <<rows, aged, late, at, hand, outcome, crashes>>

(* key: the idempotency key, of the customer or of a failed lookup;        *)
(* unsure: failure_reason is CUSTOMER_LOOKUP_FAILED.                       *)
Delivery(id, key, status, attempts, unsure) ==
    [id |-> id, key |-> key, status |-> status, attempts |-> attempts, unsure |-> unsure]

Unfinished == {"failed", "queued"}
Keyed(key) == {r \in rows : r.key = key}
NewId == Cardinality(rows) + 1

\* Mutant: one attempt too many.
MayRetryOnceMore(r) ==
    /\ r.attempts <= MaxAttempts
    /\ ~late
    /\ r.status = "failed" \/ (r.status = "queued" /\ r.id \in aged)

\* Mutant: a delivery whose run died is left queued.
MayRetryFailed(r) ==
    /\ r.attempts < MaxAttempts
    /\ ~late
    /\ r.status = "failed"

(* may_retry *)
MayRetry(r) ==
    /\ r.attempts < MaxAttempts
    /\ ~late
    /\ r.status = "failed" \/ (r.status = "queued" /\ r.id \in aged)

Init ==
    /\ rows = {}
    /\ aged = {}
    /\ late = FALSE
    /\ at = [t \in Runs |-> IF t \in Posts THEN "resolve" ELSE "resting"]
    /\ hand = [t \in Runs |-> {}]
    /\ outcome = [t \in Runs |-> "none"]
    /\ crashes = 0

Resting(t) == IF t \in Posts THEN "ended" ELSE "resting"

Move(t, stage) == at' = [at EXCEPT ![t] = stage]

(* The run is through, and holds nothing.                                  *)
Done(t) == Move(t, Resting(t)) /\ hand' = [hand EXCEPT ![t] = {}]

Go(t, stage, deliveries) == Move(t, stage) /\ hand' = [hand EXCEPT ![t] = deliveries]

-----------------------------------------------------------------------------
Insert(r) == rows' = rows \cup {r} /\ UNCHANGED aged

(* save(): the row with this id as a whole, unless its key is taken.       *)
KeyIsTaken(r) == \E q \in rows : q.id # r.id /\ q.key = r.key

Saved(r) ==
    IF KeyIsTaken(r)
    THEN UNCHANGED <<rows, aged>>
    ELSE rows' = {q \in rows : q.id # r.id} \cup {r} /\ aged' = aged \ {r.id}

\* Mutant: a failed lookup is not taken up again.
PickKeyed(t) ==
    /\ at[t] = "resting"
    /\ \E r \in Keyed("customer") : r.status \in Unfinished /\ MayRetry(r)
    /\ Move(t, "resolve")
    /\ UNCHANGED <<rows, aged, late, hand, outcome, crashes>>

(* retry_unfinished: a delivery that may be tried again starts a run.      *)
Pick(t) ==
    /\ at[t] = "resting"
    /\ \E r \in rows : r.status \in Unfinished /\ MayRetry(r)
    /\ Move(t, "resolve")
    /\ UNCHANGED <<rows, aged, late, hand, outcome, crashes>>

(* deliver_for_call asks the CRM who the customer is.                      *)
Resolve(t, answer) ==
    /\ at[t] = "resolve"
    /\ Move(t, CASE answer = "known" -> "examine"
                 [] answer = "unknown" -> "close"
                 [] answer = "fails" -> "note")
    /\ UNCHANGED <<rows, aged, late, hand, outcome, crashes>>

(* existing(): by the customer's key, or else the one a failed lookup      *)
(* left.                                                                   *)
Existing ==
    IF Keyed("customer") # {} THEN Keyed("customer") ELSE {r \in Keyed("lookup") : r.unsure}

(* _send: nothing recorded, or something that may be tried again.          *)
Examine(t) ==
    /\ at[t] = "examine"
    /\ \/ Existing = {} /\ Go(t, "add", {})
       \/ \E r \in Existing : IF MayRetry(r) THEN Go(t, "claim", {r}) ELSE Done(t)
    /\ UNCHANGED <<rows, aged, late, outcome, crashes>>

(* claim(), nothing recorded: add_if_absent under the customer's key.      *)
Add(t) ==
    /\ at[t] = "add"
    /\ IF Keyed("customer") # {}
       THEN Done(t) /\ UNCHANGED <<rows, aged>>
       ELSE LET r == Delivery(NewId, "customer", "queued", 1, FALSE)
            IN  Insert(r) /\ Go(t, "send", {r})
    /\ UNCHANGED <<late, outcome, crashes>>

(* claim_retry: compare and set on the status and the attempts.            *)
Claimed(r) == [r EXCEPT !.key = "customer", !.status = "queued",
                        !.attempts = r.attempts + 1, !.unsure = FALSE]

\* Mutant: the claim looks at the status only.
ClaimAnyAttempt(t) ==
    /\ at[t] = "claim"
    /\ \E r \in hand[t] :
         IF \E q \in rows : q.id = r.id /\ q.status \in Unfinished
         THEN /\ rows' = {IF q.id = r.id
                          THEN [q EXCEPT !.status = "queued", !.attempts = r.attempts + 1]
                          ELSE q : q \in rows}
              /\ aged' = aged \ {r.id}
              /\ Go(t, "send", {Claimed(r)})
         ELSE Done(t) /\ UNCHANGED <<rows, aged>>
    /\ UNCHANGED <<late, outcome, crashes>>

\* Mutant: the attempt is recorded when it ends, not when it is claimed.
ClaimUncounted(t) ==
    /\ at[t] = "claim"
    /\ \E r \in hand[t] :
         IF \E q \in rows : q.id = r.id /\ q.status \in Unfinished /\ q.attempts = r.attempts
         THEN /\ rows' = {IF q.id = r.id THEN [q EXCEPT !.status = "queued"] ELSE q : q \in rows}
              /\ aged' = aged \ {r.id}
              /\ Go(t, "send", {[Claimed(r) EXCEPT !.attempts = r.attempts]})
         ELSE Done(t) /\ UNCHANGED <<rows, aged>>
    /\ UNCHANGED <<late, outcome, crashes>>

Claim(t) ==
    /\ at[t] = "claim"
    /\ \E r \in hand[t] :
         IF \E q \in rows : q.id = r.id /\ q.status \in Unfinished /\ q.attempts = r.attempts
         THEN /\ rows' = {IF q.id = r.id
                          THEN [q EXCEPT !.status = "queued", !.attempts = r.attempts + 1]
                          ELSE q : q \in rows}
              /\ aged' = aged \ {r.id}
              /\ Go(t, "send", {Claimed(r)})
         ELSE Done(t) /\ UNCHANGED <<rows, aged>>
    /\ UNCHANGED <<late, outcome, crashes>>

(* Not allowed to send, or handed to the provider, which may fail.         *)
Send(t) ==
    /\ at[t] = "send"
    /\ \E end \in {"rejected", "sent", "failed"} : outcome' = [outcome EXCEPT ![t] = end]
    /\ Move(t, "finish")
    /\ UNCHANGED <<rows, aged, late, hand, crashes>>

Finish(t) ==
    /\ at[t] = "finish"
    /\ \E r \in hand[t] : Saved([r EXCEPT !.status = outcome[t]])
    /\ outcome' = [outcome EXCEPT ![t] = "none"]
    /\ Done(t)
    /\ UNCHANGED <<late, crashes>>

-----------------------------------------------------------------------------
(* record_lookup_failure: the customer could not be looked up.  Attempts   *)
(* beyond MaxAttempts all mean the same, and are counted as MaxAttempts.   *)
OneMore(attempts) == IF attempts < MaxAttempts THEN attempts + 1 ELSE attempts

Note(t) ==
    /\ at[t] = "note"
    /\ \/ Keyed("lookup") = {} /\ Go(t, "noteNew", {})
       \/ \E r \in Keyed("lookup") : IF r.status = "failed" THEN Go(t, "noteAgain", {r}) ELSE Done(t)
    /\ UNCHANGED <<rows, aged, late, outcome, crashes>>

NoteNew(t) ==
    /\ at[t] = "noteNew"
    /\ IF Keyed("lookup") # {} THEN UNCHANGED <<rows, aged>>
       ELSE Insert(Delivery(NewId, "lookup", "failed", 1, TRUE))
    /\ Done(t)
    /\ UNCHANGED <<late, outcome, crashes>>

NoteAgain(t) ==
    /\ at[t] = "noteAgain"
    /\ \E r \in hand[t] : Saved([r EXCEPT !.attempts = OneMore(r.attempts)])
    /\ Done(t)
    /\ UNCHANGED <<late, outcome, crashes>>

(* close_unfinished: there is nobody to send to.                           *)
Close(t) ==
    /\ at[t] = "close"
    /\ LET open == {r \in rows : r.status \in Unfinished}
       IN  IF open = {} THEN Done(t) ELSE Go(t, "closing", open)
    /\ UNCHANGED <<rows, aged, late, outcome, crashes>>

CloseOne(t) ==
    /\ at[t] = "closing"
    /\ \E r \in hand[t] :
         /\ Saved([r EXCEPT !.status = "rejected", !.unsure = FALSE])
         /\ IF KeyIsTaken(r) \/ hand[t] = {r} THEN Done(t) ELSE Go(t, "closing", hand[t] \ {r})
    /\ UNCHANGED <<late, outcome, crashes>>

-----------------------------------------------------------------------------
(* A delivery stays queued so long only when nobody is at it: what a run   *)
(* does with a claimed delivery is bounded by timeouts of seconds.         *)
Holding(t) == at[t] \in {"send", "finish"}

Age(r) ==
    /\ r.id \notin aged
    /\ \A t \in Runs : Holding(t) => \A q \in hand[t] : q.id # r.id
    /\ aged' = aged \cup {r.id}
    /\ UNCHANGED <<rows, late, at, hand, outcome, crashes>>

WindowCloses ==
    /\ rows # {}
    /\ ~late
    /\ late' = TRUE
    /\ UNCHANGED <<rows, aged, at, hand, outcome, crashes>>

Crash(t) ==
    /\ crashes < MaxCrashes
    /\ at[t] \notin {"ended", "resting"}
    /\ crashes' = crashes + 1
    /\ Done(t)
    /\ outcome' = [outcome EXCEPT ![t] = "none"]
    /\ UNCHANGED <<rows, aged, late>>

Step(t) ==
    \/ \E answer \in Lookups : Resolve(t, answer)
    \/ Examine(t) \/ Add(t) \/ Claim(t) \/ Send(t) \/ Finish(t)
    \/ Note(t) \/ NoteNew(t) \/ NoteAgain(t) \/ Close(t) \/ CloseOne(t)

Next ==
    \/ \E t \in Runs : Step(t) \/ Crash(t)
    \/ \E t \in Retriers : Pick(t)
    \/ \E r \in rows : Age(r)
    \/ WindowCloses

Spec == Init /\ [][Next]_vars

(* Runs go on, the job runs again and again, deliveries age, and an outage *)
(* of the CRM ends; the day that ends all retries is not counted on.       *)
FairSpec ==
    /\ Spec
    /\ \A t \in Runs : WF_vars(Step(t))
    /\ \A t \in Runs : SF_vars(\E answer \in Lookups \ {"fails"} : Resolve(t, answer))
    /\ \A t \in Retriers : WF_vars(Pick(t))
    /\ WF_vars(\E r \in rows : Age(r))

-----------------------------------------------------------------------------
Deliveries == [id: Nat, key: {"customer", "lookup"}, attempts: 1..MaxAttempts, unsure: BOOLEAN,
               status: {"queued", "sent", "failed", "rejected"}]
Stages == {"resting", "resolve", "examine", "add", "claim", "send", "finish",
           "note", "noteNew", "noteAgain", "close", "closing", "ended"}

(* Every variable keeps to its domain, and no id or key is used twice.     *)
TypeOK ==
    /\ rows \subseteq Deliveries
    /\ \A q, r \in rows : q.id = r.id \/ q.key = r.key => q = r
    /\ aged \subseteq Nat
    /\ late \in BOOLEAN
    /\ at \in [Runs -> Stages]
    /\ hand \in [Runs -> SUBSET Deliveries]
    /\ outcome \in [Runs -> {"none", "rejected", "sent", "failed"}]
    /\ crashes \in 0..MaxCrashes

(* "of two runs for the same call ..., only the one that gets the record   *)
(* sends": nobody else sends while a run does.                             *)
OneSender == \A s, t \in Runs : Holding(s) /\ Holding(t) => s = t

(* A delivery recorded as sent is never sent again, and stays recorded so. *)
Sent == \E r \in rows : r.status = "sent"
SentStaysSent == [][Sent => Sent']_vars

(* What was begun is brought to an end: a crash while sending, or a failed *)
(* lookup, is taken up again until the text is sent, refused or its        *)
(* attempts are used up.                                                   *)
Open == \A r \in rows : r.status \in Unfinished /\ r.attempts < MaxAttempts
Concludes == rows # {} ~> ~Open \/ late
=============================================================================
