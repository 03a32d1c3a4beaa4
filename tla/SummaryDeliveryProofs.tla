-------------------------- MODULE SummaryDeliveryProofs --------------------------
(***************************************************************************)
(* While the CRM answers every question, for any number of runs: nobody    *)
(* sends while another run does, and a delivery recorded as sent stays so. *)
(* The argument: there is one delivery, a run that may send holds it as it *)
(* is recorded, and a copy that could still be claimed is claimable only   *)
(* while nobody holds it, since each claim counts one more attempt.        *)
(***************************************************************************)
EXTENDS SummaryDelivery, FiniteSetTheorems, TLAPS

CrmAnswers == Lookups \subseteq {"known"}

-----------------------------------------------------------------------------
LocalStages == {"resting", "resolve", "examine", "add", "claim", "send", "finish", "ended"}

Recorded == [id: Nat, key: {"customer"}, attempts: Nat, unsure: {FALSE},
             status: {"queued", "sent", "failed", "rejected"}]

Shape ==
    /\ rows \subseteq Recorded
    /\ at \in [Runs -> LocalStages]
    /\ hand \in [Runs -> SUBSET Recorded]
    /\ outcome \in [Runs -> {"none", "rejected", "sent", "failed"}]

OneDelivery == \A q, r \in rows : q = r

(* A run that sends holds the delivery as it is recorded.                  *)
SenderHoldsIt ==
    \A t \in Runs : Holding(t) =>
        \E r \in rows : hand[t] = {r} /\ r.status = "queued" /\ r.id \notin aged

(* A copy about to be claimed is out of date, or nobody sends.             *)
Stale(c) == \A q \in rows : q.id = c.id =>
    \/ c.attempts < q.attempts
    \/ c.attempts = q.attempts /\ (q.status \in Unfinished => \A s \in Runs : ~Holding(s))

ClaimIsFresh ==
    \A t \in Runs : at[t] = "claim" => rows # {} /\ (\E c \in Recorded : hand[t] = {c})
                                       /\ \A c \in hand[t] : Stale(c)

(* The outcome is known when it is recorded.                               *)
EndIsKnown == \A t \in Runs : at[t] = "finish" => outcome[t] # "none"

(* What has grown old is on record.                                        *)
AgedAreRecorded == aged \subseteq {r.id : r \in rows}

IInv == /\ Shape /\ OneDelivery /\ AgedAreRecorded
        /\ SenderHoldsIt /\ OneSender /\ ClaimIsFresh /\ EndIsKnown

-----------------------------------------------------------------------------
(* A run that turns to something other than claiming or sending.           *)
LEMMA Leaving ==
    ASSUME IInv, NEW t \in Runs, rows' = rows, aged' = aged,
           NEW stage \in LocalStages \ {"claim", "send", "finish"},
           at' = [at EXCEPT ![t] = stage],
           hand' \in [Runs -> SUBSET Recorded],
           outcome' \in [Runs -> {"none", "rejected", "sent", "failed"}],
           \A u \in Runs \ {t} : hand'[u] = hand[u] /\ outcome'[u] = outcome[u]
    PROVE  IInv'
<1>0. \A u \in Runs \ {t} : at'[u] = at[u]
  BY DEF IInv, Shape
<1>1. at'[t] = stage
  BY DEF IInv, Shape
<1>2. \A u \in Runs : Holding(u)' => u # t /\ Holding(u)
  BY <1>0, <1>1 DEF Holding
<1>3. Shape'
  BY DEF IInv, Shape
<1>4. SenderHoldsIt'
  BY <1>2 DEF IInv, SenderHoldsIt
<1>5. OneSender'
  BY <1>2 DEF IInv, OneSender
<1>6. ClaimIsFresh'
  <2> SUFFICES ASSUME NEW u \in Runs, (at[u])' = "claim"
               PROVE  rows # {} /\ (\E c \in Recorded : hand'[u] = {c}) /\ \A c \in hand'[u] : Stale(c)'
    BY DEF ClaimIsFresh
  <2>1. u # t /\ at[u] = "claim" /\ hand'[u] = hand[u]
    BY <1>0, <1>1
  <2>2. rows # {} /\ (\E c \in Recorded : hand[u] = {c}) /\ \A c \in hand[u] : Stale(c)
    BY <2>1 DEF IInv, ClaimIsFresh
  <2> QED BY <2>1, <2>2, <1>2 DEF Stale
<1>7. EndIsKnown'
  BY <1>0, <1>1 DEF IInv, EndIsKnown
<1> QED BY <1>3, <1>4, <1>5, <1>6, <1>7 DEF IInv, OneDelivery, AgedAreRecorded

(* A run that is done, its claims untouched.                               *)
LEMMA Ending ==
    ASSUME IInv, NEW t \in Runs, Done(t), rows' = rows, aged' = aged,
           \/ outcome' = outcome
           \/ outcome' = [outcome EXCEPT ![t] = "none"]
    PROVE  IInv'
<1>1. Resting(t) \in LocalStages \ {"claim", "send", "finish"}
  BY DEF Resting, LocalStages
<1>2. at' = [at EXCEPT ![t] = Resting(t)] /\ hand' = [hand EXCEPT ![t] = {}]
  BY DEF Done, Move
<1>3. /\ hand' \in [Runs -> SUBSET Recorded]
      /\ outcome' \in [Runs -> {"none", "rejected", "sent", "failed"}]
      /\ \A u \in Runs \ {t} : hand'[u] = hand[u] /\ outcome'[u] = outcome[u]
  BY <1>2 DEF IInv, Shape
<1> QED BY <1>1, <1>2, <1>3, Leaving

-----------------------------------------------------------------------------
LEMMA InitIsGood == Init => IInv
<1> SUFFICES ASSUME Init PROVE IInv
  OBVIOUS
<1>1. \A t \in Runs : at[t] \in {"resolve", "resting"}
  BY DEF Init
<1>2. Shape
  BY DEF Init, Shape, LocalStages
<1>3. OneDelivery /\ SenderHoldsIt /\ OneSender /\ ClaimIsFresh /\ EndIsKnown /\ AgedAreRecorded
  BY <1>1 DEF Init, AgedAreRecorded, OneDelivery, SenderHoldsIt, OneSender, ClaimIsFresh, EndIsKnown, Holding
<1> QED BY <1>2, <1>3 DEF IInv

LEMMA PickIsGood == ASSUME IInv, NEW t \in Runs, Pick(t) PROVE IInv'
<1>1. "resolve" \in LocalStages \ {"claim", "send", "finish"}
  BY DEF LocalStages
<1> QED BY <1>1, Leaving DEF Pick, Move, IInv, Shape

LEMMA ResolveIsGood == ASSUME IInv, NEW t \in Runs, Resolve(t, "known") PROVE IInv'
<1>1. "examine" \in LocalStages \ {"claim", "send", "finish"}
  BY DEF LocalStages
<1> QED BY <1>1, Leaving DEF Resolve, Move, IInv, Shape

(* What may be retried is held by nobody, so a copy of it is fresh.        *)
LEMMA ExamineIsGood == ASSUME IInv, NEW t \in Runs, Examine(t) PROVE IInv'
<1>1. CASE Go(t, "add", {})
  <2>1. "add" \in LocalStages \ {"claim", "send", "finish"}
    BY DEF LocalStages
  <2> QED BY <1>1, <2>1, Leaving DEF Examine, Go, Move, IInv, Shape
<1>2. CASE Done(t)
  BY <1>2, Ending DEF Examine
<1>3. ASSUME NEW r \in rows, MayRetry(r), Go(t, "claim", {r}) PROVE IInv'
  <2>1. /\ rows' = rows /\ aged' = aged /\ outcome' = outcome
        /\ at' = [at EXCEPT ![t] = "claim"] /\ hand' = [hand EXCEPT ![t] = {r}]
    BY <1>3 DEF Examine, Go, Move
  <2>2. r \in Recorded /\ rows = {r}
    BY DEF IInv, Shape, OneDelivery
  <2>3. \A u \in Runs : ~Holding(u)
    BY <1>3, <2>2 DEF IInv, SenderHoldsIt, MayRetry
  <2>4. at'[t] = "claim" /\ hand'[t] = {r} /\ \A u \in Runs \ {t} : at'[u] = at[u] /\ hand'[u] = hand[u]
    BY <2>1 DEF IInv, Shape
  <2>5. \A u \in Runs : ~Holding(u)'
    BY <2>3, <2>4 DEF Holding
  <2>6. Shape'
    BY <2>1, <2>2 DEF IInv, Shape, LocalStages
  <2>7. OneDelivery' /\ SenderHoldsIt' /\ OneSender' /\ AgedAreRecorded'
    BY <2>1, <2>5 DEF IInv, AgedAreRecorded, OneDelivery, SenderHoldsIt, OneSender
  <2>8. ClaimIsFresh'
    <3> SUFFICES ASSUME NEW u \in Runs, (at[u])' = "claim"
                 PROVE  rows' # {} /\ (\E c \in Recorded : hand'[u] = {c}) /\ \A c \in hand'[u] : Stale(c)'
      BY DEF ClaimIsFresh
    <3>1. CASE u = t
      BY <3>1, <2>1, <2>2, <2>4, <2>5 DEF Stale
    <3>2. CASE u # t
      <4>1. rows # {} /\ (\E c \in Recorded : hand[u] = {c}) /\ \A c \in hand[u] : Stale(c)
        BY <3>2, <2>4 DEF IInv, ClaimIsFresh
      <4> QED BY <4>1, <3>2, <2>1, <2>4, <2>5 DEF Stale
    <3> QED BY <3>1, <3>2
  <2>9. EndIsKnown'
    BY <2>1, <2>4 DEF IInv, EndIsKnown
  <2> QED BY <2>6, <2>7, <2>8, <2>9 DEF IInv
<1> QED BY <1>1, <1>2, <1>3 DEF Examine, Existing, Keyed

(* The first delivery is recorded by the run that will send it.            *)
LEMMA AddIsGood == ASSUME IInv, NEW t \in Runs, Add(t) PROVE IInv'
<1>1. CASE Keyed("customer") # {}
  BY <1>1, Ending DEF Add
<1>2. CASE Keyed("customer") = {}
  <2> DEFINE r == Delivery(NewId, "customer", "queued", 1, FALSE)
  <2>1. rows = {}
    BY <1>2 DEF Keyed, IInv, Shape, Recorded
  <2>2. NewId = 1
    BY <2>1, FS_EmptySet DEF NewId
  <2>3. r \in Recorded /\ r.status = "queued"
    BY <2>2 DEF Delivery, Recorded
  <2>4. /\ rows' = {r} /\ aged' = aged /\ outcome' = outcome
        /\ at' = [at EXCEPT ![t] = "send"] /\ hand' = [hand EXCEPT ![t] = {r}]
    BY <1>2, <2>1 DEF Add, Insert, Go, Move
  <2>5. at'[t] = "send" /\ hand'[t] = {r} /\ \A u \in Runs \ {t} : at'[u] = at[u] /\ hand'[u] = hand[u]
    BY <2>4 DEF IInv, Shape
  <2>6. \A u \in Runs : ~Holding(u) /\ at[u] # "claim"
    BY <2>1 DEF IInv, SenderHoldsIt, ClaimIsFresh
  <2>7. \A u \in Runs : Holding(u)' => u = t
    BY <2>5, <2>6 DEF Holding
  <2>8. \A u \in Runs : (at[u])' # "claim"
    BY <2>5, <2>6
  <2>9. 1 \notin aged
    BY <2>1 DEF IInv, AgedAreRecorded
  <2>10. r.id = 1
    BY <2>2 DEF Delivery
  <2> HIDE DEF r
  <2>11. Shape'
    BY <2>3, <2>4 DEF IInv, Shape, LocalStages
  <2>12. OneDelivery' /\ SenderHoldsIt' /\ OneSender' /\ ClaimIsFresh' /\ AgedAreRecorded'
    BY <2>1, <2>3, <2>4, <2>5, <2>7, <2>8, <2>9, <2>10
    DEF IInv, OneDelivery, SenderHoldsIt, OneSender, ClaimIsFresh, AgedAreRecorded
  <2>13. EndIsKnown'
    BY <2>4, <2>5 DEF IInv, EndIsKnown
  <2> QED BY <2>11, <2>12, <2>13 DEF IInv
<1> QED BY <1>1, <1>2

(* A claim counts one more attempt than any other copy has seen.           *)
LEMMA ClaimIsGood == ASSUME IInv, NEW t \in Runs, Claim(t) PROVE IInv'
<1>1. PICK c \in Recorded : hand[t] = {c}
  BY DEF Claim, IInv, ClaimIsFresh
<1>2. CASE ~\E q \in rows : q.id = c.id /\ q.status \in Unfinished /\ q.attempts = c.attempts
  BY <1>1, <1>2, Ending DEF Claim
<1>3. ASSUME NEW q \in rows, q.id = c.id, q.status \in Unfinished, q.attempts = c.attempts
      PROVE  IInv'
  <2> DEFINE r == Claimed(c)
  <2>1. rows = {q} /\ q \in Recorded
    BY DEF IInv, OneDelivery, Shape
  <2>2. r = [q EXCEPT !.status = "queued", !.attempts = c.attempts + 1]
    BY <1>3, <2>1 DEF Claimed, Recorded
  <2>3. r \in Recorded /\ r.status = "queued" /\ r.id = q.id /\ r.attempts = q.attempts + 1
    <3> HIDE DEF r
    <3>1. q.attempts + 1 \in Nat
      BY <2>1 DEF Recorded
    <3> QED BY <1>3, <2>1, <2>2, <3>1 DEF Recorded
  <2>4. rows' = {r} /\ aged' = aged \ {r.id}
    BY <1>1, <1>3, <2>1, <2>2, <2>3 DEF Claim
  <2>5. /\ outcome' = outcome
        /\ at' = [at EXCEPT ![t] = "send"] /\ hand' = [hand EXCEPT ![t] = {r}]
    BY <1>1, <1>3 DEF Claim, Go, Move
  <2> HIDE DEF r
  <2>6. at'[t] = "send" /\ hand'[t] = {r} /\ \A u \in Runs \ {t} : at'[u] = at[u] /\ hand'[u] = hand[u]
    BY <2>5 DEF IInv, Shape
  <2>7. at[t] = "claim" /\ Stale(c)
    BY <1>1 DEF Claim, IInv, ClaimIsFresh
  <2>8. \A u \in Runs : ~Holding(u)
    BY <1>3, <2>1, <2>7 DEF Stale, Recorded
  <2>9. \A u \in Runs : Holding(u)' => u = t
    BY <2>6, <2>8 DEF Holding
  <2>10. Shape'
    BY <2>3, <2>4, <2>5 DEF IInv, Shape, LocalStages
  <2>11. OneDelivery' /\ SenderHoldsIt' /\ OneSender'
    BY <2>3, <2>4, <2>6, <2>9 DEF OneDelivery, SenderHoldsIt, OneSender
  <2>12. ClaimIsFresh'
    <3> SUFFICES ASSUME NEW u \in Runs, (at[u])' = "claim"
                 PROVE  rows' # {} /\ (\E d \in Recorded : hand'[u] = {d}) /\ \A d \in hand'[u] : Stale(d)'
      BY DEF ClaimIsFresh
    <3>1. u # t /\ at[u] = "claim" /\ hand'[u] = hand[u]
      BY <2>6
    <3>2. PICK d \in Recorded : hand[u] = {d} /\ Stale(d)
      BY <3>1 DEF IInv, ClaimIsFresh
    <3>3. d.id = q.id => d.attempts <= q.attempts
      BY <2>1, <3>2 DEF Stale, Recorded
    <3>4. d.id = r.id => d.attempts < r.attempts
      BY <3>3, <2>1, <2>3 DEF Recorded
    <3>5. Stale(d)'
      BY <2>4, <3>4 DEF Stale
    <3> QED BY <2>4, <3>1, <3>2, <3>5
  <2>13. EndIsKnown'
    BY <2>5, <2>6 DEF IInv, EndIsKnown
  <2>14. AgedAreRecorded'
    BY <2>1, <2>3, <2>4 DEF IInv, AgedAreRecorded
  <2> QED BY <2>10, <2>11, <2>12, <2>13, <2>14 DEF IInv
<1> QED BY <1>2, <1>3

LEMMA SendIsGood == ASSUME IInv, NEW t \in Runs, Send(t) PROVE IInv'
<1>1. /\ rows' = rows /\ aged' = aged /\ hand' = hand
      /\ at' = [at EXCEPT ![t] = "finish"] /\ at[t] = "send"
      /\ \E end \in {"rejected", "sent", "failed"} : outcome' = [outcome EXCEPT ![t] = end]
  BY DEF Send, Move
<1>2. at'[t] = "finish" /\ \A u \in Runs \ {t} : at'[u] = at[u]
  BY <1>1 DEF IInv, Shape
<1>3. outcome'[t] # "none" /\ \A u \in Runs \ {t} : outcome'[u] = outcome[u]
  BY <1>1 DEF IInv, Shape
<1>4. \A u \in Runs : Holding(u)' = Holding(u)
  BY <1>1, <1>2 DEF Holding
<1>5. \A u \in Runs : (at[u])' = "claim" => at[u] = "claim"
  BY <1>2
<1>6. Shape'
  BY <1>1 DEF IInv, Shape, LocalStages
<1>7. OneDelivery' /\ SenderHoldsIt' /\ OneSender' /\ AgedAreRecorded'
  BY <1>1, <1>4 DEF IInv, OneDelivery, SenderHoldsIt, OneSender, AgedAreRecorded
<1>8. ClaimIsFresh'
  BY <1>1, <1>4, <1>5 DEF IInv, ClaimIsFresh, Stale
<1>9. EndIsKnown'
  BY <1>2, <1>3 DEF IInv, EndIsKnown
<1> QED BY <1>6, <1>7, <1>8, <1>9 DEF IInv

(* Only the run that holds the delivery brings it to an end.               *)
LEMMA FinishIsGood == ASSUME IInv, NEW t \in Runs, Finish(t) PROVE IInv'
<1>1. PICK q \in rows : hand[t] = {q} /\ q.status = "queued"
  BY DEF Finish, IInv, SenderHoldsIt, Holding
<1>2. q \in Recorded /\ rows = {q}
  BY <1>1 DEF IInv, OneDelivery, Shape
<1> DEFINE r == [q EXCEPT !.status = outcome[t]]
<1>3. outcome[t] \in {"rejected", "sent", "failed"}
  BY DEF Finish, IInv, EndIsKnown, Shape
<1>4. r \in Recorded /\ r.id = q.id /\ r.attempts = q.attempts
  BY <1>2, <1>3 DEF Recorded
<1>5. rows' = {r} /\ aged' = aged \ {r.id}
  BY <1>1, <1>2, <1>4 DEF Finish, Saved, KeyIsTaken
<1> HIDE DEF r
<1>6. /\ outcome' = [outcome EXCEPT ![t] = "none"]
      /\ at' = [at EXCEPT ![t] = Resting(t)] /\ hand' = [hand EXCEPT ![t] = {}]
  BY DEF Finish, Done, Move
<1>7. Resting(t) \in LocalStages \ {"claim", "send", "finish"}
  BY DEF Resting, LocalStages
<1>8. /\ at'[t] \notin {"claim", "send", "finish"}
      /\ \A u \in Runs \ {t} : at'[u] = at[u] /\ hand'[u] = hand[u] /\ outcome'[u] = outcome[u]
  BY <1>6, <1>7 DEF IInv, Shape
<1>9. \A u \in Runs : ~Holding(u)'
  BY <1>8 DEF Finish, IInv, OneSender, Holding
<1>10. Shape'
  BY <1>4, <1>5, <1>6, <1>7 DEF IInv, Shape
<1>11. OneDelivery' /\ SenderHoldsIt' /\ OneSender'
  BY <1>5, <1>9 DEF OneDelivery, SenderHoldsIt, OneSender
<1>12. ClaimIsFresh'
  <2> SUFFICES ASSUME NEW u \in Runs, (at[u])' = "claim"
               PROVE  rows' # {} /\ (\E d \in Recorded : hand'[u] = {d}) /\ \A d \in hand'[u] : Stale(d)'
    BY DEF ClaimIsFresh
  <2>1. u # t /\ at[u] = "claim" /\ hand'[u] = hand[u]
    BY <1>8
  <2>2. PICK d \in Recorded : hand[u] = {d} /\ Stale(d)
    BY <2>1 DEF IInv, ClaimIsFresh
  <2>3. d.id = r.id => d.attempts < r.attempts \/ d.attempts = r.attempts
    BY <2>2, <1>2, <1>4 DEF Stale
  <2>4. Stale(d)'
    BY <1>5, <1>9, <2>3 DEF Stale
  <2> QED BY <1>5, <2>1, <2>2, <2>4
<1>13. EndIsKnown'
  BY <1>8 DEF IInv, EndIsKnown
<1>14. AgedAreRecorded'
  BY <1>2, <1>4, <1>5 DEF IInv, AgedAreRecorded
<1> QED BY <1>10, <1>11, <1>12, <1>13, <1>14 DEF IInv

(* Only a delivery nobody holds grows old.                                 *)
LEMMA AgeIsGood == ASSUME IInv, NEW r \in rows, Age(r) PROVE IInv'
<1>1. /\ rows' = rows /\ at' = at /\ hand' = hand /\ outcome' = outcome
      /\ aged' = aged \cup {r.id}
  BY DEF Age
<1>2. rows = {r}
  BY DEF IInv, OneDelivery
<1>3. \A u \in Runs : ~Holding(u)
  BY <1>2 DEF Age, IInv, SenderHoldsIt
<1>4. \A u \in Runs : Holding(u)' = Holding(u)
  BY <1>1 DEF Holding
<1>5. Shape' /\ OneDelivery' /\ EndIsKnown' /\ OneSender'
  BY <1>1, <1>3, <1>4 DEF IInv, Shape, OneDelivery, EndIsKnown, OneSender
<1>6. SenderHoldsIt' /\ ClaimIsFresh' /\ AgedAreRecorded'
  BY <1>1, <1>3, <1>4 DEF IInv, SenderHoldsIt, ClaimIsFresh, Stale, AgedAreRecorded
<1> QED BY <1>5, <1>6 DEF IInv

LEMMA CrashIsGood == ASSUME IInv, NEW t \in Runs, Crash(t) PROVE IInv'
BY Ending DEF Crash

LEMMA StutterIsGood ==
    ASSUME IInv, UNCHANGED <<rows, aged, at, hand, outcome>> PROVE IInv'
<1>1. \A u \in Runs : Holding(u)' = Holding(u)
  BY DEF Holding
<1>2. Shape' /\ OneDelivery' /\ EndIsKnown' /\ OneSender' /\ AgedAreRecorded'
  BY <1>1 DEF IInv, Shape, OneDelivery, EndIsKnown, OneSender, AgedAreRecorded
<1>3. SenderHoldsIt' /\ ClaimIsFresh'
  BY <1>1 DEF IInv, SenderHoldsIt, ClaimIsFresh, Stale
<1> QED BY <1>2, <1>3 DEF IInv

-----------------------------------------------------------------------------
(* While the CRM answers, no run is at noting a failure or closing.        *)
LEMMA LocalSteps ==
    ASSUME IInv, CrmAnswers, NEW t \in Runs, Step(t)
    PROVE  \/ Resolve(t, "known") \/ Examine(t) \/ Add(t)
           \/ Claim(t) \/ Send(t) \/ Finish(t)
<1>1. at[t] \notin {"note", "noteNew", "noteAgain", "close", "closing"}
  BY DEF IInv, Shape, LocalStages
<1> QED BY <1>1 DEF Step, CrmAnswers, Note, NoteNew, NoteAgain, Close, CloseOne

LEMMA NextIsGood == IInv /\ CrmAnswers /\ [Next]_vars => IInv'
<1> SUFFICES ASSUME IInv, CrmAnswers, [Next]_vars PROVE IInv'
  OBVIOUS
<1>1. ASSUME NEW t \in Runs, Step(t) PROVE IInv'
  BY <1>1, LocalSteps, ResolveIsGood, ExamineIsGood, AddIsGood, ClaimIsGood, SendIsGood, FinishIsGood
<1>2. ASSUME NEW t \in Runs, Crash(t) PROVE IInv'
  BY <1>2, CrashIsGood
<1>3. ASSUME NEW t \in Retriers, Pick(t) PROVE IInv'
  BY <1>3, PickIsGood DEF Runs
<1>4. ASSUME NEW r \in rows, Age(r) PROVE IInv'
  BY <1>4, AgeIsGood
<1>5. CASE WindowCloses
  BY <1>5, StutterIsGood DEF WindowCloses
<1>6. CASE UNCHANGED vars
  BY <1>6, StutterIsGood DEF vars
<1> QED BY <1>1, <1>2, <1>3, <1>4, <1>5, <1>6 DEF Next

(* While the CRM answers, two runs never send for one call at a time: the  *)
(* claim of claim() is by one run, and lasts until finish().               *)
THEOREM OnlyOneSends == Spec /\ []CrmAnswers => []OneSender
<1>1. Spec /\ []CrmAnswers => []IInv
  BY InitIsGood, NextIsGood, PTL DEF Spec
<1>2. IInv => OneSender
  BY DEF IInv
<1> QED BY <1>1, <1>2, PTL

(* A step of a run under the invariant leaves a sent delivery as it is.    *)
LEMMA SentIsKept == IInv /\ CrmAnswers /\ [Next]_vars => [Sent => Sent']_vars
<1> SUFFICES ASSUME IInv, CrmAnswers, Next, Sent PROVE Sent'
  BY DEF vars
<1>1. PICK q \in rows : q.status = "sent"
  BY DEF Sent
<1>2. rows = {q} /\ q.key = "customer"
  BY DEF IInv, OneDelivery, Shape, Recorded
<1>3. Keyed("customer") # {}
  BY <1>2 DEF Keyed
<1>4. rows' = rows => Sent'
  BY <1>1 DEF Sent
<1>5. ASSUME NEW t \in Runs, Step(t) PROVE rows' = rows
  <2>1. CASE Add(t)
    BY <2>1, <1>3 DEF Add
  <2>2. CASE Claim(t)
    BY <2>2, <1>1, <1>2 DEF Claim, Unfinished
  <2>3. CASE Finish(t)
    BY <2>3, <1>1, <1>2 DEF Finish, IInv, SenderHoldsIt, Holding
  <2> QED BY <1>5, <2>1, <2>2, <2>3, LocalSteps DEF Resolve, Examine, Send
<1>6. CASE \E t \in Runs : Crash(t)
  BY <1>4, <1>6 DEF Crash
<1>7. CASE \E t \in Retriers : Pick(t)
  BY <1>4, <1>7 DEF Pick
<1>8. CASE \E r \in rows : Age(r)
  BY <1>4, <1>8 DEF Age
<1>9. CASE WindowCloses
  BY <1>4, <1>9 DEF WindowCloses
<1> QED BY <1>4, <1>5, <1>6, <1>7, <1>8, <1>9 DEF Next

(* While the CRM answers, no run of the service and no retry turns a       *)
(* delivery recorded as sent back into one to be sent.                     *)
THEOREM ASentDeliveryStaysSent == Spec /\ []CrmAnswers => SentStaysSent
<1>1. Spec /\ []CrmAnswers => []IInv
  BY InitIsGood, NextIsGood, PTL DEF Spec
<1> QED BY <1>1, SentIsKept, PTL DEF Spec, SentStaysSent
=============================================================================
