--------------------------- MODULE CallRecordProofs ---------------------------
(***************************************************************************)
(* Theorems about CallRecord for any threads, requests and bounds.  The    *)
(* type invariant holds however many API instances share the row; that the *)
(* row is a CallLedger, and what follows from it, is proved for one        *)
(* instance, where the lock in its memory is the only one there is.        *)
(***************************************************************************)
EXTENDS CallRecord, TLAPS

(* All threads belong to one process, so they share one lock for the call. *)
SingleInstance == \A s, t \in Threads : InstanceOf[s] = InstanceOf[t]

-----------------------------------------------------------------------------
(* A call stays well-formed under every operation that is not refused.     *)

LEMMA AnnotatedType ==
  ASSUME NEW c \in Calls, NEW r \in [op: {"annotate"}, id: LineIds, words: Words, tone: Tones]
  PROVE  Annotated(c, r) \in Calls
  <1>1. ASSUME NEW l \in Line PROVE AnnotatedLine(l, r) \in Line
    BY <1>1 DEF AnnotatedLine, Line
  <1>2. {AnnotatedLine(l, r) : l \in c.lines} \in SUBSET Line
    BY <1>1 DEF Calls
  <1> QED BY <1>2 DEF Annotated, Calls

LEMMA ResumedType ==
  ASSUME NEW c \in Calls, NEW at \in Times
  PROVE  Resumed(c, at) \in Calls
  <1>1. CASE ~OnHold(c)
    BY <1>1 DEF Resumed
  <1>2. CASE OnHold(c)
    <2> DEFINE n == Len(c.holds)
    <2>1. c.holds \in Seq(HoldPeriod) /\ n \in 1..Len(c.holds)
      BY <1>2 DEF Calls, OnHold
    <2>2. c.holds[n] \in HoldPeriod
      BY <2>1
    <2> DEFINE end == IF at >= c.holds[n].startedAt THEN at ELSE c.holds[n].startedAt
    <2>3. end \in Times
      BY <2>2 DEF HoldPeriod
    <2>4. [c.holds[n] EXCEPT !.endedAt = end] \in HoldPeriod
      BY <2>2, <2>3 DEF HoldPeriod
    <2>5. [c.holds EXCEPT ![n] = [c.holds[n] EXCEPT !.endedAt = end]] \in Seq(HoldPeriod)
      BY <2>1, <2>4
    <2>6. Resumed(c, at) =
            [c EXCEPT !.holds = [c.holds EXCEPT ![n] = [c.holds[n] EXCEPT !.endedAt = end]]]
      BY <1>2 DEF Resumed
    <2> QED BY <2>5, <2>6 DEF Calls
  <1> QED BY <1>1, <1>2

LEMMA EndedType ==
  ASSUME NEW c \in Calls, NEW at \in Times
  PROVE  Ended(c, at) \in Calls /\ Completed(Ended(c, at)) /\ Ended(c, at).endTime = at
  BY ResumedType DEF Ended, Calls, Completed

LEMMA EffectType ==
  ASSUME NEW c \in Calls, NEW r \in Request
  PROVE  Effect(c, r) \in Calls
  <1>1. CASE r.op \in {"add", "continue"}
    <2>1. r.line \in Line /\ Effect(c, r) = Written(c, r.line)
      BY <1>1 DEF Request, Effect
    <2> QED BY <2>1 DEF Written, WithoutLine, Calls
  <1>2. CASE r.op = "replace"
    <2>1. r.lines \in SUBSET Line /\ Effect(c, r) = [c EXCEPT !.lines = r.lines]
      BY <1>2 DEF Request, Effect
    <2> QED BY <2>1 DEF Calls
  <1>3. CASE r.op = "annotate"
    <2>1. r \in [op: {"annotate"}, id: LineIds, words: Words, tone: Tones]
      BY <1>3 DEF Request
    <2> QED BY <1>3, <2>1, AnnotatedType DEF Effect
  <1>4. CASE r.op \in {"hold", "resume", "complete"}
    <2>1. r.at \in Times
      BY <1>4 DEF Request
    <2>2. CASE r.op = "hold"
      <3>1. [startedAt |-> r.at, endedAt |-> None] \in HoldPeriod
        BY <2>1 DEF HoldPeriod
      <3>2. Append(c.holds, [startedAt |-> r.at, endedAt |-> None]) \in Seq(HoldPeriod)
        BY <3>1 DEF Calls
      <3> QED BY <2>2, <3>2 DEF Effect, Held, Calls
    <2>3. CASE r.op = "resume"
      BY <2>1, <2>3, ResumedType DEF Effect
    <2>4. CASE r.op = "complete"
      BY <2>1, <2>4, EndedType DEF Effect
    <2> QED BY <1>4, <2>2, <2>3, <2>4
  <1>5. CASE r.op = "assign"
    <2>1. r.executive \in Executives /\ r.location \in Locations \cup {None}
      BY <1>5 DEF Request
    <2> QED BY <1>5, <2>1 DEF Effect, Assigned, Calls
  <1>6. r.op \in {"add", "continue", "replace", "annotate", "hold", "resume", "complete", "assign"}
    BY DEF Request
  <1> QED BY <1>1, <1>2, <1>3, <1>4, <1>5, <1>6

-----------------------------------------------------------------------------
(* What every step does to one thread: TypeOK with what a busy thread      *)
(* carries.                                                                *)
Carries(t) ==
    /\ pc[t] # "idle" => request[t] \in Requests
    /\ pc[t] = "saving" => copy[t] \in Calls

TypeInv == TypeOK /\ \A t \in Threads : Carries(t)

LEMMA InitType == Init => TypeInv
  BY CallRecordAssumption DEF Init, TypeInv, TypeOK, Carries, NoRequest

LEMMA LeaveType ==
  ASSUME TypeInv, NEW t \in Threads, Leave(t)
  PROVE  /\ lock' \in [Instances -> Threads \cup {None}]
         /\ pc' \in [Threads -> {"idle", "waiting", "locked", "saving"}]
         /\ request' \in [Threads -> Requests \cup {NoRequest}]
         /\ copy' \in [Threads -> Calls \cup {None}]
         /\ \A s \in Threads : Carries(s)'
  BY CallRecordAssumption DEF TypeInv, TypeOK, Carries, Leave

LEMMA NextType == TypeInv /\ [Next]_vars => TypeInv'
  <1> SUFFICES ASSUME TypeInv, [Next]_vars PROVE TypeInv'
    OBVIOUS
  <1> USE DEF TypeInv
  <1>1. CASE Create
    <2>1. \A e \in Executives \cup {None}, l \in Locations \cup {None} : NewCall(e, l) \in Calls
      BY DEF NewCall, Calls
    <2> QED BY <1>1, <2>1 DEF Create, TypeOK, Carries, control, history
  <1>2. ASSUME NEW t \in Threads, Begin(t) PROVE TypeInv'
    BY <1>2, CallRecordAssumption DEF Begin, TypeOK, Carries, history
  <1>3. ASSUME NEW t \in Threads, Acquire(t) PROVE TypeInv'
    BY <1>3, CallRecordAssumption DEF Acquire, TypeOK, Carries, history
  <1>4. ASSUME NEW t \in Threads, NotFound(t) \/ Refuse(t) \/ LeaveUnchanged(t) \/ SaveFails(t)
        PROVE TypeInv'
    <2>1. Leave(t) /\ UNCHANGED <<call, begun, crashes, added, completions>>
      BY <1>4 DEF NotFound, Refuse, LeaveUnchanged, SaveFails, history
    <2> QED BY <2>1, LeaveType DEF TypeOK
  <1>5. ASSUME NEW t \in Threads, Change(t) PROVE TypeInv'
    <2>1. call \in Calls /\ request[t] \in Request
      BY <1>5, CallRecordAssumption DEF Change, TypeOK, Carries
    <2>2. Effect(call, request[t]) \in Calls
      BY <2>1, EffectType
    <2> QED BY <1>5, <2>2 DEF Change, TypeOK, Carries, history
  <1>6. ASSUME NEW t \in Threads, Save(t) PROVE TypeInv'
    <2>1. Leave(t) /\ UNCHANGED <<begun, crashes>> /\ call' \in Calls
      BY <1>6 DEF Save, Carries
    <2>2. request[t] \in Request
      BY <1>6, CallRecordAssumption DEF Save, Carries
    <2>3. added' \in Seq(LineIds)
      <3>1. CASE request[t].op = "add"
        <4>1. request[t].line.id \in LineIds
          BY <2>2, <3>1 DEF Request, Line
        <4> QED BY <1>6, <3>1, <4>1 DEF Save, LineAdded, TypeOK
      <3> QED BY <1>6, <3>1 DEF Save, TypeOK
    <2>4. completions' \in Nat
      BY <1>6 DEF Save, TypeOK
    <2> QED BY <2>1, <2>3, <2>4, LeaveType DEF TypeOK
  <1>7. ASSUME NEW i \in Instances, Crash(i) PROVE TypeInv'
    BY <1>7, CallRecordAssumption DEF Crash, TypeOK, Carries, history
  <1>8. CASE UNCHANGED vars
    BY <1>8 DEF vars, TypeOK, Carries
  <1> QED
    BY <1>1, <1>2, <1>3, <1>4, <1>5, <1>6, <1>7, <1>8 DEF Next, Proceed

(* Every variable keeps to its domain, however many instances and threads  *)
(* write the call.                                                         *)
THEOREM TypeCorrect == Spec => []TypeOK
  <1>1. TypeInv => TypeOK
    BY DEF TypeInv
  <1> QED BY <1>1, InitType, NextType, PTL DEF Spec

-----------------------------------------------------------------------------
(* What one operation, applied to the call as it is, keeps of it.          *)

(* An operation that is not a completion leaves status and end time alone, *)
(* and a completion is only applied to an active call.                     *)
LEMMA EffectKeepsCompletion ==
  ASSUME NEW c \in Calls, NEW r \in Request, Saves(c, r)
  PROVE  /\ r.op = "complete" => Completed(Effect(c, r))
         /\ Completed(c) => /\ Completed(Effect(c, r))
                            /\ Effect(c, r).endTime = c.endTime
  <1>1. CASE r.op = "complete"
    <2>1. r.at \in Times
      BY <1>1 DEF Request
    <2> QED BY <1>1, <2>1, EndedType DEF Effect, Saves
  <1>2. CASE r.op = "resume"
    BY <1>2 DEF Effect, Resumed, Calls, Completed
  <1>3. CASE r.op \notin {"complete", "resume"}
    <2>1. r.op \in {"add", "continue", "replace", "annotate", "hold", "assign"}
      BY <1>3 DEF Request
    <2> QED BY <2>1
            DEF Effect, Written, Annotated, Held, Assigned, Calls, Completed
  <1> QED BY <1>1, <1>2, <1>3

(* Only replace_transcript removes a line, and an added line is there.     *)
LEMMA EffectKeepsLines ==
  ASSUME NEW c \in Calls, NEW r \in Request
  PROVE  /\ r.op # "replace" => LineIdsOf(c) \subseteq LineIdsOf(Effect(c, r))
         /\ r.op = "add" => r.line.id \in LineIdsOf(Effect(c, r))
  <1>1. CASE r.op \in {"add", "continue"}
    <2>1. Effect(c, r).lines = {l \in c.lines : l.id # r.line.id} \cup {r.line}
      BY <1>1 DEF Effect, Written, WithoutLine, Calls
    <2> QED BY <2>1 DEF LineIdsOf
  <1>2. CASE r.op = "annotate"
    <2>1. Effect(c, r).lines = {AnnotatedLine(l, r) : l \in c.lines}
      BY <1>2 DEF Effect, Annotated, Calls
    <2>2. \A l \in c.lines : AnnotatedLine(l, r).id = l.id
      BY DEF AnnotatedLine, Calls, Line
    <2> QED BY <1>2, <2>1, <2>2 DEF LineIdsOf
  <1>3. CASE r.op \in {"hold", "resume", "complete", "assign"}
    <2>1. Effect(c, r).lines = c.lines
      BY <1>3 DEF Effect, Held, Resumed, Ended, Assigned, Calls
    <2> QED BY <1>3, <2>1 DEF LineIdsOf
  <1>4. r.op \in {"add", "continue", "replace", "annotate", "hold", "resume", "complete", "assign"}
    BY DEF Request
  <1> QED BY <1>1, <1>2, <1>3, <1>4

(* On a completed call every operation but replace_transcript leaves the   *)
(* words alone or is refused.                                              *)
LEMMA EffectKeepsWords ==
  ASSUME NEW c \in Calls, NEW r \in Request, ~Refused(c, r), Completed(c),
         r.op # "replace"
  PROVE  WordsOf(Effect(c, r)) = WordsOf(c)
  <1>1. r.op \in {"annotate", "resume", "complete", "assign"}
    BY DEF Refused, AddRefused, ContinueRefused, HoldRefused, Request
  <1>2. CASE r.op = "annotate"
    <2>1. Effect(c, r).lines = {AnnotatedLine(l, r) : l \in c.lines}
      BY <1>2 DEF Effect, Annotated, Calls
    <2>2. \A l \in c.lines : /\ AnnotatedLine(l, r).id = l.id
                             /\ AnnotatedLine(l, r).start = l.start
                             /\ AnnotatedLine(l, r).words = l.words
      BY DEF AnnotatedLine, Calls, Line
    <2> QED BY <2>1, <2>2 DEF WordsOf
  <1>3. CASE r.op \in {"resume", "complete", "assign"}
    <2>1. Effect(c, r).lines = c.lines
      BY <1>3 DEF Effect, Resumed, Ended, Assigned, Calls
    <2> QED BY <2>1 DEF WordsOf
  <1> QED BY <1>1, <1>2, <1>3

OnlyLastHoldOpen(c) ==
    \A i \in DOMAIN c.holds :
        c.holds[i].endedAt = None => i = Len(c.holds) /\ ~Completed(c)

LEMMA ResumedClosesHolds ==
  ASSUME NEW c \in Calls, NEW at \in Times, OnlyLastHoldOpen(c)
  PROVE  /\ Resumed(c, at).holds \in Seq(HoldPeriod)
         /\ \A i \in DOMAIN Resumed(c, at).holds : Resumed(c, at).holds[i].endedAt # None
  <1>0. Resumed(c, at).holds \in Seq(HoldPeriod)
    BY ResumedType DEF Calls
  <1>1. CASE ~OnHold(c)
    BY <1>0, <1>1 DEF Resumed, OnHold, OnlyLastHoldOpen, Calls
  <1>2. CASE OnHold(c)
    <2> DEFINE n == Len(c.holds)
               last == c.holds[n]
               end == IF at >= last.startedAt THEN at ELSE last.startedAt
    <2>1. c.holds \in Seq(HoldPeriod) /\ n \in DOMAIN c.holds /\ last \in HoldPeriod
      BY <1>2 DEF Calls, OnHold
    <2>2. end \in Times /\ end # None
      BY <2>1, ConversationAssumption DEF HoldPeriod
    <2>3. Resumed(c, at).holds = [c.holds EXCEPT ![n] = [last EXCEPT !.endedAt = end]]
      BY <1>2 DEF Resumed, Calls
    <2>4. [last EXCEPT !.endedAt = end].endedAt = end
      BY <2>1 DEF HoldPeriod
    <2>5. \A i \in DOMAIN c.holds : i # n => c.holds[i].endedAt # None
      BY DEF OnlyLastHoldOpen
    <2>6. ASSUME NEW i \in DOMAIN c.holds
          PROVE  [c.holds EXCEPT ![n] = [last EXCEPT !.endedAt = end]][i].endedAt # None
      <3>1. CASE i = n
        BY <2>1, <2>2, <2>4, <3>1
      <3>2. CASE i # n
        BY <2>5, <3>2
      <3> QED BY <3>1, <3>2
    <2> HIDE DEF n, last, end
    <2> QED BY <1>0, <2>3, <2>6
  <1> QED BY <1>1, <1>2

LEMMA EffectClosesHolds ==
  ASSUME NEW c \in Calls, NEW r \in Request, ~Refused(c, r), Saves(c, r),
         OnlyLastHoldOpen(c)
  PROVE  OnlyLastHoldOpen(Effect(c, r))
  <1>1. CASE r.op \in {"add", "continue", "replace", "annotate", "assign"}
    <2>1. Effect(c, r).holds = c.holds /\ Effect(c, r).status = c.status
      BY <1>1 DEF Effect, Written, Annotated, Assigned, Calls
    <2> QED BY <2>1 DEF OnlyLastHoldOpen, Completed
  <1>2. CASE r.op \in {"resume", "complete"}
    <2>1. r.at \in Times
      BY <1>2 DEF Request
    <2>2. Effect(c, r).holds = Resumed(c, r.at).holds
      BY <1>2, <2>1, ResumedType DEF Effect, Ended, Calls
    <2> QED BY <2>1, <2>2, ResumedClosesHolds DEF OnlyLastHoldOpen
  <1>3. CASE r.op = "hold"
    <2>1. ~Completed(c) /\ ~OnHold(c) /\ c.holds \in Seq(HoldPeriod) /\ r.at \in Times
      BY <1>3 DEF Refused, HoldRefused, Saves, Request, Calls
    <2> DEFINE new == [startedAt |-> r.at, endedAt |-> None]
    <2>2. /\ Effect(c, r).holds = Append(c.holds, new)
          /\ Effect(c, r).status = c.status
      BY <1>3 DEF Effect, Held, Calls
    <2>3. new \in HoldPeriod
      BY <2>1 DEF HoldPeriod
    <2>4. \A i \in DOMAIN c.holds : c.holds[i].endedAt # None
      BY <2>1 DEF OnlyLastHoldOpen, OnHold
    <2> HIDE DEF new
    <2>5. \A i \in DOMAIN Append(c.holds, new) :
             i # Len(Append(c.holds, new)) => Append(c.holds, new)[i].endedAt # None
      BY <2>1, <2>3, <2>4
    <2> QED BY <2>1, <2>2, <2>5 DEF OnlyLastHoldOpen, Completed
  <1>4. r.op \in {"add", "continue", "replace", "annotate", "hold", "resume", "complete", "assign"}
    BY DEF Request
  <1> QED BY <1>1, <1>2, <1>3, <1>4

-----------------------------------------------------------------------------
(* The inductive invariant of one instance: whoever is inside the lock     *)
(* owns it, and what a thread is about to write is its operation applied   *)
(* to the row as it is now.  The rest is what the history variables say.   *)
LockOwned ==
    \A t \in Threads : pc[t] \in {"locked", "saving"} => lock[InstanceOf[t]] = t

CopyCurrent ==
    \A t \in Threads : pc[t] = "saving" =>
        /\ call # None
        /\ ~Refused(call, request[t])
        /\ Saves(call, request[t])
        /\ copy[t] = Effect(call, request[t])

CompletionsCounted ==
    /\ completions <= 1
    /\ completions # 0 => call # None /\ Completed(call)

HoldsInv == call # None => OnlyLastHoldOpen(call)

AddedNeedCall == call = None => added = <<>>

IInv ==
    /\ TypeInv
    /\ LockOwned
    /\ CopyCurrent
    /\ CompletionsCounted
    /\ HoldsInv
    /\ AddedNeedCall
    /\ AcceptedLinesKept

LEMMA InitIInv == Init => IInv
  BY InitType, CallRecordAssumption
     DEF Init, IInv, LockOwned, CopyCurrent, CompletionsCounted, HoldsInv,
         AddedNeedCall, AcceptedLinesKept

(* Inside the lock a thread is alone.                                      *)
LEMMA Alone ==
  ASSUME SingleInstance, TypeInv, LockOwned,
         NEW s \in Threads, pc[s] \in {"locked", "saving"},
         NEW t \in Threads, pc[t] \in {"locked", "saving"}
  PROVE  s = t
  BY DEF SingleInstance, LockOwned

LEMMA LeaveKeepsLock ==
  ASSUME SingleInstance, TypeInv, LockOwned, CopyCurrent,
         NEW t \in Threads, pc[t] \in {"locked", "saving"}, Leave(t)
  PROVE  LockOwned' /\ \A s \in Threads : pc'[s] # "saving"
  <1>1. ASSUME NEW s \in Threads, pc'[s] \in {"locked", "saving"} PROVE FALSE
    BY <1>1, Alone DEF Leave, TypeInv, TypeOK
  <1> QED BY <1>1 DEF LockOwned

LEMMA SaveApplies ==
  ASSUME IInv, NEW t \in Threads, Save(t)
  PROVE  /\ call \in Calls /\ call # None
         /\ request[t] \in Requests /\ request[t] \in Request
         /\ ~Refused(call, request[t])
         /\ Saves(call, request[t])
         /\ call' = Effect(call, request[t])
         /\ call' \in Calls /\ call' # None
  <1>1. /\ call \in Calls /\ call # None
        /\ request[t] \in Requests /\ request[t] \in Request
        /\ ~Refused(call, request[t])
        /\ Saves(call, request[t])
        /\ call' = Effect(call, request[t])
    BY CallRecordAssumption DEF IInv, TypeInv, TypeOK, Carries, CopyCurrent, Save
  <1> QED BY <1>1, EffectType, ConversationAssumption

LEMMA SaveKeepsIInv ==
  ASSUME SingleInstance, IInv, TypeInv', NEW t \in Threads, Save(t)
  PROVE  IInv'
  <1> DEFINE r == request[t]
  <1>1. /\ call \in Calls /\ call # None /\ r \in Request
        /\ ~Refused(call, r) /\ Saves(call, r)
        /\ call' = Effect(call, r) /\ call' \in Calls /\ call' # None
    BY SaveApplies
  <1>2. LockOwned' /\ CopyCurrent'
    BY LeaveKeepsLock DEF Save, IInv, CopyCurrent
  <1>3. CompletionsCounted'
    <2>1. r.op = "complete" => completions = 0 /\ ~Completed(call)
      BY <1>1 DEF Saves, IInv, CompletionsCounted, TypeInv, TypeOK
    <2>2. /\ completions' = IF r.op = "complete" THEN completions + 1 ELSE completions
          /\ completions \in Nat
      BY DEF Save, IInv, TypeInv, TypeOK
    <2> HIDE DEF r
    <2> QED BY <1>1, <2>1, <2>2, EffectKeepsCompletion DEF IInv, CompletionsCounted
  <1>4. HoldsInv'
    BY <1>1, EffectClosesHolds DEF IInv, HoldsInv
  <1>5. AddedNeedCall'
    BY <1>1 DEF AddedNeedCall
  <1>6. AcceptedLinesKept'
    <2>1. Range(added) \subseteq LineIdsOf(call) /\ added \in Seq(LineIds)
      BY <1>1 DEF IInv, AcceptedLinesKept, TypeInv, TypeOK
    <2>2. CASE r.op = "replace"
      <3>1. added' = <<>>
        BY <2>2 DEF Save
      <3> QED BY <3>1 DEF AcceptedLinesKept, Range
    <2>3. CASE r.op = "add"
      <3>1. r.line.id \in LineIds
        BY <1>1, <2>3 DEF Request, Line
      <3>2. added' = LineAdded(r.line.id)
        BY <2>3 DEF Save
      <3>3. Range(added') \subseteq Range(added) \cup {r.line.id}
        BY <2>1, <3>1, <3>2 DEF LineAdded, Range
      <3> QED BY <1>1, <2>1, <2>3, <3>3, EffectKeepsLines DEF AcceptedLinesKept
    <2>4. CASE r.op \notin {"add", "replace"}
      <3>1. added' = added
        BY <2>4 DEF Save
      <3> QED BY <1>1, <2>1, <2>4, <3>1, EffectKeepsLines DEF AcceptedLinesKept
    <2> QED BY <2>2, <2>3, <2>4
  <1> QED BY <1>2, <1>3, <1>4, <1>5, <1>6 DEF IInv

LEMMA NextIInv == SingleInstance /\ IInv /\ [Next]_vars => IInv'
  <1> SUFFICES ASSUME SingleInstance, IInv, [Next]_vars PROVE IInv'
    OBVIOUS
  <1>0. TypeInv'
    BY NextType DEF IInv
  <1> DEFINE Rest == /\ CompletionsCounted
                     /\ HoldsInv
                     /\ AddedNeedCall
                     /\ AcceptedLinesKept
  <1>a. UNCHANGED <<call, added, completions>> => Rest'
    BY DEF IInv, CompletionsCounted, HoldsInv, OnlyLastHoldOpen, AddedNeedCall,
           AcceptedLinesKept
  <1>1. CASE Create
    <2>1. LockOwned' /\ CopyCurrent'
      BY <1>1 DEF Create, IInv, LockOwned, CopyCurrent, control
    <2>2. call = None /\ added = <<>> /\ added' = added /\ completions' = completions
      BY <1>1 DEF Create, IInv, AddedNeedCall, history
    <2>3. call' # None => OnlyLastHoldOpen(call')
      BY <1>1 DEF Create, NewCall, OnlyLastHoldOpen
    <2>4. Range(added') = {}
      BY <2>2 DEF Range
    <2>5. Rest'
      BY <2>2, <2>3, <2>4
         DEF IInv, CompletionsCounted, HoldsInv, AddedNeedCall, AcceptedLinesKept
    <2> QED BY <1>0, <2>1, <2>5 DEF IInv
  <1>2. ASSUME NEW t \in Threads, Begin(t) PROVE IInv'
    <2>1. LockOwned' /\ CopyCurrent'
      BY <1>2 DEF Begin, IInv, TypeInv, TypeOK, LockOwned, CopyCurrent
    <2> QED BY <1>0, <1>a, <1>2, <2>1 DEF Begin, history, IInv
  <1>3. ASSUME NEW t \in Threads, Acquire(t) PROVE IInv'
    <2>1. \A s \in Threads : pc[s] \notin {"locked", "saving"}
      BY <1>3, CallRecordAssumption DEF Acquire, IInv, LockOwned, SingleInstance
    <2>2. LockOwned' /\ CopyCurrent'
      BY <1>3, <2>1, CallRecordAssumption
         DEF Acquire, IInv, TypeInv, TypeOK, LockOwned, CopyCurrent
    <2> QED BY <1>0, <1>a, <1>3, <2>2 DEF Acquire, history, IInv
  <1>4. ASSUME NEW t \in Threads, NotFound(t) \/ Refuse(t) \/ LeaveUnchanged(t) \/ SaveFails(t)
        PROVE IInv'
    <2>1. /\ Leave(t) /\ pc[t] \in {"locked", "saving"}
          /\ UNCHANGED <<call, added, completions>>
      BY <1>4 DEF NotFound, Refuse, LeaveUnchanged, SaveFails, history
    <2>2. LockOwned' /\ CopyCurrent'
      BY <2>1, LeaveKeepsLock DEF IInv, CopyCurrent
    <2> QED BY <1>0, <1>a, <2>1, <2>2 DEF IInv
  <1>5. ASSUME NEW t \in Threads, Change(t) PROVE IInv'
    <2>1. LockOwned'
      BY <1>5 DEF Change, IInv, TypeInv, TypeOK, LockOwned
    <2>2. \A s \in Threads : pc[s] # "saving"
      BY <1>5, Alone DEF Change, IInv
    <2>3. CopyCurrent'
      BY <1>5, <2>2 DEF Change, IInv, TypeInv, TypeOK, CopyCurrent
    <2> QED BY <1>0, <1>a, <1>5, <2>1, <2>3 DEF Change, history, IInv
  <1>6. ASSUME NEW t \in Threads, Save(t) PROVE IInv'
    BY <1>0, <1>6, SaveKeepsIInv
  <1>7. ASSUME NEW i \in Instances, Crash(i) PROVE IInv'
    <2>1. LockOwned' /\ CopyCurrent'
      BY <1>7, CallRecordAssumption
         DEF Crash, IInv, TypeInv, TypeOK, LockOwned, CopyCurrent
    <2> QED BY <1>0, <1>a, <1>7, <2>1 DEF Crash, history, IInv
  <1>8. CASE UNCHANGED vars
    <2>1. LockOwned' /\ CopyCurrent'
      BY <1>8 DEF vars, IInv, LockOwned, CopyCurrent
    <2> QED BY <1>0, <1>a, <1>8, <2>1 DEF vars, IInv
  <1> QED
    BY <1>1, <1>2, <1>3, <1>4, <1>5, <1>6, <1>7, <1>8 DEF Next, Proceed

LEMMA Inductive ==
  ASSUME SingleInstance
  PROVE  Spec => []IInv
  <1>1. IInv /\ [Next]_vars => IInv'
    BY NextIInv
  <1> QED BY InitIInv, <1>1, PTL DEF Spec

-----------------------------------------------------------------------------
(* The results for one instance.                                           *)

(* No operation's write drops a line another one added.                    *)
THEOREM LinesAreKept ==
  ASSUME SingleInstance
  PROVE  Spec => []AcceptedLinesKept
  <1>1. IInv => AcceptedLinesKept
    BY DEF IInv
  <1> QED BY <1>1, Inductive, PTL

(* At most one completion is answered completed_now.                       *)
THEOREM CompletesOnce ==
  ASSUME SingleInstance
  PROVE  Spec => []CompletedOnce
  <1>1. IInv => CompletedOnce
    BY DEF IInv, CompletionsCounted, CompletedOnce
  <1> QED BY <1>1, Inductive, PTL

(* A completed call has no open hold.                                      *)
THEOREM HoldsAreClosed ==
  ASSUME SingleInstance
  PROVE  Spec => []HoldsClosed
  <1>1. IInv => HoldsClosed
    BY DEF IInv, HoldsInv, OnlyLastHoldOpen, HoldsClosed
  <1> QED BY <1>1, Inductive, PTL

(* The row only moves by the insert or by one thread's save.               *)
LEMMA CallMoves ==
  ASSUME [Next]_vars, call' # call
  PROVE  Create \/ \E t \in Threads : Save(t)
  BY DEF Next, Proceed, Begin, Acquire, NotFound, Refuse, LeaveUnchanged, Change,
         SaveFails, Crash, vars

(* A completed call stays completed, with its end time.                    *)
THEOREM CompletionIsFinal ==
  ASSUME SingleInstance
  PROVE  Spec => CompletedIsFinal
  <1>1. IInv /\ [Next]_vars =>
          [call # None /\ Completed(call) =>
             call' # None /\ Completed(call') /\ call'.endTime = call.endTime]_call
    <2> SUFFICES ASSUME IInv, [Next]_vars, call' # call, call # None, Completed(call)
                 PROVE  call' # None /\ Completed(call') /\ call'.endTime = call.endTime
      OBVIOUS
    <2>1. PICK t \in Threads : Save(t)
      BY CallMoves DEF Create
    <2> QED BY <2>1, SaveApplies, EffectKeepsCompletion
  <1> QED BY <1>1, Inductive, PTL DEF Spec, CompletedIsFinal

(* After completion the words change only by replace_transcript.           *)
THEOREM TranscriptIsFrozen ==
  ASSUME SingleInstance
  PROVE  Spec => TranscriptFrozen
  <1>1. IInv /\ [Next]_vars =>
          [call # None /\ call' # None /\ Completed(call) =>
             \/ WordsOf(call') = WordsOf(call)
             \/ \E t \in Threads : pc[t] = "saving" /\ request[t].op = "replace"]_call
    <2> SUFFICES ASSUME IInv, [Next]_vars, call' # call, call # None, Completed(call),
                        ~ \E t \in Threads : pc[t] = "saving" /\ request[t].op = "replace"
                 PROVE  WordsOf(call') = WordsOf(call)
      OBVIOUS
    <2>1. PICK t \in Threads : Save(t)
      BY CallMoves DEF Create
    <2>2. request[t].op # "replace"
      BY <2>1 DEF Save
    <2> QED BY <2>1, <2>2, SaveApplies, EffectKeepsWords
  <1> QED BY <1>1, Inductive, PTL DEF Spec, TranscriptFrozen

-----------------------------------------------------------------------------
(* With one instance the locked read - change - write is as good as an     *)
(* atomic operation on the row.                                            *)

LEMMA SameOperations ==
  ASSUME NEW c, NEW r
  PROVE  /\ Ledger!Refused(c, r) <=> Refused(c, r)
         /\ Ledger!Saves(c, r) <=> Saves(c, r)
         /\ Ledger!Effect(c, r) = Effect(c, r)
  <1>1. Ledger!Refused(c, r) <=> Refused(c, r)
    BY DEF Ledger!Refused, Ledger!AddRefused, Ledger!ContinueRefused,
           Ledger!ReplaceRefused, Ledger!HoldRefused, Ledger!CompleteRefused,
           Ledger!OnHold, Ledger!Completed, Ledger!StartsBeforeAny, Ledger!IsLatest,
           Ledger!Before, Ledger!WithoutLine,
           Refused, AddRefused, ContinueRefused, ReplaceRefused, HoldRefused,
           CompleteRefused, OnHold, Completed, StartsBeforeAny, IsLatest, Before,
           WithoutLine
  <1>2. Ledger!Annotated(c, r) = Annotated(c, r)
    BY DEF Ledger!Annotated, Ledger!AnnotatedLine, Annotated, AnnotatedLine
  <1>3. Ledger!Saves(c, r) <=> Saves(c, r)
    BY <1>2 DEF Ledger!Saves, Ledger!OnHold, Ledger!Completed, Saves, OnHold, Completed
  <1>4. \A at : Ledger!Resumed(c, at) = Resumed(c, at)
    BY DEF Ledger!Resumed, Ledger!OnHold, Resumed, OnHold
  <1>5. \A line : Ledger!Written(c, line) = Written(c, line)
    BY DEF Ledger!Written, Ledger!WithoutLine, Written, WithoutLine
  <1>6. \A at : Ledger!Ended(c, at) = Ended(c, at)
    BY <1>4 DEF Ledger!Ended, Ended
  <1>7. \A at : Ledger!Held(c, at) = Held(c, at)
    BY DEF Ledger!Held, Held
  <1>8. Ledger!Assigned(c, r) = Assigned(c, r)
    BY DEF Ledger!Assigned, Assigned
  <1>9. Ledger!Effect(c, r) = Effect(c, r)
    BY <1>2, <1>4, <1>5, <1>6, <1>7, <1>8 DEF Ledger!Effect, Effect
  <1> QED BY <1>1, <1>3, <1>9

THEOREM RowIsALedger ==
  ASSUME SingleInstance
  PROVE  Spec => ImplementsLedger
  <1>1. Init => Ledger!Init
    BY DEF Init, Ledger!Init
  <1>2. IInv /\ [Next]_vars => [Ledger!Next]_call
    <2> SUFFICES ASSUME IInv, [Next]_vars, call' # call PROVE Ledger!Next
      OBVIOUS
    <2>1. CASE Create
      BY <2>1 DEF Create, Ledger!Next, Ledger!Create, NewCall, Ledger!NewCall
    <2>2. ASSUME NEW t \in Threads, Save(t) PROVE Ledger!Next
      <3>1. Ledger!Apply(request[t]) /\ request[t] \in Requests
        BY <2>2, SaveApplies, SameOperations DEF Ledger!Apply
      <3> QED BY <3>1 DEF Ledger!Next
    <2> QED BY <2>1, <2>2, CallMoves
  <1> QED BY <1>1, <1>2, Inductive, PTL DEF Spec, ImplementsLedger, Ledger!Spec
=============================================================================
