----------------------------- MODULE PostCallProofs -----------------------------
(* Proofs about the processing of a completed call.                         *)
EXTENDS PostCall, TLAPS

-----------------------------------------------------------------------------
(* The inductive invariant: what a run holds in its hands at each stage.    *)
AttemptStages == {"remember", "look", "revise", "analyse", "closeout", "summarise",
                  "store", "deliver", "settle"}

(* An attempt of the repair service is counted in the copy it will write.   *)
AttemptIsCounted ==
    \A t \in Sweepers \cup Hands :
        /\ at[t] \in AttemptStages => copy[t] \in States /\ copy[t].attempts >= 1
        /\ at[t] = "renew" => copy[t] \in States /\ copy[t].attempts < MaxAttempts

(* A run that drafts a summary has stored its analysis first, and one that  *)
(* delivers has the stored summary in hand.                                 *)
DraftIsBacked ==
    \A t \in Threads :
        /\ at[t] = "analyse" => spoken
        /\ at[t] \in {"closeout", "summarise", "store"} =>
              spoken /\ "coverage" \in done /\ draft[t] \in Summaries
        /\ at[t] = "deliver" => summary # None /\ draft[t] = summary

Inv ==
    /\ TypeOK
    /\ AttemptIsCounted
    /\ DraftIsBacked
    /\ SummaryRestsOnAnalysis
    /\ OnlyTheStoredIsHanded

LEMMA Facts ==
    /\ None \notin Summaries
    /\ None \notin States
    /\ None \notin Threads
    /\ MaxAttempts \in Nat /\ MaxAttempts >= 1
    /\ LimitTries \in Nat /\ LimitTries >= 1
    /\ \A t \in Threads : Here(t) \in Instances
  BY PostCallAssumption, NoneIsNothing DEF Summaries, States, Here

LEMMA InvInit == Init => Inv
<1> SUFFICES ASSUME Init PROVE Inv
  OBVIOUS
<1>1. TypeOK
  <2>1. /\ spoken \in BOOLEAN /\ live \in BOOLEAN /\ toned \in BOOLEAN
        /\ done = {} /\ handed = {} /\ summary = None /\ lock = None /\ repair = None
        /\ ripe = FALSE /\ paused = FALSE
        /\ mishaps \in 0..MaxMishaps /\ retries \in 0..MaxRetries
    BY PostCallAssumption DEF Init
  <2>2. /\ remembered \in [Instances -> BOOLEAN] /\ waits \in [Instances -> BOOLEAN]
        /\ at \in [Threads -> Stages] /\ tries \in [Threads -> 0..LimitTries - 1]
    BY Facts DEF Init, Stages
  <2>3. /\ draft \in [Threads -> Summaries \cup {None}]
        /\ copy \in [Threads -> States \cup {None}]
        /\ result \in [Threads -> {"none", "summary", "failed", "limited"}]
    BY DEF Init
  <2> QED BY <2>1, <2>2, <2>3 DEF TypeOK
<1>2. \A t \in Sweepers \cup Hands : at[t] = "resting"
  BY ThreadsAreDistinct DEF Init, Threads
<1>3. AttemptIsCounted
  BY <1>2 DEF AttemptIsCounted, AttemptStages
<1>4. \A t \in Threads : at[t] \in {"remember", "resting"}
  BY DEF Init
<1>5. DraftIsBacked
  BY <1>4 DEF DraftIsBacked
<1>6. SummaryRestsOnAnalysis /\ OnlyTheStoredIsHanded
  BY DEF Init, SummaryRestsOnAnalysis, OnlyTheStoredIsHanded
<1> QED BY <1>1, <1>3, <1>5, <1>6 DEF Inv

(* A run that returns leaves its locals empty.                              *)
LEMMA Returned ==
    ASSUME TypeOK, NEW t \in Threads, NEW how \in {"summary", "failed", "limited"}, Return(t, how)
    PROVE  /\ at' \in [Threads -> Stages]
           /\ result' \in [Threads -> {"none", "summary", "failed", "limited"}]
           /\ tries' \in [Threads -> 0..LimitTries - 1]
           /\ draft' \in [Threads -> Summaries \cup {None}]
  BY Facts DEF Return, Move, TypeOK, Stages

LEMMA AbandonTypes ==
    ASSUME TypeOK, NEW t \in Threads, Abandon(t)
    PROVE  TypeOK'
<1>1. CASE Return(t, "failed") /\ UNCHANGED waits
  BY <1>1, Returned DEF Abandon, TypeOK, database, store, bounds
<1>2. CASE Return(t, "limited") /\ waits' = [waits EXCEPT ![Here(t)] = TRUE]
  BY <1>2, Returned DEF Abandon, TypeOK, database, store, bounds
<1> QED BY <1>1, <1>2 DEF Abandon

LEMMA TypeStep == Inv /\ [Next]_vars => TypeOK'
<1> SUFFICES ASSUME Inv, [Next]_vars PROVE TypeOK'
  OBVIOUS
<1> USE Facts, PostCallAssumption DEF Inv, TypeOK, Stages, Move, database, store, memory, locals, bounds
<1>1. ASSUME NEW t \in Threads, Remember(t) PROVE TypeOK'
  BY <1>1 DEF Remember
<1>2. ASSUME NEW t \in Threads, Look(t) PROVE TypeOK'
  <2>1. CASE summary # None
    BY <1>2, <2>1, Returned DEF Look
  <2>2. CASE summary = None
    BY <1>2, <2>2 DEF Look
  <2> QED BY <2>1, <2>2
<1>3. ASSUME NEW t \in Threads, Revise(t) PROVE TypeOK'
  <2>1. PICK heard \in BOOLEAN :
          /\ spoken' = heard
          /\ IF heard
             THEN Move(t, "analyse") /\ UNCHANGED <<tries, draft, result>>
             ELSE Return(t, "failed")
    BY <1>3 DEF Revise
  <2>2. CASE heard
    BY <1>3, <2>1, <2>2 DEF Revise
  <2>3. CASE ~heard
    BY <1>3, <2>1, <2>3, Returned DEF Revise
  <2> QED BY <2>2, <2>3
<1>4. ASSUME NEW t \in Threads, Analyse(t) PROVE TypeOK'
  <2>1. CASE Analysed(t)
    BY <2>1 DEF Analysed, Summaries
  <2>2. CASE Wait(t)
    BY <2>2 DEF Wait
  <2>3. CASE Abandon(t)
    BY <2>3, AbandonTypes
  <2> QED BY <1>4, <2>1, <2>2, <2>3 DEF Analyse
<1>5. ASSUME NEW t \in Threads, CloseOut(t) PROVE TypeOK'
  BY <1>5 DEF CloseOut
<1>6. ASSUME NEW t \in Threads, Summarise(t) PROVE TypeOK'
  <2>1. CASE Summarised(t)
    BY <2>1 DEF Summarised
  <2>2. CASE Wait(t)
    BY <2>2 DEF Wait
  <2>3. CASE Abandon(t)
    BY <2>3, AbandonTypes
  <2> QED BY <1>6, <2>1, <2>2, <2>3 DEF Summarise
<1>7. ASSUME NEW t \in Threads, Store(t) PROVE TypeOK'
  <2>1. CASE Return(t, "failed") /\ UNCHANGED <<summary, remembered>>
    BY <1>7, <2>1, Returned DEF Store
  <2>2. CASE ~(Return(t, "failed") /\ UNCHANGED <<summary, remembered>>)
    <3>1. draft[t] \in Summaries /\ summary' \in Summaries
      BY <1>7, <2>2 DEF Store, DraftIsBacked
    <3>2. /\ draft' = [draft EXCEPT ![t] = summary']
          /\ remembered' = [remembered EXCEPT ![Here(t)] = FALSE]
          /\ Move(t, "deliver") /\ UNCHANGED <<tries, result>>
      BY <1>7, <2>2 DEF Store
    <3>3. UNCHANGED <<spoken, done, handed, store, waits, copy, bounds>>
      BY <1>7 DEF Store
    <3> QED BY <3>1, <3>2, <3>3
  <2> QED BY <2>1, <2>2
<1>8. ASSUME NEW t \in Threads, Deliver(t) PROVE TypeOK'
  BY <1>8, Returned DEF Deliver, DraftIsBacked
<1>9. ASSUME NEW t \in Sweepers, Acquire(t) PROVE TypeOK'
  BY <1>9 DEF Acquire, Threads
<1>10. ASSUME NEW t \in Threads, Scan(t) PROVE TypeOK'
  BY <1>10 DEF Scan
<1>11. State \in States
  BY DEF State, FreshState, States
<1>12. ASSUME NEW t \in Threads, Load(t) PROVE TypeOK'
  BY <1>11, <1>12 DEF Load
<1>13. ASSUME NEW t \in Sweepers, Renew(t) PROVE TypeOK'
  <2>1. CASE lock = t
    <3>1. [copy[t] EXCEPT !.attempts = copy[t].attempts + 1] \in States
      BY <1>13 DEF Renew, AttemptIsCounted, States
    <3>2. copy' = [copy EXCEPT ![t] = [copy[t] EXCEPT !.attempts = copy[t].attempts + 1]]
      BY <1>13, <2>1 DEF Renew
    <3>3. copy' \in [Threads -> States \cup {None}]
      BY <3>1, <3>2
    <3> QED BY <1>13, <2>1, <3>3 DEF Renew, Threads
  <2>2. CASE lock # t
    BY <1>13, <2>2 DEF Renew, Threads
  <2> QED BY <2>1, <2>2
<1>14. ASSUME NEW t \in Sweepers \cup Hands, Settle(t) PROVE TypeOK'
  <2>1. copy[t] \in States /\ copy[t].attempts >= 1
    BY <1>14 DEF Settle, AttemptIsCounted, AttemptStages
  <2>2. Since(t) \in {"recent", "long"}
    BY <2>1 DEF Since, States
  <2>3. repair' \in States \cup {None} /\ paused' \in BOOLEAN
    <3>1. [copy[t] EXCEPT !.since = "never"] \in States
      BY <2>1 DEF States
    <3>2. [attempts |-> MaxAttempts, since |-> "long"] \in States
      BY DEF States
    <3>3. [attempts |-> copy[t].attempts - 1, since |-> Since(t)] \in States
      BY <2>1, <2>2 DEF States
    <3> QED BY <1>14, <3>1, <3>2, <3>3 DEF Settle
  <2> QED BY <1>14, <2>3 DEF Settle, Threads
<1>15. ASSUME NEW t \in Threads, Release(t) PROVE TypeOK'
  BY <1>15 DEF Release
<1>16. ASSUME NEW t \in Hands, Retry(t) PROVE TypeOK'
  BY <1>11, <1>16 DEF Retry, Threads, States
<1>17. CASE Ripen \/ PauseEnds \/ LockExpires \/ GiveUpIsForgotten
  BY <1>17 DEF Ripen, PauseEnds, LockExpires, GiveUpIsForgotten
<1>18a. CASE LockIsLost
  BY <1>18a DEF LockIsLost
<1>18. CASE Day
  BY <1>18 DEF Day, Older, States
<1>19. ASSUME NEW i \in Instances, Crash(i) PROVE TypeOK'
  BY <1>19 DEF Crash
<1>20. CASE UNCHANGED vars
  BY <1>20 DEF vars
<1> QED
  BY <1>1, <1>2, <1>3, <1>4, <1>5, <1>6, <1>7, <1>8, <1>9, <1>10, <1>12, <1>13, <1>14, <1>15,
     <1>16, <1>17, <1>18, <1>19, <1>20, <1>18a DEF Next, Step, Process, Sweep, Threads

-----------------------------------------------------------------------------
(* A step of a thread changes only that thread's stage, copy and draft.     *)
LEMMA AttemptStep == Inv /\ [Next]_vars => AttemptIsCounted'
<1> SUFFICES ASSUME Inv, [Next]_vars PROVE AttemptIsCounted'
  OBVIOUS
<1> USE Facts, ThreadsAreDistinct DEF Inv
<1> DEFINE Counted(d) == /\ at[d] \in AttemptStages => copy[d] \in States /\ copy[d].attempts >= 1
                         /\ at[d] = "renew" => copy[d] \in States /\ copy[d].attempts < MaxAttempts
<1> SUFFICES ASSUME NEW d \in Sweepers \cup Hands PROVE Counted(d)'
  BY DEF AttemptIsCounted
<1>0. Counted(d) /\ d \in Threads /\ d \notin Enders
  BY DEF AttemptIsCounted, Threads
<1>a. at \in [Threads -> Stages] /\ copy \in [Threads -> States \cup {None}]
  BY DEF TypeOK
<1>1. ASSUME NEW t \in Threads, Process(t) PROVE Counted(d)'
  <2>1. UNCHANGED copy
    BY <1>1 DEF Process, Remember, Look, Revise, Analyse, Analysed, Wait, Abandon, CloseOut,
       Summarise, Summarised, Store, Deliver, locals
  <2>2. at[t] \in AttemptStages
    BY <1>1 DEF Process, Remember, Look, Revise, Analyse, CloseOut, Summarise, Store, Deliver,
       AttemptStages
  <2>3. \E stage \in AttemptStages \cup {"ended"} :
           at' = [at EXCEPT ![t] = stage] /\ (stage = "ended" => t \in Enders)
    <3>1. ASSUME NEW how, Return(t, how) PROVE <2>3
      <4>1. CASE t \in Enders
        BY <3>1, <4>1 DEF Return, Move, AttemptStages
      <4>2. CASE t \notin Enders
        BY <3>1, <4>2 DEF Return, Move, AttemptStages
      <4> QED BY <4>1, <4>2
    <3>2. ASSUME NEW stage \in AttemptStages, Move(t, stage) PROVE <2>3
      BY <3>2 DEF Move, AttemptStages
    <3>3. CASE Analyse(t)
      BY <3>1, <3>2, <3>3, <1>a DEF Analyse, Analysed, Wait, Abandon, AttemptStages
    <3>4. CASE Summarise(t)
      BY <3>1, <3>2, <3>4, <1>a DEF Summarise, Summarised, Wait, Abandon, AttemptStages
    <3>5. CASE Revise(t)
      BY <3>1, <3>2, <3>5 DEF Revise, AttemptStages
    <3> QED BY <1>1, <3>1, <3>2, <3>3, <3>4, <3>5
            DEF Process, Remember, Look, CloseOut, Store, Deliver, AttemptStages
  <2> QED BY <1>0, <1>a, <2>1, <2>2, <2>3 DEF AttemptStages
<1>2. ASSUME NEW t \in Sweepers, Acquire(t) \/ Scan(t) PROVE Counted(d)'
  BY <1>0, <1>a, <1>2 DEF Acquire, Scan, Move, locals, AttemptStages
<1>3. State \in States
  BY DEF State, FreshState, States, TypeOK
<1>4. ASSUME NEW t \in Sweepers, Load(t) PROVE Counted(d)'
  BY <1>0, <1>a, <1>3, <1>4 DEF Load, Move, AttemptStages
<1>5. ASSUME NEW t \in Sweepers, Renew(t) PROVE Counted(d)'
  <2>1. CASE lock = t
    <3>1. copy[t] \in States /\ copy[t].attempts < MaxAttempts
      BY <1>5 DEF Renew, AttemptIsCounted
    <3>2. /\ copy' = [copy EXCEPT ![t] = [copy[t] EXCEPT !.attempts = copy[t].attempts + 1]]
          /\ at' = [at EXCEPT ![t] = "remember"]
      BY <1>5, <2>1 DEF Renew, Move
    <3>3. /\ [copy[t] EXCEPT !.attempts = copy[t].attempts + 1] \in States
          /\ [copy[t] EXCEPT !.attempts = copy[t].attempts + 1].attempts >= 1
      BY <3>1 DEF States
    <3> QED BY <1>0, <1>a, <3>2, <3>3
  <2>2. CASE lock # t
    BY <1>0, <1>a, <1>5, <2>2 DEF Renew, Move, AttemptStages
  <2> QED BY <2>1, <2>2
<1>6. ASSUME NEW t \in Sweepers \cup Hands, Settle(t) PROVE Counted(d)'
  <2>1. \E stage \in {"release", "resting"} : at' = [at EXCEPT ![t] = stage]
    BY <1>6 DEF Settle, Move
  <2>2. copy' = [copy EXCEPT ![t] = None]
    BY <1>6 DEF Settle
  <2> QED BY <1>0, <1>a, <2>1, <2>2 DEF AttemptStages
<1>7. ASSUME NEW t \in Sweepers, Release(t) PROVE Counted(d)'
  BY <1>0, <1>a, <1>7 DEF Release, Move, AttemptStages
<1>8. ASSUME NEW t \in Hands, Retry(t) PROVE Counted(d)'
  BY <1>0, <1>a, <1>8 DEF Retry, Move, AttemptStages, States
<1>9. CASE Ripen \/ PauseEnds \/ LockExpires \/ LockIsLost \/ GiveUpIsForgotten \/ UNCHANGED vars
  BY <1>0, <1>9 DEF Ripen, PauseEnds, LockExpires, LockIsLost, GiveUpIsForgotten, locals, vars
<1>10. CASE Day
  <2>1. copy'[d] = Older(copy[d]) /\ at' = at
    BY <1>0, <1>10 DEF Day
  <2> QED BY <1>0, <2>1 DEF Older, States
<1>11. ASSUME NEW i \in Instances, Crash(i) PROVE Counted(d)'
  <2>1. CASE Here(d) = i
    BY <1>0, <1>11, <2>1 DEF Crash, AttemptStages
  <2>2. CASE Here(d) # i
    BY <1>0, <1>11, <2>2 DEF Crash
  <2> QED BY <2>1, <2>2
<1> QED
  BY <1>1, <1>2, <1>4, <1>5, <1>6, <1>7, <1>8, <1>9, <1>10, <1>11 DEF Next, Step, Sweep

(* A draft, the analysis behind it and the stored summary go together.      *)
LEMMA DraftStep == Inv /\ [Next]_vars => DraftIsBacked' /\ SummaryRestsOnAnalysis' /\ OnlyTheStoredIsHanded'
<1> SUFFICES ASSUME Inv, [Next]_vars
             PROVE  DraftIsBacked' /\ SummaryRestsOnAnalysis' /\ OnlyTheStoredIsHanded'
  OBVIOUS
<1> USE Facts DEF Inv
<1> DEFINE Backed(d) == /\ at[d] = "analyse" => spoken
                        /\ at[d] \in {"closeout", "summarise", "store"} =>
                              spoken /\ "coverage" \in done /\ draft[d] \in Summaries
                        /\ at[d] = "deliver" => summary # None /\ draft[d] = summary
<1> DEFINE Idle == {"remember", "look", "revise", "settle", "ended", "resting", "scan", "load",
                    "renew", "release"}
<1>a. /\ at \in [Threads -> Stages] /\ draft \in [Threads -> Summaries \cup {None}]
      /\ \A d \in Threads : Backed(d)
  BY DEF TypeOK, DraftIsBacked
<1>b. summary = None => handed = {}
  BY DEF TypeOK, OnlyTheStoredIsHanded
(* Nothing said, analysed or stored is ever taken back.                     *)
<1>c. ASSUME spoken' = spoken \/ spoken', done \subseteq done',
             summary' = summary, handed' = handed
      PROVE  SummaryRestsOnAnalysis' /\ OnlyTheStoredIsHanded'
  BY <1>c DEF SummaryRestsOnAnalysis, OnlyTheStoredIsHanded
<1>d. ASSUME spoken' = spoken \/ spoken', done \subseteq done',
             summary' = summary \/ (summary = None /\ summary' \in Summaries),
             NEW t \in Threads, \A d \in Threads \ {t} : at'[d] = at[d] /\ draft'[d] = draft[d],
             Backed(t)'
      PROVE  DraftIsBacked'
  <2> SUFFICES ASSUME NEW d \in Threads PROVE Backed(d)'
    BY DEF DraftIsBacked
  <2>1. CASE d = t
    BY <1>d, <2>1
  <2>2. CASE d # t
    BY <1>a, <1>d, <2>2
  <2> QED BY <2>1, <2>2
(* Steps that leave the database alone and end up without a draft in hand.  *)
<1>e. ASSUME UNCHANGED database, NEW t \in Threads, NEW stage \in Idle,
             at' = [at EXCEPT ![t] = stage],
             draft' = draft \/ draft' = [draft EXCEPT ![t] = None]
      PROVE  DraftIsBacked' /\ SummaryRestsOnAnalysis' /\ OnlyTheStoredIsHanded'
  BY <1>a, <1>c, <1>d, <1>e DEF database
<1>f. ASSUME NEW t \in Threads, NEW how, Return(t, how)
      PROVE  /\ \E stage \in Idle : at' = [at EXCEPT ![t] = stage]
             /\ draft' = [draft EXCEPT ![t] = None]
  <2>1. CASE t \in Enders
    BY <1>f, <2>1 DEF Return, Move
  <2>2. CASE t \notin Enders
    BY <1>f, <2>2 DEF Return, Move
  <2> QED BY <2>1, <2>2
<1> DEFINE Goal == DraftIsBacked' /\ SummaryRestsOnAnalysis' /\ OnlyTheStoredIsHanded'
<1>g. ASSUME NEW t \in Threads, Wait(t) PROVE Goal
  BY <1>a, <1>c, <1>d, <1>g DEF Wait, database
<1>h. ASSUME NEW t \in Threads, Abandon(t) PROVE Goal
  BY <1>e, <1>f, <1>h DEF Abandon
<1>1. ASSUME NEW t \in Threads, Remember(t) PROVE Goal
  BY <1>e, <1>1 DEF Remember, Move, locals
<1>2. ASSUME NEW t \in Threads, Look(t) PROVE Goal
  <2>1. CASE summary # None
    BY <1>e, <1>f, <1>2, <2>1 DEF Look
  <2>2. CASE summary = None
    BY <1>e, <1>2, <2>2 DEF Look, Move
  <2> QED BY <2>1, <2>2
<1>3. ASSUME NEW t \in Threads, Revise(t) PROVE Goal
  <2>1. PICK heard \in {spoken, TRUE} :
          /\ spoken' = heard
          /\ IF heard
             THEN Move(t, "analyse") /\ UNCHANGED <<tries, draft, result>>
             ELSE Return(t, "failed")
    BY <1>3 DEF Revise
  <2>2. UNCHANGED <<done, summary, handed>> /\ spoken \in BOOLEAN
    BY <1>3 DEF Revise, TypeOK
  <2>3. CASE heard
    <3>1. spoken' /\ at' = [at EXCEPT ![t] = "analyse"] /\ draft' = draft
      BY <2>1, <2>3 DEF Move
    <3> QED BY <1>a, <1>c, <1>d, <2>2, <3>1
  <2>4. CASE ~heard
    <3>1. UNCHANGED database
      BY <2>1, <2>2, <2>4 DEF database
    <3> QED BY <1>e, <1>f, <2>1, <2>4, <3>1
  <2> QED BY <2>3, <2>4
<1>4. ASSUME NEW t \in Threads, Analyse(t) PROVE Goal
  <2>1. CASE Analysed(t)
    <3>1. /\ UNCHANGED <<spoken, summary, handed>>
          /\ done' = done \cup {"coverage"}
          /\ at' = [at EXCEPT ![t] = "closeout"]
          /\ \E tone \in {"final", "live", "neutral"} :
                draft' = [draft EXCEPT ![t] = [by |-> t, tone |-> tone]]
      BY <2>1 DEF Analysed, Move
    <3>2. spoken
      BY <1>4, <1>a DEF Analyse
    <3>3. Backed(t)'
      BY <1>a, <3>1, <3>2 DEF Summaries
    <3>4. \A d \in Threads \ {t} : at'[d] = at[d] /\ draft'[d] = draft[d]
      BY <1>a, <3>1
    <3> QED BY <1>c, <1>d, <3>1, <3>3, <3>4
  <2> QED BY <1>4, <1>g, <1>h, <2>1 DEF Analyse
<1>5. ASSUME NEW t \in Threads, CloseOut(t) PROVE Goal
  <2>1. /\ UNCHANGED <<spoken, summary, handed, draft>> /\ done \subseteq done'
        /\ at[t] = "closeout" /\ at' = [at EXCEPT ![t] = "summarise"]
    BY <1>5 DEF CloseOut, Move, locals
  <2> QED BY <1>a, <1>c, <1>d, <2>1
<1>6. ASSUME NEW t \in Threads, Summarise(t) PROVE Goal
  <2>1. CASE Summarised(t)
    <3>1. /\ UNCHANGED <<spoken, summary, handed, draft, done>>
          /\ at[t] = "summarise" /\ at' = [at EXCEPT ![t] = "store"]
      BY <1>6, <2>1 DEF Summarise, Summarised, Move, database
    <3> QED BY <1>a, <1>c, <1>d, <3>1
  <2> QED BY <1>6, <1>g, <1>h, <2>1 DEF Summarise
<1>7. ASSUME NEW t \in Threads, Store(t) PROVE Goal
  <2>1. CASE Return(t, "failed") /\ UNCHANGED <<summary, remembered>>
    BY <1>e, <1>f, <1>7, <2>1 DEF Store, database
  <2>2. CASE ~(Return(t, "failed") /\ UNCHANGED <<summary, remembered>>)
    <3>1. /\ summary' = IF summary = None THEN draft[t] ELSE summary
          /\ draft' = [draft EXCEPT ![t] = summary']
          /\ at' = [at EXCEPT ![t] = "deliver"]
          /\ UNCHANGED <<spoken, done, handed>>
      BY <1>7, <2>2 DEF Store, Move
    <3>2. spoken /\ "coverage" \in done /\ draft[t] \in Summaries
      BY <1>7, <1>a DEF Store
    <3>3. Backed(t)'
      BY <1>a, <3>1, <3>2
    <3>4. \A d \in Threads \ {t} : at'[d] = at[d] /\ draft'[d] = draft[d]
      BY <1>a, <3>1
    <3>5. SummaryRestsOnAnalysis' /\ OnlyTheStoredIsHanded'
      BY <1>b, <3>1, <3>2 DEF SummaryRestsOnAnalysis, OnlyTheStoredIsHanded
    <3> QED BY <1>d, <3>1, <3>2, <3>3, <3>4, <3>5
  <2> QED BY <2>1, <2>2
<1>8. ASSUME NEW t \in Threads, Deliver(t) PROVE Goal
  <2>1. /\ handed' = handed \cup {draft[t]} /\ UNCHANGED <<spoken, done, summary>>
        /\ draft[t] = summary
    BY <1>a, <1>8 DEF Deliver
  <2>2. PICK stage \in Idle : at' = [at EXCEPT ![t] = stage]
    BY <1>f, <1>8 DEF Deliver
  <2>3. draft' = [draft EXCEPT ![t] = None]
    BY <1>f, <1>8 DEF Deliver
  <2>4. Backed(t)' /\ \A d \in Threads \ {t} : at'[d] = at[d] /\ draft'[d] = draft[d]
    BY <1>a, <2>2, <2>3
  <2>5. DraftIsBacked'
    BY <1>d, <2>1, <2>4
  <2> QED BY <2>1, <2>5 DEF SummaryRestsOnAnalysis, OnlyTheStoredIsHanded
<1>9. ASSUME NEW t \in Sweepers, Sweep(t) PROVE Goal
  <2>1. UNCHANGED database /\ draft' = draft
    BY <1>9 DEF Sweep, Acquire, Scan, Load, Renew, Settle, Release, locals
  <2>2. \E stage \in Idle : at' = [at EXCEPT ![t] = stage]
    BY <1>9 DEF Sweep, Acquire, Scan, Load, Renew, Settle, Release, Move
  <2> QED BY <1>e, <2>1, <2>2 DEF Threads
<1>10. ASSUME NEW t \in Hands, Retry(t) \/ Settle(t) PROVE Goal
  <2>1. UNCHANGED database /\ draft' = draft
    BY <1>10 DEF Retry, Settle
  <2>2. \E stage \in Idle : at' = [at EXCEPT ![t] = stage]
    BY <1>10 DEF Retry, Settle, Move
  <2> QED BY <1>e, <2>1, <2>2 DEF Threads
<1>11. CASE Ripen \/ PauseEnds \/ Day \/ LockExpires \/ LockIsLost \/ GiveUpIsForgotten
            \/ UNCHANGED vars
  <2>1. UNCHANGED <<database, at, draft>>
    BY <1>11 DEF Ripen, PauseEnds, Day, LockExpires, LockIsLost, GiveUpIsForgotten, locals, vars
  <2> QED BY <1>a, <1>c, <2>1 DEF database, DraftIsBacked
<1>12. ASSUME NEW i \in Instances, Crash(i) PROVE Goal
  <2>1. UNCHANGED database
    BY <1>12 DEF Crash
  <2>2. \A d \in Threads : \/ at'[d] = at[d] /\ draft'[d] = draft[d]
                           \/ at'[d] \in Idle
    <3> TAKE d \in Threads
    <3>1. CASE Here(d) = i
      BY <1>12, <3>1 DEF Crash
    <3>2. CASE Here(d) # i
      BY <1>12, <3>2 DEF Crash
    <3> QED BY <3>1, <3>2
  <2> QED BY <1>a, <1>c, <2>1, <2>2 DEF database, DraftIsBacked
<1> QED
  BY <1>1, <1>2, <1>3, <1>4, <1>5, <1>6, <1>7, <1>8, <1>9, <1>10, <1>11, <1>12
  DEF Next, Step, Process

LEMMA InvHolds == Spec => []Inv
<1>1. Inv /\ [Next]_vars => Inv'
  BY TypeStep, AttemptStep, DraftStep DEF Inv
<1> QED BY InvInit, <1>1, PTL DEF Spec

-----------------------------------------------------------------------------
(* The tone of the call, on one instance that does not restart: while there *)
(* is no summary, the tone it had is in the live analysis or remembered; a  *)
(* run at work has it remembered, and what it drafts is not neutral.  Once  *)
(* there is a summary, a draft may well be: it is not stored any more.      *)
OneInstance == \A t, u \in Threads : Here(t) = Here(u)
Drafted == {"closeout", "summarise", "store"}
AtWork == Drafted \cup {"look", "revise", "analyse"}

ToneIsHeld ==
    \A t \in Threads :
        /\ live \/ remembered[Here(t)]
        /\ at[t] \in AtWork => remembered[Here(t)]
        /\ at[t] \in Drafted => draft[t].tone # "neutral"

ToneInv ==
    mishaps = 0 /\ OneInstance /\ toned =>
        IF summary = None THEN ToneIsHeld ELSE summary.tone # "neutral"

(* A run that returns is not at work any more; the others stay as they are. *)
LEMMA ReturnRests ==
    ASSUME NEW t \in Threads, NEW how, Return(t, how), at \in [Threads -> Stages]
    PROVE  /\ at' = [at EXCEPT ![t] = at'[t]]
           /\ draft' = [draft EXCEPT ![t] = None]
           /\ at'[t] \notin AtWork
<1>1. CASE t \in Enders
  BY <1>1 DEF Return, Move, AtWork, Drafted
<1>2. CASE t \notin Enders
  BY <1>2 DEF Return, Move, AtWork, Drafted
<1> QED BY <1>1, <1>2

(* Nobody goes to work, and who drafts keeps the draft.                     *)
NobodyStarts ==
    \A t \in Threads :
        /\ at'[t] \in AtWork => at[t] \in AtWork
        /\ at'[t] \in Drafted => at[t] \in Drafted /\ draft'[t] = draft[t]

(* While nothing is stored, remembered or forgotten and nobody starts a     *)
(* run, the tone is where it was.                                           *)
LEMMA ToneRests ==
    ASSUME ToneInv, UNCHANGED <<summary, live, remembered, mishaps, toned>>, NobodyStarts
    PROVE  ToneInv'
  BY DEF ToneInv, ToneIsHeld, NobodyStarts, OneInstance, Here

(* Steps of a run that leave the tone alone.                                *)
LEMMA ToneRestsInRun ==
    ASSUME Inv, ToneInv, NEW t \in Threads,
           \/ Revise(t) \/ Wait(t) \/ Abandon(t) \/ CloseOut(t) \/ Deliver(t)
           \/ at[t] = "summarise" /\ Summarised(t)
    PROVE  ToneInv'
<1>a. at \in [Threads -> Stages]
  BY DEF Inv, TypeOK
<1>1. UNCHANGED <<summary, live, remembered, mishaps, toned>>
  BY DEF Revise, Wait, Abandon, CloseOut, Summarised, Deliver, database, store, memory, bounds
<1>2. ASSUME NEW how, Return(t, how) PROVE NobodyStarts
  <2>1. /\ at' = [at EXCEPT ![t] = at'[t]] /\ at'[t] \notin AtWork
        /\ draft' = [draft EXCEPT ![t] = None]
    BY <1>2, <1>a, ReturnRests
  <2>2. Drafted \subseteq AtWork /\ draft \in [Threads -> Summaries \cup {None}]
    BY DEF AtWork, Inv, TypeOK
  <2> QED BY <1>a, <2>1, <2>2 DEF NobodyStarts
<1>3. ASSUME Revise(t) PROVE NobodyStarts
  <2>1. PICK heard \in {spoken, TRUE} :
          IF heard THEN Move(t, "analyse") /\ UNCHANGED <<tries, draft, result>>
          ELSE Return(t, "failed")
    BY <1>3 DEF Revise
  <2>2. CASE heard
    BY <1>a, <1>3, <2>1, <2>2 DEF Revise, Move, NobodyStarts, AtWork, Drafted
  <2> QED BY <1>2, <2>1, <2>2
<1>4. ASSUME Wait(t) PROVE NobodyStarts
  BY <1>4 DEF Wait, NobodyStarts
<1>5. ASSUME Abandon(t) PROVE NobodyStarts
  BY <1>2, <1>5 DEF Abandon
<1>6. ASSUME CloseOut(t) \/ (at[t] = "summarise" /\ Summarised(t)) PROVE NobodyStarts
  BY <1>a, <1>6 DEF CloseOut, Summarised, Move, locals, NobodyStarts, AtWork, Drafted
<1>7. ASSUME Deliver(t) PROVE NobodyStarts
  BY <1>2, <1>7 DEF Deliver
<1>8. NobodyStarts
  BY <1>3, <1>4, <1>5, <1>6, <1>7
<1> QED BY <1>1, <1>8, ToneRests

LEMMA ToneStep == Inv /\ ToneInv /\ [Next]_vars => ToneInv'
<1> SUFFICES ASSUME Inv, ToneInv, [Next]_vars PROVE ToneInv'
  OBVIOUS
<1>a. /\ at \in [Threads -> Stages] /\ draft \in [Threads -> Summaries \cup {None}]
      /\ remembered \in [Instances -> BOOLEAN] /\ live \in BOOLEAN /\ mishaps \in Nat
  BY PostCallAssumption DEF Inv, TypeOK
<1>1. ASSUME NEW t \in Threads, Remember(t) PROVE ToneInv'
  <2>1. /\ remembered' = [remembered EXCEPT ![Here(t)] = live \/ remembered[Here(t)]]
        /\ at' = [at EXCEPT ![t] = "look"]
        /\ UNCHANGED <<summary, live, mishaps, toned, draft>>
    BY <1>1 DEF Remember, Move, database, store, locals, bounds
  <2>2. CASE ~(mishaps = 0 /\ OneInstance /\ toned)
    BY <2>1, <2>2 DEF ToneInv, OneInstance, Here
  <2>3. CASE summary # None
    BY <2>1, <2>3 DEF ToneInv, OneInstance, Here
  <2>4. CASE mishaps = 0 /\ OneInstance /\ toned /\ summary = None
    <3>1. ToneIsHeld
      BY <2>4 DEF ToneInv
    <3>2. ASSUME NEW d \in Threads PROVE remembered'[Here(d)]
      <4>1. Here(d) = Here(t) /\ Here(t) \in Instances
        BY <2>4, Facts DEF OneInstance
      <4> QED BY <1>a, <2>1, <3>1, <4>1 DEF ToneIsHeld
    <3>3. \A d \in Threads : at'[d] \in Drafted => at[d] \in Drafted /\ draft'[d] = draft[d]
      BY <1>a, <2>1 DEF Drafted
    <3>4. ToneIsHeld'
      BY <3>1, <3>2, <3>3 DEF ToneIsHeld, Here
    <3> QED BY <2>1, <2>4, <3>4 DEF ToneInv
  <2> QED BY <2>2, <2>3, <2>4
<1>2. ASSUME NEW t \in Threads, Look(t) PROVE ToneInv'
  <2>1. UNCHANGED <<summary, mishaps, toned>> /\ at[t] = "look" /\ live' = FALSE
    BY <1>2 DEF Look, database, bounds
  <2>2. CASE summary # None
    BY <2>1, <2>2 DEF ToneInv, OneInstance, Here
  <2>3. CASE ~(mishaps = 0 /\ OneInstance /\ toned)
    BY <2>1, <2>3 DEF ToneInv, OneInstance, Here
  <2>4. CASE mishaps = 0 /\ OneInstance /\ toned /\ summary = None
    <3>1. UNCHANGED <<remembered, draft>> /\ at' = [at EXCEPT ![t] = "revise"]
      BY <1>2, <2>4 DEF Look, Move
    <3>2. ToneIsHeld
      BY <2>4 DEF ToneInv
    <3>3. ASSUME NEW d \in Threads PROVE remembered[Here(d)]
      BY <2>1, <2>4, <3>2 DEF ToneIsHeld, OneInstance, AtWork
    <3>4. ToneIsHeld'
      BY <1>a, <3>1, <3>2, <3>3 DEF ToneIsHeld, Here, Drafted
    <3> QED BY <2>1, <2>4, <3>4 DEF ToneInv
  <2> QED BY <2>2, <2>3, <2>4
<1>3. ASSUME NEW t \in Threads, at[t] = "analyse", Analysed(t) PROVE ToneInv'
  <2>1. /\ UNCHANGED <<summary, live, remembered, mishaps, toned>>
        /\ at' = [at EXCEPT ![t] = "closeout"]
    BY <1>3 DEF Analysed, Move, database, store, memory, bounds
  <2>2. CASE summary # None
    BY <2>1, <2>2 DEF ToneInv, OneInstance, Here
  <2>3. CASE ~(mishaps = 0 /\ OneInstance /\ toned)
    BY <2>1, <2>3 DEF ToneInv, OneInstance, Here
  <2>4. CASE mishaps = 0 /\ OneInstance /\ toned /\ summary = None
    <3>1. ToneIsHeld
      BY <2>4 DEF ToneInv
    <3>2. remembered[Here(t)]
      BY <1>3, <3>1 DEF ToneIsHeld, AtWork
    <3>3. \E tone \in {"final", "live"} :
             draft' = [draft EXCEPT ![t] = [by |-> t, tone |-> tone]]
      BY <1>3, <3>2 DEF Analysed
    <3>4. \A d \in Threads \ {t} : at'[d] = at[d] /\ draft'[d] = draft[d]
      BY <1>a, <2>1, <3>3
    <3>5. draft'[t].tone # "neutral"
      BY <1>a, <3>3
    <3>6. ToneIsHeld'
      BY <1>a, <2>1, <3>1, <3>2, <3>4, <3>5 DEF ToneIsHeld, Here
    <3> QED BY <2>1, <2>4, <3>6 DEF ToneInv
  <2> QED BY <2>2, <2>3, <2>4
<1>4. ASSUME NEW t \in Threads, Store(t) PROVE ToneInv'
  <2>1. UNCHANGED <<live, mishaps, toned>> /\ at[t] = "store"
    BY <1>4 DEF Store, store, bounds
  <2>2. CASE Return(t, "failed") /\ UNCHANGED <<summary, remembered>>
    <3>1. NobodyStarts
      BY <1>a, <2>2, ReturnRests DEF NobodyStarts, AtWork, Drafted
    <3> QED BY <2>1, <2>2, <3>1, ToneRests
  <2>3. CASE ~(Return(t, "failed") /\ UNCHANGED <<summary, remembered>>)
    <3>1. summary' = IF summary = None THEN draft[t] ELSE summary
      BY <1>4, <2>3 DEF Store
    <3>2. draft[t] \in Summaries
      BY <2>1 DEF Inv, DraftIsBacked
    <3>3. summary' # None
      BY <3>1, <3>2, Facts
    <3> QED BY <2>1, <3>1, <3>3 DEF ToneInv, ToneIsHeld, OneInstance, Here, Drafted
  <2> QED BY <2>2, <2>3
<1>5. ASSUME NEW t \in Sweepers, Sweep(t) PROVE ToneInv'
  <2>1. UNCHANGED <<summary, live, remembered, mishaps, toned, draft>>
    BY <1>5 DEF Sweep, Acquire, Scan, Load, Renew, Settle, Release, database, store, memory,
                locals, bounds
  <2>2. \E stage \in {"scan", "load", "release", "renew", "remember", "resting"} :
           at' = [at EXCEPT ![t] = stage]
    BY <1>5 DEF Sweep, Acquire, Scan, Load, Renew, Settle, Release, Move
  <2>3. NobodyStarts
    BY <1>a, <2>1, <2>2 DEF NobodyStarts, AtWork, Drafted
  <2> QED BY <2>1, <2>3, ToneRests
<1>6. ASSUME NEW t \in Hands, Retry(t) \/ Settle(t) PROVE ToneInv'
  <2>1. UNCHANGED <<summary, live, remembered, mishaps, toned, draft>>
    BY <1>6 DEF Retry, Settle, database, memory, bounds
  <2>2. \E stage \in {"remember", "release", "resting"} : at' = [at EXCEPT ![t] = stage]
    BY <1>6 DEF Retry, Settle, Move
  <2>3. NobodyStarts
    BY <1>a, <2>1, <2>2 DEF NobodyStarts, AtWork, Drafted
  <2> QED BY <2>1, <2>3, ToneRests
<1>7. CASE Ripen \/ PauseEnds \/ Day \/ LockExpires \/ GiveUpIsForgotten \/ UNCHANGED vars
  <2>1. UNCHANGED <<summary, live, remembered, mishaps, toned, at, draft>>
    BY <1>7 DEF Ripen, PauseEnds, Day, LockExpires, GiveUpIsForgotten, database, store, memory,
                locals, bounds, vars
  <2>2. NobodyStarts
    BY <2>1 DEF NobodyStarts
  <2> QED BY <2>1, <2>2, ToneRests
<1>8. CASE LockIsLost \/ \E i \in Instances : Crash(i)
  <2>1. mishaps' = mishaps + 1
    BY <1>8 DEF LockIsLost, Crash
  <2> QED BY <1>a, <2>1 DEF ToneInv
<1>9. ASSUME NEW t \in Threads, Process(t) PROVE ToneInv'
  BY <1>1, <1>2, <1>3, <1>4, <1>9, ToneRestsInRun DEF Process, Analyse, Summarise
<1> QED
  BY <1>5, <1>6, <1>7, <1>8, <1>9 DEF Next, Step

LEMMA ToneHolds == Spec => []ToneInv
<1>1. Init => ToneInv
  <2> SUFFICES ASSUME Init, toned PROVE ToneIsHeld
    BY DEF Init, ToneInv
  <2>1. \A t \in Threads : at[t] \in {"remember", "resting"}
    BY DEF Init
  <2> QED BY <2>1 DEF Init, ToneIsHeld, AtWork, Drafted
<1>2. Inv /\ ToneInv /\ [Next]_vars => ToneInv'
  BY ToneStep
<1> QED BY InvHolds, <1>1, <1>2, PTL DEF Spec

-----------------------------------------------------------------------------
(* The bookkeeping and every local keep to their domains, for any number of *)
(* instances, threads and attempts.                                         *)
THEOREM TypeCorrect == Spec => []TypeOK
  BY InvHolds, PTL DEF Inv

(* A stored summary has the final analysis stored behind it.                *)
THEOREM SummariesRestOnAnalyses == Spec => []SummaryRestsOnAnalysis
  BY InvHolds, PTL DEF Inv

(* However many runs overlap, the customer is sent the stored summary only. *)
THEOREM StoredIsWhatIsSent == Spec => []OnlyTheStoredIsHanded
  BY InvHolds, PTL DEF Inv

(* On one instance that does not restart, a call that had a tone while live *)
(* is never stored as neutral, however many runs of it there are.           *)
THEOREM TonesAreKept == Spec => []ToneIsKept
<1>1. ToneInv => ToneIsKept
  BY DEF ToneInv, ToneIsKept, OneInstance
<1> QED BY ToneHolds, <1>1, PTL
=============================================================================
