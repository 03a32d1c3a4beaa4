--------------------- MODULE LiveAnalysisSchedulerProofs ---------------------
(***************************************************************************)
(* Theorems about LiveAnalysisScheduler for any calls, speakers, workers   *)
(* and amount of speech.  They rest on one fact: a run of a call is one    *)
(* token, held by a speaker, the queue, a timer or a worker, and _running  *)
(* has an entry for the call exactly while the token exists.               *)
(***************************************************************************)
EXTENDS LiveAnalysisScheduler, TLAPS

LEMMA Posts ==
  /\ Resting \in SpeakerPosts /\ Resting \in WorkerPosts
  /\ \A c \in Calls : /\ At("asking", c) \in SpeakerPosts
                      /\ At("submitting", c) \in SpeakerPosts
                      /\ At("analysing", c) \in WorkerPosts
                      /\ At("resubmitting", c) \in WorkerPosts
  BY DEF SpeakerPosts, WorkerPosts, At

(* What a thread is at tells the step and the call apart.                  *)
LEMMA PostsDiffer ==
  /\ \A c, d : /\ At("submitting", c) = At("submitting", d) => c = d
               /\ At("asking", c) = At("asking", d) => c = d
               /\ At("analysing", c) = At("analysing", d) => c = d
               /\ At("resubmitting", c) = At("resubmitting", d) => c = d
               /\ At("asking", c) # At("submitting", d)
               /\ At("analysing", c) # At("resubmitting", d)
  /\ \A step, c : At(step, c) # Resting
  <1>1. \A step, c : DOMAIN At(step, c) = {"step", "call"} /\ DOMAIN Resting = {"step"}
    BY DEF At, Resting
  <1>2. \A step, c : At(step, c) # Resting
    BY <1>1
  <1>3. \A step, c : At(step, c).step = step /\ At(step, c).call = c
    BY DEF At
  <1> QED BY <1>2, <1>3

LEMMA InitType == Init => TypeOK
  BY SchedulerAssumption, Posts DEF Init, TypeOK

LEMMA NextType == TypeOK /\ [Next]_vars => TypeOK'
  <1> SUFFICES ASSUME TypeOK, [Next]_vars PROVE TypeOK'
    OBVIOUS
  <1> USE SchedulerAssumption, Posts DEF TypeOK
  <1>1. ASSUME NEW s \in Speakers, NEW c \in Calls, Record(s, c) PROVE TypeOK'
    BY <1>1 DEF Record
  <1>2. ASSUME NEW s \in Speakers, NEW c \in Calls, Ask(s, c) PROVE TypeOK'
    <2>1. CASE running[c] = "no"
      BY <1>2, <2>1 DEF Ask
    <2>2. CASE running[c] # "no"
      BY <1>2, <2>2 DEF Ask
    <2> QED BY <2>1, <2>2
  <1>3. ASSUME NEW s \in Speakers, NEW c \in Calls, Submit(s, c) PROVE TypeOK'
    BY <1>3 DEF Submit, Task, Tasks
  <1>4. ASSUME NEW w \in Workers, Postpone(w) PROVE TypeOK'
    <2>1. Head(queue) \in Tasks /\ Tail(queue) \in Seq(Tasks)
      BY <1>4 DEF Postpone
    <2> QED BY <1>4, <2>1 DEF Postpone, Tasks
  <1>5. ASSUME NEW w \in Workers, Start(w) PROVE TypeOK'
    <2>1. Head(queue) \in Tasks /\ Tail(queue) \in Seq(Tasks)
      BY <1>5 DEF Start
    <2> QED BY <1>5, <2>1 DEF Start, Tasks
  <1>6. ASSUME NEW w \in Workers, NEW c \in Calls, Finish(w, c) PROVE TypeOK'
    <2>1. CASE running[c] = "again"
      BY <1>6, <2>1 DEF Finish
    <2>2. CASE running[c] # "again"
      BY <1>6, <2>2 DEF Finish
    <2> QED BY <2>1, <2>2
  <1>7. ASSUME NEW w \in Workers, NEW c \in Calls, Resubmit(w, c) PROVE TypeOK'
    BY <1>7 DEF Resubmit, Task, Tasks
  <1>8. ASSUME NEW c \in Calls, IntervalEnds(c) PROVE TypeOK'
    BY <1>8 DEF IntervalEnds
  <1>9. ASSUME NEW c \in Calls, TimerFires(c) PROVE TypeOK'
    BY <1>9 DEF TimerFires, Task, Tasks
  <1>10. CASE UNCHANGED vars
    BY <1>10 DEF vars
  <1> QED
    BY <1>1, <1>2, <1>3, <1>4, <1>5, <1>6, <1>7, <1>8, <1>9, <1>10
    DEF Next, SpeakerStep, WorkerStep

(* Every variable keeps to its domain, however many threads there are.     *)
THEOREM TypeCorrect == Spec => []TypeOK
  BY InitType, NextType, PTL DEF Spec

-----------------------------------------------------------------------------
(* What a speaker or a worker has in hand, and the four places where the   *)
(* run of a call can be: with a speaker, in the queue, on a timer or with  *)
(* a worker.                                                               *)
Asking(s, c) == speaker[s] = At("asking", c)
Held(s, c) == speaker[s] = At("submitting", c)
Analysing(w, c) == worker[w] = At("analysing", c)
Resubmitting(w, c) == worker[w] = At("resubmitting", c)
Busy(w, c) == Analysing(w, c) \/ Resubmitting(w, c)

QueuedOnce ==
    \A i, j \in DOMAIN queue : queue[i].call = queue[j].call => i = j

OneToken ==
    /\ \A s, t \in Speakers, c \in Calls : Held(s, c) /\ Held(t, c) => s = t
    /\ QueuedOnce
    /\ \A v, w \in Workers, c \in Calls : Busy(v, c) /\ Busy(w, c) => v = w

OnePlace ==
    \A c \in Calls :
        /\ \A s \in Speakers : Held(s, c) => ~Queued(c) /\ c \notin timers
        /\ \A w \in Workers : Busy(w, c) => ~Queued(c) /\ c \notin timers
        /\ \A s \in Speakers, w \in Workers : ~(Held(s, c) /\ Busy(w, c))
        /\ ~(Queued(c) /\ c \in timers)

(* There is a run of the call.                                             *)
Token(c) ==
    \/ \E s \in Speakers : Held(s, c)
    \/ Queued(c)
    \/ c \in timers
    \/ \E w \in Workers : Busy(w, c)

EntryIsToken == \A c \in Calls : running[c] # "no" <=> Token(c)

WaitedOut == \A i \in DOMAIN queue : queue[i].waited => queue[i].call \notin cooling

ReadsWhatIsThere == \A c \in Calls : examined[c] <= speech[c]

(* NoSpeechForgotten in these terms.                                       *)
Noted(c) ==
    \/ \E s \in Speakers : Asking(s, c) \/ Held(s, c)
    \/ Queued(c)
    \/ c \in timers
    \/ \E w \in Workers : Resubmitting(w, c) \/ (running[c] = "again" /\ Analysing(w, c))

AllNoted == \A c \in Calls : speech[c] > examined[c] => Noted(c)

IInv ==
    /\ TypeOK /\ OneToken /\ OnePlace /\ EntryIsToken
    /\ WaitedOut /\ ReadsWhatIsThere /\ AllNoted

LEMMA AllNotedIsEnough == AllNoted => NoSpeechForgotten
  BY DEF AllNoted, Noted, NoSpeechForgotten, InHand, Analysed,
         Asking, Held, Analysing, Resubmitting

(* Steps that leave the speakers, the workers or the queue alone.          *)
LEMMA SpeakersStay ==
  speaker' = speaker =>
    \A s \in Speakers, c \in Calls : /\ Asking(s, c)' = Asking(s, c)
                                     /\ Held(s, c)' = Held(s, c)
  BY DEF Asking, Held

LEMMA WorkersStay ==
  worker' = worker =>
    \A w \in Workers, c \in Calls : /\ Analysing(w, c)' = Analysing(w, c)
                                    /\ Resubmitting(w, c)' = Resubmitting(w, c)
  BY DEF Analysing, Resubmitting

LEMMA QueueStays ==
  queue' = queue => /\ \A c \in Calls : Queued(c)' = Queued(c)
                    /\ QueuedOnce' = QueuedOnce
                    /\ cooling' \subseteq cooling => (WaitedOut => WaitedOut')
  BY DEF Queued, QueuedOnce, WaitedOut

(* One speaker or one worker goes to another post.                         *)
LEMMA SpeakerMoves ==
  ASSUME NEW s \in Speakers,
         \A t \in Speakers : t # s => speaker'[t] = speaker[t]
  PROVE  \A t \in Speakers, c \in Calls :
           t # s => Held(t, c)' = Held(t, c) /\ Asking(t, c)' = Asking(t, c)
  BY DEF Held, Asking

LEMMA WorkerMoves ==
  ASSUME NEW w \in Workers,
         \A v \in Workers : v # w => worker'[v] = worker[v]
  PROVE  \A v \in Workers, c \in Calls :
           v # w => Analysing(v, c)' = Analysing(v, c) /\ Resubmitting(v, c)' = Resubmitting(v, c)
  BY DEF Analysing, Resubmitting

LEMMA SpeakerPost ==
  \A s \in Speakers, c, d \in Calls :
    /\ speaker[s] = At("submitting", c) => Held(s, d) = (d = c) /\ Asking(s, d) = FALSE
    /\ speaker[s] = At("asking", c) => Held(s, d) = FALSE /\ Asking(s, d) = (d = c)
    /\ speaker[s] = Resting => Held(s, d) = FALSE /\ Asking(s, d) = FALSE
  <1> SUFFICES ASSUME NEW s \in Speakers, NEW c \in Calls, NEW d \in Calls
      PROVE  /\ speaker[s] = At("submitting", c) => Held(s, d) = (d = c) /\ Asking(s, d) = FALSE
             /\ speaker[s] = At("asking", c) => Held(s, d) = FALSE /\ Asking(s, d) = (d = c)
             /\ speaker[s] = Resting => Held(s, d) = FALSE /\ Asking(s, d) = FALSE
    OBVIOUS
  <1>1. CASE speaker[s] = At("submitting", c)
    BY <1>1, PostsDiffer DEF Held, Asking, At
  <1>2. CASE speaker[s] = At("asking", c)
    BY <1>2, PostsDiffer DEF Held, Asking, At
  <1>3. CASE speaker[s] = Resting
    <2>1. "call" \notin DOMAIN speaker[s]
      BY <1>3 DEF Resting
    <2> QED BY <1>3, <2>1, PostsDiffer DEF Held, Asking, At
  <1> QED BY <1>1, <1>2, <1>3, PostsDiffer

LEMMA WorkerPost ==
  \A w \in Workers, c, d \in Calls :
    /\ worker[w] = At("analysing", c) => Analysing(w, d) = (d = c) /\ Resubmitting(w, d) = FALSE
    /\ worker[w] = At("resubmitting", c) =>
         Analysing(w, d) = FALSE /\ Resubmitting(w, d) = (d = c)
    /\ worker[w] = Resting => Analysing(w, d) = FALSE /\ Resubmitting(w, d) = FALSE
  <1> SUFFICES ASSUME NEW w \in Workers, NEW c \in Calls, NEW d \in Calls
      PROVE  /\ worker[w] = At("analysing", c) =>
                  Analysing(w, d) = (d = c) /\ Resubmitting(w, d) = FALSE
             /\ worker[w] = At("resubmitting", c) =>
                  Analysing(w, d) = FALSE /\ Resubmitting(w, d) = (d = c)
             /\ worker[w] = Resting => Analysing(w, d) = FALSE /\ Resubmitting(w, d) = FALSE
    OBVIOUS
  <1>1. CASE worker[w] = At("analysing", c)
    BY <1>1, PostsDiffer DEF Analysing, Resubmitting, At
  <1>2. CASE worker[w] = At("resubmitting", c)
    BY <1>2, PostsDiffer DEF Analysing, Resubmitting, At
  <1>3. CASE worker[w] = Resting
    <2>1. "call" \notin DOMAIN worker[w]
      BY <1>3 DEF Resting
    <2> QED BY <1>3, <2>1, PostsDiffer DEF Analysing, Resubmitting, At
  <1> QED BY <1>1, <1>2, <1>3, PostsDiffer

LEMMA SpeakerPostNext ==
  \A s \in Speakers, c, d \in Calls :
    /\ speaker'[s] = At("submitting", c) => Held(s, d)' = (d = c) /\ Asking(s, d)' = FALSE
    /\ speaker'[s] = At("asking", c) => Held(s, d)' = FALSE /\ Asking(s, d)' = (d = c)
    /\ speaker'[s] = Resting => Held(s, d)' = FALSE /\ Asking(s, d)' = FALSE
  <1> SUFFICES ASSUME NEW s \in Speakers, NEW c \in Calls, NEW d \in Calls
      PROVE  /\ speaker'[s] = At("submitting", c) => Held(s, d)' = (d = c) /\ Asking(s, d)' = FALSE
             /\ speaker'[s] = At("asking", c) => Held(s, d)' = FALSE /\ Asking(s, d)' = (d = c)
             /\ speaker'[s] = Resting => Held(s, d)' = FALSE /\ Asking(s, d)' = FALSE
    OBVIOUS
  <1>1. CASE speaker'[s] = At("submitting", c)
    BY <1>1, PostsDiffer DEF Held, Asking, At
  <1>2. CASE speaker'[s] = At("asking", c)
    BY <1>2, PostsDiffer DEF Held, Asking, At
  <1>3. CASE speaker'[s] = Resting
    <2>1. "call" \notin DOMAIN speaker'[s]
      BY <1>3 DEF Resting
    <2> QED BY <1>3, <2>1, PostsDiffer DEF Held, Asking, At
  <1> QED BY <1>1, <1>2, <1>3, PostsDiffer

LEMMA WorkerPostNext ==
  \A w \in Workers, c, d \in Calls :
    /\ worker'[w] = At("analysing", c) =>
         Analysing(w, d)' = (d = c) /\ Resubmitting(w, d)' = FALSE
    /\ worker'[w] = At("resubmitting", c) =>
         Analysing(w, d)' = FALSE /\ Resubmitting(w, d)' = (d = c)
    /\ worker'[w] = Resting => Analysing(w, d)' = FALSE /\ Resubmitting(w, d)' = FALSE
  <1> SUFFICES ASSUME NEW w \in Workers, NEW c \in Calls, NEW d \in Calls
      PROVE  /\ worker'[w] = At("analysing", c) =>
                  Analysing(w, d)' = (d = c) /\ Resubmitting(w, d)' = FALSE
             /\ worker'[w] = At("resubmitting", c) =>
                  Analysing(w, d)' = FALSE /\ Resubmitting(w, d)' = (d = c)
             /\ worker'[w] = Resting => Analysing(w, d)' = FALSE /\ Resubmitting(w, d)' = FALSE
    OBVIOUS
  <1>1. CASE worker'[w] = At("analysing", c)
    BY <1>1, PostsDiffer DEF Analysing, Resubmitting, At
  <1>2. CASE worker'[w] = At("resubmitting", c)
    BY <1>2, PostsDiffer DEF Analysing, Resubmitting, At
  <1>3. CASE worker'[w] = Resting
    <2>1. "call" \notin DOMAIN worker'[w]
      BY <1>3 DEF Resting
    <2> QED BY <1>3, <2>1, PostsDiffer DEF Analysing, Resubmitting, At
  <1> QED BY <1>1, <1>2, <1>3, PostsDiffer

-----------------------------------------------------------------------------
(* What the queue's two operations do to the calls in it.                  *)

LEMMA TaskAdded ==
  ASSUME queue \in Seq(Tasks), NEW c \in Calls, NEW b \in BOOLEAN,
         queue' = Append(queue, Task(c, b))
  PROVE  /\ \A d \in Calls : Queued(d)' <=> Queued(d) \/ d = c
         /\ QueuedOnce /\ ~Queued(c) => QueuedOnce'
         /\ \A i \in DOMAIN queue' :
              (i \in DOMAIN queue /\ queue'[i] = queue[i]) \/ queue'[i] = Task(c, b)
  <1>1. /\ DOMAIN queue = 1..Len(queue) /\ DOMAIN queue' = 1..(Len(queue) + 1)
        /\ \A i \in 1..Len(queue) : queue'[i] = queue[i]
        /\ queue'[Len(queue) + 1] = Task(c, b)
        /\ Len(queue) \in Nat
    BY DEF Tasks, Task
  <1>2. Task(c, b).call = c
    BY DEF Task
  <1>3. \A d \in Calls : Queued(d)' <=> Queued(d) \/ d = c
    BY <1>1, <1>2 DEF Queued
  <1>4. QueuedOnce /\ ~Queued(c) => QueuedOnce'
    BY <1>1, <1>2 DEF Queued, QueuedOnce
  <1> QED BY <1>1, <1>3, <1>4

LEMMA TaskTaken ==
  ASSUME queue \in Seq(Tasks), queue # <<>>, QueuedOnce, queue' = Tail(queue)
  PROVE  /\ Head(queue) \in Tasks
         /\ Head(queue) = queue[1] /\ 1 \in DOMAIN queue
         /\ Queued(Head(queue).call)
         /\ \A d \in Calls : Queued(d)' <=> Queued(d) /\ d # Head(queue).call
         /\ QueuedOnce'
         /\ \A i \in DOMAIN queue' :
              i + 1 \in DOMAIN queue /\ queue'[i] = queue[i + 1]
                /\ queue'[i].call # Head(queue).call
  <1>1. /\ DOMAIN queue = 1..Len(queue) /\ DOMAIN queue' = 1..(Len(queue) - 1)
        /\ \A i \in 1..(Len(queue) - 1) : queue'[i] = queue[i + 1]
        /\ Head(queue) = queue[1] /\ Head(queue) \in Tasks
        /\ Len(queue) \in Nat /\ Len(queue) >= 1
    OBVIOUS
  <1>2. \A i \in DOMAIN queue' : queue'[i].call # Head(queue).call
    BY <1>1 DEF QueuedOnce
  <1>3. Queued(Head(queue).call)
    BY <1>1 DEF Queued
  <1>4. ASSUME NEW d \in Calls PROVE Queued(d)' <=> Queued(d) /\ d # Head(queue).call
    <2>1. ASSUME Queued(d)' PROVE Queued(d) /\ d # Head(queue).call
      BY <2>1, <1>1, <1>2 DEF Queued
    <2>2. ASSUME Queued(d), d # Head(queue).call PROVE Queued(d)'
      <3>1. PICK i \in DOMAIN queue : queue[i].call = d
        BY <2>2 DEF Queued
      <3>2. i # 1 /\ i - 1 \in DOMAIN queue' /\ queue'[i - 1] = queue[i]
        BY <3>1, <2>2, <1>1
      <3> QED BY <3>1, <3>2 DEF Queued
    <2> QED BY <2>1, <2>2
  <1>5. QueuedOnce'
    BY <1>1 DEF QueuedOnce
  <1> QED BY <1>1, <1>2, <1>3, <1>4, <1>5

-----------------------------------------------------------------------------
LEMMA InitInv == Init => IInv
  BY InitType, SchedulerAssumption, PostsDiffer
  DEF Init, IInv, OneToken, OnePlace, EntryIsToken, WaitedOut, ReadsWhatIsThere,
      AllNoted, Token, Held, Busy, Analysing, Resubmitting, Queued, QueuedOnce

(* A speaker's steps.                                                      *)
LEMMA RecordInv ==
  ASSUME IInv, NEW s \in Speakers, NEW c \in Calls, Record(s, c)
  PROVE  IInv'
  <1>1. TypeOK'
    BY NextType DEF Next, IInv
  <1>2. /\ speech' = [speech EXCEPT ![c] = speech[c] + 1]
        /\ speaker' = [speaker EXCEPT ![s] = At("asking", c)]
        /\ speaker[s] = Resting
        /\ worker' = worker /\ queue' = queue /\ running' = running
        /\ timers' = timers /\ cooling' = cooling /\ examined' = examined
    BY DEF Record
  <1>3. \A t \in Speakers : speaker'[t] = IF t = s THEN At("asking", c) ELSE speaker[t]
    BY <1>2 DEF TypeOK, IInv
  <1>4. \A t \in Speakers, d \in Calls :
          /\ Held(t, d)' = Held(t, d)
          /\ Asking(t, d) => Asking(t, d)'
          /\ Asking(s, c)'
    <2>1. \A t \in Speakers, d \in Calls :
            t # s => Held(t, d)' = Held(t, d) /\ Asking(t, d)' = Asking(t, d)
      BY <1>3, SpeakerMoves
    <2>2. \A d \in Calls : /\ Held(s, d) = FALSE /\ Asking(s, d) = FALSE
                           /\ Held(s, d)' = FALSE /\ Asking(s, d)' = (d = c)
      BY <1>2, <1>3, SpeakerPost, SpeakerPostNext
    <2> QED BY <2>1, <2>2
  <1>5. OneToken'
    BY <1>2, <1>4, WorkersStay, QueueStays DEF OneToken, Busy, IInv
  <1>6. OnePlace'
    BY <1>2, <1>4, WorkersStay, QueueStays DEF OnePlace, Busy, IInv
  <1>7. EntryIsToken'
    BY <1>2, <1>4, WorkersStay, QueueStays DEF EntryIsToken, Token, Busy, IInv
  <1>8. WaitedOut'
    BY <1>2, QueueStays DEF IInv
  <1>9. ReadsWhatIsThere' /\ AllNoted'
    <2>1. \A d \in Calls : speech[d] \in Nat /\ examined[d] \in Nat
      BY SchedulerAssumption DEF TypeOK, IInv
    <2>2. \A d \in Calls : speech'[d] = IF d = c THEN speech[d] + 1 ELSE speech[d]
      BY <1>2 DEF TypeOK, IInv
    <2>3. \A d \in Calls : Noted(d) => Noted(d)'
      BY <1>2, <1>4, WorkersStay, QueueStays DEF Noted
    <2>4. Noted(c)'
      BY <1>4 DEF Noted
    <2> QED BY <1>2, <2>1, <2>2, <2>3, <2>4 DEF ReadsWhatIsThere, AllNoted, IInv
  <1> QED BY <1>1, <1>5, <1>6, <1>7, <1>8, <1>9 DEF IInv

LEMMA AskInv ==
  ASSUME IInv, NEW s \in Speakers, NEW c \in Calls, Ask(s, c)
  PROVE  IInv'
  <1>1. TypeOK'
    BY NextType DEF Next, SpeakerStep, IInv
  <1>2. /\ speaker[s] = At("asking", c)
        /\ worker' = worker /\ queue' = queue /\ speech' = speech
        /\ timers' = timers /\ cooling' = cooling /\ examined' = examined
    BY DEF Ask
  <1>3. WaitedOut' /\ ReadsWhatIsThere'
    BY <1>2, QueueStays DEF ReadsWhatIsThere, IInv
  <1>4. \A d \in Calls : Held(s, d) = FALSE /\ Asking(s, d) = (d = c)
    BY <1>2, SpeakerPost
  <1>5. CASE running[c] = "no"
    <2>1. /\ \A d \in Calls : running'[d] = IF d = c THEN "once" ELSE running[d]
          /\ speaker' = [speaker EXCEPT ![s] = At("submitting", c)]
      BY <1>5 DEF Ask, TypeOK, IInv
    <2>2. \A t \in Speakers : speaker'[t] = IF t = s THEN At("submitting", c) ELSE speaker[t]
      BY <2>1 DEF TypeOK, IInv
    <2>3. \A t \in Speakers, d \in Calls :
            t # s => Held(t, d)' = Held(t, d) /\ Asking(t, d)' = Asking(t, d)
      BY <2>2, SpeakerMoves
    <2>4. \A d \in Calls : Held(s, d)' = (d = c) /\ Asking(s, d)' = FALSE
      BY <2>2, SpeakerPostNext
    <2>5. ~Token(c)
      BY <1>5 DEF EntryIsToken, IInv
    <2>6. OneToken'
      <3>1. \A t \in Speakers, d \in Calls : t # s => Held(t, d)' = Held(t, d) /\ ~Held(t, c)'
        BY <2>3, <2>5 DEF Token
      <3>2. \A t, u \in Speakers, d \in Calls : Held(t, d)' /\ Held(u, d)' => t = u
        BY <2>4, <3>1 DEF OneToken, IInv
      <3> QED BY <1>2, <3>2, WorkersStay, QueueStays DEF OneToken, Busy, IInv
    <2>7. OnePlace'
      <3>1. ~Queued(c)' /\ c \notin timers' /\ \A w \in Workers : ~Busy(w, c)'
        BY <1>2, <2>5, WorkersStay, QueueStays DEF Token, Busy
      <3>2. ASSUME NEW t \in Speakers, NEW d \in Calls, d # c PROVE Held(t, d)' = Held(t, d)
        BY <3>2, <1>4, <2>3, <2>4
      <3> QED BY <1>2, <3>1, <3>2, WorkersStay, QueueStays DEF OnePlace, Busy, IInv
    <2>8. EntryIsToken'
      <3>1. Token(c)'
        BY <2>4 DEF Token
      <3>2. ASSUME NEW d \in Calls, d # c PROVE Token(d)' <=> Token(d)
        BY <3>2, <1>2, <1>4, <2>3, <2>4, WorkersStay, QueueStays DEF Token, Busy
      <3> QED BY <2>1, <3>1, <3>2 DEF EntryIsToken, IInv
    <2>9. AllNoted'
      <3>1. Noted(c)'
        BY <2>4 DEF Noted
      <3>2. ASSUME NEW d \in Calls, d # c, Noted(d) PROVE Noted(d)'
        BY <3>2, <1>2, <1>4, <2>1, <2>3, <2>4, WorkersStay, QueueStays DEF Noted
      <3> QED BY <1>2, <3>1, <3>2 DEF AllNoted, IInv
    <2> QED BY <1>1, <1>3, <2>6, <2>7, <2>8, <2>9 DEF IInv
  <1>6. CASE running[c] # "no"
    <2>1. /\ \A d \in Calls : running'[d] = IF d = c THEN "again" ELSE running[d]
          /\ speaker' = [speaker EXCEPT ![s] = Resting]
      BY <1>6 DEF Ask, TypeOK, IInv
    <2>2. \A t \in Speakers : speaker'[t] = IF t = s THEN Resting ELSE speaker[t]
      BY <2>1 DEF TypeOK, IInv
    <2>3. \A t \in Speakers, d \in Calls :
            t # s => Held(t, d)' = Held(t, d) /\ Asking(t, d)' = Asking(t, d)
      BY <2>2, SpeakerMoves
    <2>4. \A d \in Calls : Held(s, d)' = FALSE /\ Asking(s, d)' = FALSE
      BY <2>2, SpeakerPostNext
    <2>5. Token(c)
      BY <1>6 DEF EntryIsToken, IInv
    <2>6. \A t \in Speakers, d \in Calls : Held(t, d)' = Held(t, d)
      BY <1>4, <2>3, <2>4
    <2>7. OneToken' /\ OnePlace'
      <3>1. OneToken'
        BY <1>2, <2>6, WorkersStay, QueueStays DEF OneToken, Busy, IInv
      <3>2. OnePlace'
        BY <1>2, <2>6, WorkersStay, QueueStays DEF OnePlace, Busy, IInv
      <3> QED BY <3>1, <3>2
    <2>8. EntryIsToken'
      <3>1. \A d \in Calls : Token(d)' <=> Token(d)
        BY <1>2, <2>6, WorkersStay, QueueStays DEF Token, Busy
      <3> QED BY <1>6, <2>1, <2>5, <3>1 DEF EntryIsToken, IInv
    <2>9. AllNoted'
      <3>1. Noted(c)'
        BY <1>2, <2>1, <2>5, <2>6, WorkersStay, QueueStays DEF Noted, Token, Busy
      <3>2. ASSUME NEW d \in Calls, d # c, Noted(d) PROVE Noted(d)'
        BY <3>2, <1>2, <1>4, <2>1, <2>3, <2>6, WorkersStay, QueueStays DEF Noted
      <3> QED BY <1>2, <3>1, <3>2 DEF AllNoted, IInv
    <2> QED BY <1>1, <1>3, <2>7, <2>8, <2>9 DEF IInv
  <1> QED BY <1>5, <1>6

LEMMA SubmitInv ==
  ASSUME IInv, NEW s \in Speakers, NEW c \in Calls, Submit(s, c)
  PROVE  IInv'
  <1>1. TypeOK'
    BY NextType DEF Next, SpeakerStep, IInv
  <1>2. /\ speaker[s] = At("submitting", c)
        /\ queue' = Append(queue, Task(c, FALSE))
        /\ worker' = worker /\ speech' = speech /\ running' = running
        /\ timers' = timers /\ cooling' = cooling /\ examined' = examined
    BY DEF Submit
  <1>3. \A t \in Speakers : speaker'[t] = IF t = s THEN Resting ELSE speaker[t]
    BY DEF Submit, TypeOK, IInv
  <1>4. \A t \in Speakers, d \in Calls :
          t # s => Held(t, d)' = Held(t, d) /\ Asking(t, d)' = Asking(t, d)
    BY <1>3, SpeakerMoves
  <1>5. \A d \in Calls : /\ Held(s, d) = (d = c) /\ Asking(s, d) = FALSE
                         /\ Held(s, d)' = FALSE /\ Asking(s, d)' = FALSE
    BY <1>2, <1>3, SpeakerPost, SpeakerPostNext
  <1>6. ~Queued(c) /\ c \notin timers /\ \A w \in Workers : ~Busy(w, c)
    BY <1>5 DEF OnePlace, IInv
  <1>7. /\ \A d \in Calls : Queued(d)' <=> Queued(d) \/ d = c
        /\ QueuedOnce'
        /\ \A i \in DOMAIN queue' :
             (i \in DOMAIN queue /\ queue'[i] = queue[i]) \/ queue'[i] = Task(c, FALSE)
    BY <1>2, <1>6, TaskAdded DEF TypeOK, OneToken, IInv
  <1>8. OneToken'
    BY <1>2, <1>4, <1>5, <1>7, WorkersStay DEF OneToken, Busy, IInv
  <1>9. OnePlace'
    <2>1. \A t \in Speakers : ~Held(t, c)'
      BY <1>4, <1>5 DEF OneToken, IInv
    <2> QED BY <1>2, <1>4, <1>5, <1>6, <1>7, <2>1, WorkersStay DEF OnePlace, Busy, IInv
  <1>10. EntryIsToken'
    <2>1. ASSUME NEW d \in Calls PROVE Token(d)' <=> Token(d)
      BY <1>2, <1>4, <1>5, <1>7, WorkersStay DEF Token, Busy
    <2> QED BY <1>2, <2>1 DEF EntryIsToken, IInv
  <1>11. WaitedOut' /\ ReadsWhatIsThere'
    BY <1>2, <1>7 DEF WaitedOut, ReadsWhatIsThere, Task, IInv
  <1>12. AllNoted'
    <2>1. ASSUME NEW d \in Calls, Noted(d) PROVE Noted(d)'
      BY <2>1, <1>2, <1>4, <1>5, <1>7, WorkersStay DEF Noted
    <2> QED BY <1>2, <2>1 DEF AllNoted, IInv
  <1> QED BY <1>1, <1>8, <1>9, <1>10, <1>11, <1>12 DEF IInv

-----------------------------------------------------------------------------
(* A worker's steps.                                                       *)
LEMMA PostponeInv ==
  ASSUME IInv, NEW w \in Workers, Postpone(w)
  PROVE  IInv'
  <1>1. TypeOK'
    BY NextType DEF Next, WorkerStep, IInv
  <1> DEFINE c == Head(queue).call
  <1>2. /\ queue # <<>> /\ queue' = Tail(queue) /\ timers' = timers \cup {c}
        /\ worker' = worker /\ speech' = speech /\ running' = running
        /\ speaker' = speaker /\ cooling' = cooling /\ examined' = examined
    BY DEF Postpone
  <1>3. /\ c \in Calls /\ Queued(c) /\ QueuedOnce'
        /\ \A d \in Calls : Queued(d)' <=> Queued(d) /\ d # c
        /\ \A i \in DOMAIN queue' : i + 1 \in DOMAIN queue /\ queue'[i] = queue[i + 1]
    BY <1>2, TaskTaken DEF TypeOK, OneToken, Tasks, IInv
  <1> HIDE DEF c
  <1>4. /\ \A s \in Speakers : ~Held(s, c)
        /\ \A v \in Workers : ~Busy(v, c)
        /\ c \notin timers
    BY <1>3 DEF OnePlace, IInv
  <1>5. OneToken'
    BY <1>2, <1>3, WorkersStay, SpeakersStay DEF OneToken, Busy, IInv
  <1>6. OnePlace'
    BY <1>2, <1>3, <1>4, WorkersStay, SpeakersStay DEF OnePlace, Busy, IInv
  <1>7. EntryIsToken'
    <2>1. ASSUME NEW d \in Calls PROVE Token(d)' <=> Token(d)
      BY <1>2, <1>3, WorkersStay, SpeakersStay DEF Token, Busy
    <2> QED BY <1>2, <2>1 DEF EntryIsToken, IInv
  <1>8. WaitedOut' /\ ReadsWhatIsThere'
    BY <1>2, <1>3 DEF WaitedOut, ReadsWhatIsThere, IInv
  <1>9. AllNoted'
    <2>1. ASSUME NEW d \in Calls, Noted(d) PROVE Noted(d)'
      BY <2>1, <1>2, <1>3, WorkersStay, SpeakersStay DEF Noted
    <2> QED BY <1>2, <2>1 DEF AllNoted, IInv
  <1> QED BY <1>1, <1>5, <1>6, <1>7, <1>8, <1>9 DEF IInv

(* What Start relies on: nobody else has a run of the call, and the        *)
(* interval after its last start is over.                                  *)
LEMMA StartFinds ==
  ASSUME IInv, NEW w \in Workers, Start(w)
  PROVE  LET c == Head(queue).call
         IN  /\ c \in Calls /\ Queued(c) /\ c \notin timers /\ c \notin cooling
             /\ \A s \in Speakers : ~Held(s, c)
             /\ \A v \in Workers : ~Busy(v, c)
             /\ QueuedOnce'
             /\ \A d \in Calls : Queued(d)' <=> Queued(d) /\ d # c
             /\ \A i \in DOMAIN queue' :
                  i + 1 \in DOMAIN queue /\ queue'[i] = queue[i + 1] /\ queue'[i].call # c
  <1> DEFINE c == Head(queue).call
  <1>1. queue # <<>> /\ queue' = Tail(queue)
    BY DEF Start
  <1>2. /\ c \in Calls /\ Queued(c) /\ QueuedOnce'
        /\ Head(queue) = queue[1] /\ 1 \in DOMAIN queue
        /\ \A d \in Calls : Queued(d)' <=> Queued(d) /\ d # c
        /\ \A i \in DOMAIN queue' :
             i + 1 \in DOMAIN queue /\ queue'[i] = queue[i + 1] /\ queue'[i].call # c
    BY <1>1, TaskTaken DEF TypeOK, OneToken, Tasks, IInv
  <1>3. c \notin cooling
    BY <1>2 DEF Start, WaitedOut, IInv
  <1> HIDE DEF c
  <1>4. /\ \A s \in Speakers : ~Held(s, c)
        /\ \A v \in Workers : ~Busy(v, c)
        /\ c \notin timers
    BY <1>2 DEF OnePlace, IInv
  <1> QED BY <1>2, <1>3, <1>4 DEF c

LEMMA StartInv ==
  ASSUME IInv, NEW w \in Workers, Start(w)
  PROVE  IInv'
  <1>1. TypeOK'
    BY NextType DEF Next, WorkerStep, IInv
  <1> DEFINE c == Head(queue).call
  <1>2. /\ worker[w] = Resting /\ cooling' = cooling \cup {c}
        /\ worker' = [worker EXCEPT ![w] = At("analysing", c)]
        /\ examined' = [examined EXCEPT ![c] = speech[c]]
        /\ speech' = speech /\ running' = running /\ speaker' = speaker /\ timers' = timers
    BY DEF Start
  <1>3. /\ c \in Calls /\ Queued(c) /\ c \notin timers /\ QueuedOnce'
        /\ \A s \in Speakers : ~Held(s, c)
        /\ \A v \in Workers : ~Busy(v, c)
        /\ \A d \in Calls : Queued(d)' <=> Queued(d) /\ d # c
        /\ \A i \in DOMAIN queue' :
             i + 1 \in DOMAIN queue /\ queue'[i] = queue[i + 1] /\ queue'[i].call # c
    BY StartFinds
  <1> HIDE DEF c
  <1>4. \A v \in Workers : worker'[v] = IF v = w THEN At("analysing", c) ELSE worker[v]
    BY <1>2 DEF TypeOK, IInv
  <1>5. \A v \in Workers, d \in Calls :
          v # w => Analysing(v, d)' = Analysing(v, d) /\ Resubmitting(v, d)' = Resubmitting(v, d)
    BY <1>4, WorkerMoves
  <1>6. \A d \in Calls : /\ Analysing(w, d) = FALSE /\ Resubmitting(w, d) = FALSE
                         /\ Analysing(w, d)' = (d = c) /\ Resubmitting(w, d)' = FALSE
    BY <1>2, <1>3, <1>4, WorkerPost, WorkerPostNext
  <1>7. OneToken'
    <2>1. ASSUME NEW v \in Workers, NEW d \in Calls, v # w, Busy(v, d)'
          PROVE  Busy(v, d) /\ d # c
      BY <2>1, <1>3, <1>5 DEF Busy
    <2>2. \A d \in Calls : Busy(w, d)' => d = c
      BY <1>6 DEF Busy
    <2>3. ASSUME NEW v \in Workers, NEW u \in Workers, NEW d \in Calls,
                 Busy(v, d)', Busy(u, d)'
          PROVE  v = u
      <3>1. CASE v = w \/ u = w
        BY <3>1, <2>1, <2>2, <2>3
      <3>2. CASE v # w /\ u # w
        BY <3>2, <2>1, <2>3 DEF OneToken, IInv
      <3> QED BY <3>1, <3>2
    <2> QED BY <1>2, <1>3, <2>3, SpeakersStay DEF OneToken, IInv
  <1>8. OnePlace'
    BY <1>2, <1>3, <1>5, <1>6, SpeakersStay DEF OnePlace, Busy, IInv
  <1>9. EntryIsToken'
    <2>1. ASSUME NEW d \in Calls PROVE Token(d)' <=> Token(d)
      BY <1>2, <1>3, <1>5, <1>6, SpeakersStay DEF Token, Busy
    <2> QED BY <1>2, <2>1 DEF EntryIsToken, IInv
  <1>10. WaitedOut'
    BY <1>2, <1>3 DEF WaitedOut, IInv
  <1>11. \A d \in Calls : /\ speech[d] \in Nat /\ examined[d] \in Nat
                          /\ examined'[d] = IF d = c THEN speech[d] ELSE examined[d]
    BY <1>2, SchedulerAssumption DEF TypeOK, IInv
  <1>12. ReadsWhatIsThere'
    BY <1>2, <1>11 DEF ReadsWhatIsThere, IInv
  <1>13. AllNoted'
    <2>1. ASSUME NEW d \in Calls, d # c, Noted(d) PROVE Noted(d)'
      BY <2>1, <1>2, <1>3, <1>5, <1>6, SpeakersStay DEF Noted
    <2> QED BY <1>2, <1>11, <2>1 DEF AllNoted, IInv
  <1> QED BY <1>1, <1>7, <1>8, <1>9, <1>10, <1>12, <1>13 DEF IInv

LEMMA FinishInv ==
  ASSUME IInv, NEW w \in Workers, NEW c \in Calls, Finish(w, c)
  PROVE  IInv'
  <1>1. TypeOK'
    BY NextType DEF Next, WorkerStep, IInv
  <1>2. /\ worker[w] = At("analysing", c)
        /\ queue' = queue /\ speech' = speech /\ speaker' = speaker
        /\ timers' = timers /\ cooling' = cooling /\ examined' = examined
    BY DEF Finish
  <1>3. WaitedOut' /\ ReadsWhatIsThere'
    BY <1>2, QueueStays DEF ReadsWhatIsThere, IInv
  <1>4. \A d \in Calls : Analysing(w, d) = (d = c) /\ Resubmitting(w, d) = FALSE
    BY <1>2, WorkerPost
  <1>5. /\ \A s \in Speakers : ~Held(s, c)
        /\ ~Queued(c) /\ c \notin timers
        /\ \A v \in Workers : v # w => ~Busy(v, c)
    BY <1>4 DEF OnePlace, OneToken, Busy, IInv
  <1>6. Token(c) /\ running[c] # "no"
    BY <1>4 DEF Token, Busy, EntryIsToken, IInv
  <1>7. CASE running[c] = "again"
    <2>1. /\ \A d \in Calls : running'[d] = IF d = c THEN "once" ELSE running[d]
          /\ \A v \in Workers :
               worker'[v] = IF v = w THEN At("resubmitting", c) ELSE worker[v]
      BY <1>7 DEF Finish, TypeOK, IInv
    <2>2. \A v \in Workers, d \in Calls :
            v # w => Analysing(v, d)' = Analysing(v, d) /\ Resubmitting(v, d)' = Resubmitting(v, d)
      BY <2>1, WorkerMoves
    <2>3. \A d \in Calls : Analysing(w, d)' = FALSE /\ Resubmitting(w, d)' = (d = c)
      BY <2>1, WorkerPostNext
    <2>4. \A v \in Workers, d \in Calls : Busy(v, d)' <=> Busy(v, d)
      BY <1>4, <2>2, <2>3 DEF Busy
    <2>5. OneToken' /\ OnePlace'
      BY <1>2, <2>4, SpeakersStay, QueueStays DEF OneToken, OnePlace, IInv
    <2>6. EntryIsToken'
      <3>1. ASSUME NEW d \in Calls PROVE Token(d)' <=> Token(d)
        BY <1>2, <2>4, SpeakersStay, QueueStays DEF Token
      <3> QED BY <1>6, <2>1, <3>1 DEF EntryIsToken, IInv
    <2>7. AllNoted'
      <3>1. Noted(c)'
        BY <2>3 DEF Noted
      <3>2. ASSUME NEW d \in Calls, d # c, Noted(d) PROVE Noted(d)'
        BY <3>2, <1>2, <1>4, <2>1, <2>2, SpeakersStay, QueueStays DEF Noted
      <3> QED BY <1>2, <3>1, <3>2 DEF AllNoted, IInv
    <2> QED BY <1>1, <1>3, <2>5, <2>6, <2>7 DEF IInv
  <1>8. CASE running[c] # "again"
    <2>1. /\ \A d \in Calls : running'[d] = IF d = c THEN "no" ELSE running[d]
          /\ \A v \in Workers : worker'[v] = IF v = w THEN Resting ELSE worker[v]
      BY <1>8 DEF Finish, TypeOK, IInv
    <2>2. \A v \in Workers, d \in Calls :
            v # w => Analysing(v, d)' = Analysing(v, d) /\ Resubmitting(v, d)' = Resubmitting(v, d)
      BY <2>1, WorkerMoves
    <2>3. \A d \in Calls : Analysing(w, d)' = FALSE /\ Resubmitting(w, d)' = FALSE
      BY <1>2, <2>1, WorkerPostNext
    <2>4. \A v \in Workers, d \in Calls : Busy(v, d)' <=> Busy(v, d) /\ d # c
      BY <1>4, <1>5, <2>2, <2>3 DEF Busy
    <2>5. OneToken' /\ OnePlace'
      BY <1>2, <2>4, SpeakersStay, QueueStays DEF OneToken, OnePlace, IInv
    <2>6. EntryIsToken'
      <3>1. ~Token(c)'
        BY <1>2, <1>5, <2>4, SpeakersStay, QueueStays DEF Token
      <3>2. ASSUME NEW d \in Calls, d # c PROVE Token(d)' <=> Token(d)
        BY <3>2, <1>2, <2>4, SpeakersStay, QueueStays DEF Token
      <3> QED BY <2>1, <3>1, <3>2 DEF EntryIsToken, IInv
    <2>7. AllNoted'
      <3>1. ASSUME Noted(c) PROVE \E s \in Speakers : Asking(s, c)
        BY <3>1, <1>4, <1>5, <1>8 DEF Noted, Busy
      <3>2. ASSUME Noted(c) PROVE Noted(c)'
        BY <3>1, <3>2, <1>2, SpeakersStay DEF Noted
      <3>3. ASSUME NEW d \in Calls, d # c, Noted(d) PROVE Noted(d)'
        BY <3>3, <1>2, <1>4, <2>1, <2>2, SpeakersStay, QueueStays DEF Noted
      <3> QED BY <1>2, <3>2, <3>3 DEF AllNoted, IInv
    <2> QED BY <1>1, <1>3, <2>5, <2>6, <2>7 DEF IInv
  <1> QED BY <1>7, <1>8

LEMMA ResubmitInv ==
  ASSUME IInv, NEW w \in Workers, NEW c \in Calls, Resubmit(w, c)
  PROVE  IInv'
  <1>1. TypeOK'
    BY NextType DEF Next, WorkerStep, IInv
  <1>2. /\ worker[w] = At("resubmitting", c)
        /\ queue' = Append(queue, Task(c, FALSE))
        /\ speech' = speech /\ running' = running /\ speaker' = speaker
        /\ timers' = timers /\ cooling' = cooling /\ examined' = examined
    BY DEF Resubmit
  <1>3. \A v \in Workers : worker'[v] = IF v = w THEN Resting ELSE worker[v]
    BY DEF Resubmit, TypeOK, IInv
  <1>4. \A v \in Workers, d \in Calls :
          v # w => Analysing(v, d)' = Analysing(v, d) /\ Resubmitting(v, d)' = Resubmitting(v, d)
    BY <1>3, WorkerMoves
  <1>5. \A d \in Calls : /\ Analysing(w, d) = FALSE /\ Resubmitting(w, d) = (d = c)
                         /\ Analysing(w, d)' = FALSE /\ Resubmitting(w, d)' = FALSE
    BY <1>2, <1>3, WorkerPost, WorkerPostNext
  <1>6. /\ \A s \in Speakers : ~Held(s, c)
        /\ ~Queued(c) /\ c \notin timers
        /\ \A v \in Workers : v # w => ~Busy(v, c)
    BY <1>5 DEF OnePlace, OneToken, Busy, IInv
  <1>7. /\ \A d \in Calls : Queued(d)' <=> Queued(d) \/ d = c
        /\ QueuedOnce'
        /\ \A i \in DOMAIN queue' :
             (i \in DOMAIN queue /\ queue'[i] = queue[i]) \/ queue'[i] = Task(c, FALSE)
    BY <1>2, <1>6, TaskAdded DEF TypeOK, OneToken, IInv
  <1>8. \A v \in Workers, d \in Calls : Busy(v, d)' <=> Busy(v, d) /\ d # c
    BY <1>4, <1>5, <1>6 DEF Busy
  <1>9. OneToken'
    BY <1>2, <1>7, <1>8, SpeakersStay DEF OneToken, IInv
  <1>10. OnePlace'
    BY <1>2, <1>6, <1>7, <1>8, SpeakersStay DEF OnePlace, IInv
  <1>11. EntryIsToken'
    <2>1. Token(c) /\ Token(c)'
      BY <1>5, <1>7 DEF Token, Busy
    <2>2. ASSUME NEW d \in Calls, d # c PROVE Token(d)' <=> Token(d)
      BY <2>2, <1>2, <1>7, <1>8, SpeakersStay DEF Token
    <2> QED BY <1>2, <2>1, <2>2 DEF EntryIsToken, IInv
  <1>12. WaitedOut' /\ ReadsWhatIsThere'
    BY <1>2, <1>7 DEF WaitedOut, ReadsWhatIsThere, Task, IInv
  <1>13. AllNoted'
    <2>1. ASSUME NEW d \in Calls, Noted(d) PROVE Noted(d)'
      BY <2>1, <1>2, <1>4, <1>5, <1>7, SpeakersStay DEF Noted
    <2> QED BY <1>2, <2>1 DEF AllNoted, IInv
  <1> QED BY <1>1, <1>9, <1>10, <1>11, <1>12, <1>13 DEF IInv

-----------------------------------------------------------------------------
(* Time.                                                                   *)
LEMMA IntervalEndsInv ==
  ASSUME IInv, NEW c \in Calls, IntervalEnds(c)
  PROVE  IInv'
  <1>1. TypeOK'
    BY NextType DEF Next, IInv
  <1>2. /\ worker' = worker /\ queue' = queue /\ speech' = speech /\ speaker' = speaker
        /\ timers' = timers /\ examined' = examined /\ running' = running
        /\ cooling' \subseteq cooling
    BY DEF IntervalEnds
  <1>3. OneToken' /\ OnePlace' /\ WaitedOut' /\ ReadsWhatIsThere'
    <2>1. OneToken'
      BY <1>2, WorkersStay, SpeakersStay, QueueStays DEF OneToken, Busy, IInv
    <2>2. OnePlace'
      BY <1>2, WorkersStay, SpeakersStay, QueueStays DEF OnePlace, Busy, IInv
    <2> QED BY <1>2, <2>1, <2>2, QueueStays DEF ReadsWhatIsThere, IInv
  <1>4. EntryIsToken'
    BY <1>2, WorkersStay, SpeakersStay, QueueStays DEF EntryIsToken, Token, Busy, IInv
  <1>5. AllNoted'
    BY <1>2, WorkersStay, SpeakersStay, QueueStays DEF AllNoted, Noted, IInv
  <1> QED BY <1>1, <1>3, <1>4, <1>5 DEF IInv

LEMMA TimerFiresInv ==
  ASSUME IInv, NEW c \in Calls, TimerFires(c)
  PROVE  IInv'
  <1>1. TypeOK'
    BY NextType DEF Next, IInv
  <1>2. /\ c \in timers /\ c \notin cooling /\ timers' = timers \ {c}
        /\ queue' = Append(queue, Task(c, TRUE))
        /\ worker' = worker /\ speech' = speech /\ speaker' = speaker
        /\ examined' = examined /\ running' = running /\ cooling' = cooling
    BY DEF TimerFires
  <1>3. /\ ~Queued(c)
        /\ \A s \in Speakers : ~Held(s, c)
        /\ \A w \in Workers : ~Busy(w, c)
    BY <1>2 DEF OnePlace, IInv
  <1>4. /\ \A d \in Calls : Queued(d)' <=> Queued(d) \/ d = c
        /\ QueuedOnce'
        /\ \A i \in DOMAIN queue' :
             (i \in DOMAIN queue /\ queue'[i] = queue[i]) \/ queue'[i] = Task(c, TRUE)
    BY <1>2, <1>3, TaskAdded DEF TypeOK, OneToken, IInv
  <1>5. OneToken'
    BY <1>2, <1>4, WorkersStay, SpeakersStay DEF OneToken, Busy, IInv
  <1>6. OnePlace'
    BY <1>2, <1>3, <1>4, WorkersStay, SpeakersStay DEF OnePlace, Busy, IInv
  <1>7. EntryIsToken'
    <2>1. ASSUME NEW d \in Calls PROVE Token(d)' <=> Token(d)
      BY <1>2, <1>4, WorkersStay, SpeakersStay DEF Token, Busy
    <2> QED BY <1>2, <2>1 DEF EntryIsToken, IInv
  <1>8. WaitedOut' /\ ReadsWhatIsThere'
    BY <1>2, <1>4 DEF WaitedOut, ReadsWhatIsThere, Task, IInv
  <1>9. AllNoted'
    <2>1. ASSUME NEW d \in Calls, Noted(d) PROVE Noted(d)'
      BY <2>1, <1>2, <1>4, WorkersStay, SpeakersStay DEF Noted
    <2> QED BY <1>2, <2>1 DEF AllNoted, IInv
  <1> QED BY <1>1, <1>5, <1>6, <1>7, <1>8, <1>9 DEF IInv

-----------------------------------------------------------------------------
LEMMA NextInv == IInv /\ [Next]_vars => IInv'
  <1> SUFFICES ASSUME IInv, [Next]_vars PROVE IInv'
    OBVIOUS
  <1>1. CASE UNCHANGED vars
    <2>1. /\ worker' = worker /\ queue' = queue /\ speech' = speech /\ speaker' = speaker
          /\ timers' = timers /\ examined' = examined /\ running' = running
          /\ cooling' = cooling
      BY <1>1 DEF vars
    <2>2. TypeOK'
      BY NextType DEF IInv
    <2>3. OneToken'
      BY <2>1, WorkersStay, SpeakersStay, QueueStays DEF OneToken, Busy, IInv
    <2>4. OnePlace'
      BY <2>1, WorkersStay, SpeakersStay, QueueStays DEF OnePlace, Busy, IInv
    <2>5. EntryIsToken'
      BY <2>1, WorkersStay, SpeakersStay, QueueStays DEF EntryIsToken, Token, Busy, IInv
    <2>6. WaitedOut' /\ ReadsWhatIsThere'
      BY <2>1, QueueStays DEF ReadsWhatIsThere, IInv
    <2>7. AllNoted'
      BY <2>1, WorkersStay, SpeakersStay, QueueStays DEF AllNoted, Noted, IInv
    <2> QED BY <2>2, <2>3, <2>4, <2>5, <2>6, <2>7 DEF IInv
  <1>2. CASE Next
    BY <1>2, RecordInv, AskInv, SubmitInv, PostponeInv, StartInv, FinishInv, ResubmitInv,
       IntervalEndsInv, TimerFiresInv
    DEF Next, SpeakerStep, WorkerStep
  <1> QED BY <1>1, <1>2

LEMMA Inductive == Spec => []IInv
  BY InitInv, NextInv, PTL DEF Spec

(* No two workers analyse the same call.                                   *)
THEOREM AnalysesExclude == Spec => []OneAnalysisPerCall
  <1>1. IInv => OneAnalysisPerCall
    BY DEF IInv, OneToken, Busy, Analysing, OneAnalysisPerCall
  <1> QED BY <1>1, Inductive, PTL

(* Speech no run has read is on its way to one.                            *)
THEOREM SpeechIsNoted == Spec => []NoSpeechForgotten
  <1>1. IInv => NoSpeechForgotten
    BY AllNotedIsEnough DEF IInv
  <1> QED BY <1>1, Inductive, PTL

(* A step that begins the analysis of a call is Start of that call.        *)
LEMMA OnlyStartBegins ==
  ASSUME IInv, [Next]_vars, NEW c \in Calls, c \in Analysed', c \notin Analysed
  PROVE  \E w \in Workers : Start(w) /\ Head(queue).call = c
  <1>1. PICK w \in Workers : Analysing(w, c)' /\ ~Analysing(w, c)
    BY DEF Analysed, Analysing
  <1>2. worker'[w] # worker[w] \/ worker' # worker
    BY <1>1, WorkersStay
  <1>3. ASSUME NEW v \in Workers, Start(v) PROVE Head(queue).call = c
    <2>1. /\ Head(queue).call \in Calls
          /\ \A u \in Workers :
               worker'[u] = IF u = v THEN At("analysing", Head(queue).call) ELSE worker[u]
      BY <1>3, StartFinds DEF Start, TypeOK, IInv
    <2>2. w = v
      BY <2>1, <1>1, WorkerMoves
    <2>3. Analysing(v, c)' = (c = Head(queue).call)
      BY <2>1, WorkerPostNext
    <2> QED BY <2>2, <2>3, <1>1
  <1>4. ASSUME NEW v \in Workers, NEW d \in Calls, Finish(v, d) \/ Resubmit(v, d) PROVE FALSE
    <2>1. \A u \in Workers : u # v => worker'[u] = worker[u]
      BY <1>4 DEF Finish, Resubmit, TypeOK, IInv
    <2>2. w = v
      BY <2>1, <1>1, WorkerMoves
    <2>3. worker'[v] \in {Resting, At("resubmitting", d)}
      BY <1>4 DEF Finish, Resubmit, TypeOK, IInv
    <2> QED BY <1>1, <2>2, <2>3, WorkerPostNext
  <1>5. ASSUME worker' = worker PROVE FALSE
    BY <1>5, <1>1, WorkersStay
  <1> QED BY <1>3, <1>4, <1>5
    DEF Next, SpeakerStep, WorkerStep, Record, Ask, Submit, Postpone,
        IntervalEnds, TimerFires, vars

(* A run never starts within the interval of the one before.               *)
THEOREM StartsKeepTheInterval == Spec => StartsAreSpaced
  <1>1. ASSUME IInv, [Next]_vars
        PROVE  [\A c \in Calls : c \in Analysed' \ Analysed => c \notin cooling]_vars
    <2> SUFFICES ASSUME NEW c \in Calls, c \in Analysed', c \notin Analysed
        PROVE c \notin cooling
      OBVIOUS
    <2>1. PICK w \in Workers : Start(w) /\ Head(queue).call = c
      BY <1>1, OnlyStartBegins
    <2> QED BY <1>1, <2>1, StartFinds
  <1> QED BY <1>1, Inductive, PTL DEF Spec, StartsAreSpaced

-----------------------------------------------------------------------------
(* Each step of the scheduler is one of CoalescedWork, or none.            *)
LEMMA DueStays ==
  ASSUME speech' = speech, examined' = examined
  PROVE  Due' = Due
  BY DEF Due

LEMMA AnalysedStays ==
  ASSUME worker' = worker
  PROVE  Analysed' = Analysed
  BY DEF Analysed

LEMMA AnalysedIs == \A c \in Calls : c \in Analysed <=> \E w \in Workers : Analysing(w, c)
  BY DEF Analysed, Analysing

LEMMA AnalysedIsNext ==
  \A c \in Calls : c \in Analysed' <=> \E w \in Workers : Analysing(w, c)'
  BY DEF Analysed, Analysing

LEMMA RecordSpeaks ==
  ASSUME IInv, NEW s \in Speakers, NEW c \in Calls, Record(s, c)
  PROVE  Abstract!Speak(c)
  <1>1. \A d \in Calls : /\ speech[d] \in Nat /\ examined[d] \in Nat
                         /\ examined[d] <= speech[d]
    BY SchedulerAssumption DEF IInv, TypeOK, ReadsWhatIsThere
  <1>2. /\ \A d \in Calls : speech'[d] = IF d = c THEN speech[d] + 1 ELSE speech[d]
        /\ examined' = examined /\ worker' = worker
    BY DEF Record, IInv, TypeOK
  <1>3. Due' = Due \cup {c}
    BY <1>1, <1>2 DEF Due
  <1> QED BY <1>2, <1>3, AnalysedStays DEF Abstract!Speak

LEMMA StartStarts ==
  ASSUME IInv, NEW w \in Workers, Start(w)
  PROVE  \E c \in Calls : Abstract!Start(c)
  <1> DEFINE c == Head(queue).call
  <1>1. /\ c \in Calls /\ \A v \in Workers : ~Busy(v, c)
        /\ worker' = [worker EXCEPT ![w] = At("analysing", c)]
        /\ worker[w] = Resting
        /\ examined' = [examined EXCEPT ![c] = speech[c]] /\ speech' = speech
    BY StartFinds DEF Start
  <1> HIDE DEF c
  <1>2. \A v \in Workers : worker'[v] = IF v = w THEN At("analysing", c) ELSE worker[v]
    BY <1>1 DEF TypeOK, IInv
  <1>3. \A v \in Workers, d \in Calls : v # w => Analysing(v, d)' = Analysing(v, d)
    BY <1>2, WorkerMoves
  <1>4. \A d \in Calls : Analysing(w, d)' = (d = c) /\ Analysing(w, d) = FALSE
    BY <1>1, <1>2, WorkerPost, WorkerPostNext
  <1>5. Analysed' = Analysed \cup {c}
    <2>1. \A d \in Calls : d \in Analysed' <=> d \in Analysed \/ d = c
      BY <1>1, <1>3, <1>4, AnalysedIs, AnalysedIsNext
    <2>2. Analysed \subseteq Calls /\ Analysed' \subseteq Calls
      BY DEF Analysed
    <2> QED BY <1>1, <2>1, <2>2
  <1>6. c \notin Analysed
    BY <1>1, AnalysedIs DEF Busy
  <1>7. Due' = Due \ {c}
    <2>1. \A d \in Calls : /\ speech[d] \in Nat /\ examined[d] \in Nat
                           /\ examined'[d] = IF d = c THEN speech[d] ELSE examined[d]
      BY <1>1, SchedulerAssumption DEF IInv, TypeOK
    <2> QED BY <1>1, <2>1 DEF Due
  <1> QED BY <1>1, <1>5, <1>6, <1>7 DEF Abstract!Start

LEMMA FinishEnds ==
  ASSUME IInv, NEW w \in Workers, NEW c \in Calls, Finish(w, c)
  PROVE  Abstract!End(c)
  <1>1. /\ worker[w] = At("analysing", c) /\ speech' = speech /\ examined' = examined
        /\ \A v \in Workers : v # w => worker'[v] = worker[v]
        /\ worker'[w] \in {Resting, At("resubmitting", c)}
    BY DEF Finish, TypeOK, IInv
  <1>2. \A v \in Workers, d \in Calls : v # w => Analysing(v, d)' = Analysing(v, d)
    BY <1>1, WorkerMoves
  <1>3. \A d \in Calls : Analysing(w, d)' = FALSE /\ Analysing(w, d) = (d = c)
    BY <1>1, WorkerPost, WorkerPostNext
  <1>4. \A v \in Workers : v # w => ~Analysing(v, c)
    BY <1>3 DEF OneToken, Busy, IInv
  <1>5. Analysed' = Analysed \ {c}
    <2>1. \A d \in Calls : d \in Analysed' <=> d \in Analysed /\ d # c
      BY <1>2, <1>3, <1>4, AnalysedIs, AnalysedIsNext
    <2>2. Analysed \subseteq Calls /\ Analysed' \subseteq Calls
      BY DEF Analysed
    <2> QED BY <2>1, <2>2
  <1>6. c \in Analysed
    BY <1>3, AnalysedIs
  <1> QED BY <1>1, <1>5, <1>6, DueStays DEF Abstract!End

LEMMA ResubmitStutters ==
  ASSUME IInv, NEW w \in Workers, NEW c \in Calls, Resubmit(w, c)
  PROVE  Analysed' = Analysed
  <1>1. /\ worker[w] = At("resubmitting", c)
        /\ \A v \in Workers : worker'[v] = IF v = w THEN Resting ELSE worker[v]
    BY DEF Resubmit, TypeOK, IInv
  <1>2. \A v \in Workers, d \in Calls : v # w => Analysing(v, d)' = Analysing(v, d)
    BY <1>1, WorkerMoves
  <1>3. \A d \in Calls : Analysing(w, d)' = FALSE /\ Analysing(w, d) = FALSE
    BY <1>1, WorkerPost, WorkerPostNext
  <1>4. \A d \in Calls : d \in Analysed' <=> d \in Analysed
    BY <1>2, <1>3, AnalysedIs, AnalysedIsNext
  <1> QED BY <1>4 DEF Analysed

(* Safety of the refinement: calls are analysed one run at a time, and a   *)
(* run leaves none of the speech stored before it unread.                  *)
THEOREM WorkIsCoalesced == Spec => Abstract!Spec
  <1>1. Init => Abstract!Init
    BY DEF Init, Abstract!Init, Due, Analysed, At, Resting
  <1>2. ASSUME IInv, [Next]_vars PROVE [Abstract!Next]_(Abstract!vars)
    <2>1. ASSUME NEW s \in Speakers, NEW c \in Calls, Record(s, c) PROVE Abstract!Next
      BY <1>2, <2>1, RecordSpeaks DEF Abstract!Next
    <2>2. ASSUME NEW w \in Workers, Start(w) PROVE Abstract!Next
      BY <1>2, <2>2, StartStarts DEF Abstract!Next
    <2>3. ASSUME NEW w \in Workers, NEW c \in Calls, Finish(w, c) PROVE Abstract!Next
      BY <1>2, <2>3, FinishEnds DEF Abstract!Next
    <2>4. ASSUME NEW w \in Workers, NEW c \in Calls, Resubmit(w, c)
          PROVE  UNCHANGED <<Due, Analysed>>
      <3>1. speech' = speech /\ examined' = examined
        BY <2>4 DEF Resubmit
      <3> QED BY <1>2, <2>4, <3>1, ResubmitStutters, DueStays
    <2>5. ASSUME speech' = speech, examined' = examined, worker' = worker
          PROVE  UNCHANGED <<Due, Analysed>>
      BY <2>5, DueStays, AnalysedStays
    <2> QED BY <1>2, <2>1, <2>2, <2>3, <2>4, <2>5
      DEF Next, SpeakerStep, WorkerStep, Ask, Submit, Postpone, IntervalEnds, TimerFires,
          vars, Abstract!vars
  <1> QED BY <1>1, <1>2, Inductive, PTL DEF Spec, Abstract!Spec
=============================================================================
