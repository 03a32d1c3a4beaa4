------------------------ MODULE LiveAnalysisScheduler ------------------------
(***************************************************************************)
(* services/live_analysis_scheduler.py: speech is stored at once and the   *)
(* slow AI analysis of the whole call runs behind it, on a pool of workers *)
(* shared by all calls.  A run of one call is, at any moment, one piece of *)
(* work: being handed to the pool, queued, waiting out its interval on a   *)
(* timer, or with a worker.                                                *)
(***************************************************************************)
EXTENDS Naturals, Sequences

CONSTANTS
    Calls,
    Speakers,       \* threads that store speech and ask for analysis
    Workers,        \* the threads of the pool
    MaxSpeech       \* bound: utterances stored per call

ASSUME SchedulerAssumption == MaxSpeech \in Nat

VARIABLES
    speech,         \* utterances stored, per call
    running,        \* _running: "no" entry, FALSE as "once" or TRUE as "again"
    speaker,        \* what each speaker thread is at
    queue,          \* the executor's queue
    timers,         \* calls whose run waits for the end of their interval
    worker,         \* what each worker is at
    cooling,        \* is it too soon after the call's last start?
    examined        \* history: utterances the call's latest run read

vars == <<speech, running, speaker, queue, timers, worker, cooling, examined>>

Resting == [step |-> "resting"]
At(step, c) == [step |-> step, call |-> c]

Task(c, waited) == [call |-> c, waited |-> waited]

Init ==
    /\ speech = [c \in Calls |-> 0]
    /\ running = [c \in Calls |-> "no"]
    /\ speaker = [s \in Speakers |-> Resting]
    /\ queue = <<>>
    /\ timers = {}
    /\ worker = [w \in Workers |-> Resting]
    /\ cooling = {}
    /\ examined = [c \in Calls |-> 0]

-----------------------------------------------------------------------------
(* process_utterance and process_utterance_update: store, then ask.        *)
Record(s, c) ==
    /\ speaker[s] = Resting
    /\ speech[c] < MaxSpeech
    /\ speech' = [speech EXCEPT ![c] = speech[c] + 1]
    /\ speaker' = [speaker EXCEPT ![s] = At("asking", c)]
    /\ UNCHANGED <<running, queue, timers, worker, cooling, examined>>

(* request_analysis under the lock: note the new speech for the run there  *)
(* is, or become the one that starts a run.                                *)
\* Mutant: speech that arrives during a run is taken to be covered by it.
AskOnce(s, c) ==
    /\ speaker[s] = At("asking", c)
    /\ running' = [running EXCEPT ![c] = IF running[c] = "no" THEN "once" ELSE running[c]]
    /\ speaker' = [speaker EXCEPT ![s] =
                     IF running[c] = "no" THEN At("submitting", c) ELSE Resting]
    /\ UNCHANGED <<speech, queue, timers, worker, cooling, examined>>

\* Mutant: the follow-up is started at once instead of being noted.
AskAnyway(s, c) ==
    /\ speaker[s] = At("asking", c)
    /\ running' = [running EXCEPT ![c] = "once"]
    /\ speaker' = [speaker EXCEPT ![s] = At("submitting", c)]
    /\ UNCHANGED <<speech, queue, timers, worker, cooling, examined>>

Ask(s, c) ==
    /\ speaker[s] = At("asking", c)
    /\ IF running[c] = "no"
       THEN /\ running' = [running EXCEPT ![c] = "once"]
            /\ speaker' = [speaker EXCEPT ![s] = At("submitting", c)]
       ELSE /\ running' = [running EXCEPT ![c] = "again"]
            /\ speaker' = [speaker EXCEPT ![s] = Resting]
    /\ UNCHANGED <<speech, queue, timers, worker, cooling, examined>>

(* _submit, outside the lock.                                              *)
Submit(s, c) ==
    /\ speaker[s] = At("submitting", c)
    /\ queue' = Append(queue, Task(c, FALSE))
    /\ speaker' = [speaker EXCEPT ![s] = Resting]
    /\ UNCHANGED <<speech, running, timers, worker, cooling, examined>>

-----------------------------------------------------------------------------
(* A worker takes the oldest task and runs _run.                           *)

(* Too soon: back later, on a timer that holds no worker.                  *)
Postpone(w) ==
    /\ worker[w] = Resting
    /\ queue # <<>>
    /\ Head(queue).call \in cooling
    /\ ~Head(queue).waited
    /\ timers' = timers \cup {Head(queue).call}
    /\ queue' = Tail(queue)
    /\ UNCHANGED <<speech, running, speaker, worker, cooling, examined>>

\* Mutant: the interval is not looked at.
StartEager(w) ==
    /\ worker[w] = Resting
    /\ queue # <<>>
    /\ LET c == Head(queue).call
       IN  /\ worker' = [worker EXCEPT ![w] = At("analysing", c)]
           /\ cooling' = cooling \cup {c}
           /\ examined' = [examined EXCEPT ![c] = speech[c]]
    /\ queue' = Tail(queue)
    /\ UNCHANGED <<speech, running, speaker, timers>>

(* The interval starts, and analyze_latest_speech reads the call as it is. *)
Start(w) ==
    /\ worker[w] = Resting
    /\ queue # <<>>
    /\ Head(queue).call \notin cooling \/ Head(queue).waited
    /\ LET c == Head(queue).call
       IN  /\ worker' = [worker EXCEPT ![w] = At("analysing", c)]
           /\ cooling' = cooling \cup {c}
           /\ examined' = [examined EXCEPT ![c] = speech[c]]
    /\ queue' = Tail(queue)
    /\ UNCHANGED <<speech, running, speaker, timers>>

(* The analysis ended, well or with an error that is logged.  Under the    *)
(* lock: no newer speech, and the call's entry goes; or the entry stays    *)
(* for one more run.                                                       *)
\* Mutant: the entry goes although newer speech was noted.
FinishForgetting(w, c) ==
    /\ worker[w] = At("analysing", c)
    /\ running' = [running EXCEPT ![c] = "no"]
    /\ worker' = [worker EXCEPT ![w] = Resting]
    /\ UNCHANGED <<speech, speaker, queue, timers, cooling, examined>>

\* Mutant: the worker takes the place of a thread that asked.
FinishAsAsker(w, c) ==
    /\ worker[w] = At("analysing", c)
    /\ running' = [running EXCEPT ![c] = IF running[c] = "again" THEN "once" ELSE "no"]
    /\ worker' = [worker EXCEPT ![w] =
                    IF running[c] = "again" THEN At("submitting", c) ELSE Resting]
    /\ UNCHANGED <<speech, speaker, queue, timers, cooling, examined>>

Finish(w, c) ==
    /\ worker[w] = At("analysing", c)
    /\ IF running[c] = "again"
       THEN /\ running' = [running EXCEPT ![c] = "once"]
            /\ worker' = [worker EXCEPT ![w] = At("resubmitting", c)]
       ELSE /\ running' = [running EXCEPT ![c] = "no"]
            /\ worker' = [worker EXCEPT ![w] = Resting]
    /\ UNCHANGED <<speech, speaker, queue, timers, cooling, examined>>

Resubmit(w, c) ==
    /\ worker[w] = At("resubmitting", c)
    /\ queue' = Append(queue, Task(c, FALSE))
    /\ worker' = [worker EXCEPT ![w] = Resting]
    /\ UNCHANGED <<speech, running, speaker, timers, cooling, examined>>

-----------------------------------------------------------------------------
(* Time: a call's interval ends, and then the timer set for it goes off.   *)
IntervalEnds(c) ==
    /\ c \in cooling
    /\ cooling' = cooling \ {c}
    /\ UNCHANGED <<speech, running, speaker, queue, timers, worker, examined>>

TimerFires(c) ==
    /\ c \in timers
    /\ c \notin cooling
    /\ timers' = timers \ {c}
    /\ queue' = Append(queue, Task(c, TRUE))
    /\ UNCHANGED <<speech, running, speaker, worker, cooling, examined>>

-----------------------------------------------------------------------------
SpeakerStep(s) == \E c \in Calls : Ask(s, c) \/ Submit(s, c)

WorkerStep(w) ==
    \/ Postpone(w)
    \/ Start(w)
    \/ \E c \in Calls : Finish(w, c) \/ Resubmit(w, c)

Next ==
    \/ \E s \in Speakers : SpeakerStep(s) \/ \E c \in Calls : Record(s, c)
    \/ \E w \in Workers : WorkerStep(w)
    \/ \E c \in Calls : IntervalEnds(c) \/ TimerFires(c)

Spec == Init /\ [][Next]_vars

(* Threads run, provider calls return or time out, and time passes; speech *)
(* need not come.                                                          *)
FairSpec ==
    /\ Spec
    /\ \A s \in Speakers : WF_vars(SpeakerStep(s))
    /\ \A w \in Workers : WF_vars(WorkerStep(w))
    /\ \A c \in Calls : WF_vars(IntervalEnds(c)) /\ WF_vars(TimerFires(c))

-----------------------------------------------------------------------------
Tasks == [call: Calls, waited: BOOLEAN]
SpeakerPosts == [step: {"asking", "submitting"}, call: Calls] \cup {Resting}
WorkerPosts == [step: {"analysing", "resubmitting"}, call: Calls] \cup {Resting}

(* Every variable keeps to its domain.                                     *)
TypeOK ==
    /\ speech \in [Calls -> 0..MaxSpeech]
    /\ running \in [Calls -> {"no", "once", "again"}]
    /\ speaker \in [Speakers -> SpeakerPosts]
    /\ queue \in Seq(Tasks)
    /\ timers \subseteq Calls
    /\ worker \in [Workers -> WorkerPosts]
    /\ cooling \subseteq Calls
    /\ examined \in [Calls -> 0..MaxSpeech]

(* "at most one analysis runs per call at a time"                          *)
OneAnalysisPerCall ==
    \A v, w \in Workers, c \in Calls :
        worker[v] = At("analysing", c) /\ worker[w] = At("analysing", c) => v = w

Analysed == {c \in Calls : \E w \in Workers : worker[w] = At("analysing", c)}

Queued(c) == \E i \in DOMAIN queue : queue[i].call = c

InHand(c) ==
    \/ \E s \in Speakers : speaker[s] = At("submitting", c)
    \/ Queued(c)
    \/ c \in timers
    \/ \E w \in Workers : worker[w] = At("resubmitting", c)

(* Speech no run has read is about to be asked for, or a run of the call   *)
(* is on its way, or the run there is will be followed by another: no      *)
(* wake-up is lost between a run's reading of the call and its end.        *)
NoSpeechForgotten ==
    \A c \in Calls : speech[c] > examined[c] =>
        \/ \E s \in Speakers : speaker[s] = At("asking", c)
        \/ InHand(c)
        \/ running[c] = "again" /\ c \in Analysed

(* A run never starts within the interval of the one before.               *)
StartsAreSpaced ==
    [][\A c \in Calls : c \in Analysed' \ Analysed => c \notin cooling]_vars

(* All stored speech is read by a run in the end.                          *)
SpeechIsExamined ==
    \A c \in Calls, n \in 1..MaxSpeech : speech[c] = n ~> examined[c] >= n

(* The scheduler, under this fairness, is coalesced work: a call is due    *)
(* while it has speech its latest run did not read.                        *)
Due == {c \in Calls : speech[c] > examined[c]}

Abstract == INSTANCE CoalescedWork WITH due <- Due, active <- Analysed
ImplementsCoalescedWork == Abstract!FairSpec
=============================================================================
