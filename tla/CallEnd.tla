-------------------------------- MODULE CallEnd --------------------------------
(***************************************************************************)
(* How a phone call ends: the provider's status webhooks, which wait for    *)
(* the call's media stream to drain, the sweep for calls whose hangup was   *)
(* never reported, and a person who ends it (telephony_call_service.py,     *)
(* api/v1/telephony.py, stale_call_service.py).  Several API instances      *)
(* share the database and Redis; each keeps its drain event in memory, and  *)
(* each has its own lock under which it reads the call's row, changes it    *)
(* and saves the whole of it (conversation_service.py).                     *)
(*                                                                          *)
(* Of a media socket (MediaStream has it in detail) only the order of its   *)
(* marks and the frames it has yet to settle are kept, and of the row its   *)
(* status and what was said (CallRecord has the rest).                      *)
(***************************************************************************)
EXTENDS Integers, FiniteSets

CONSTANTS
    Sockets,        \* connections of the call's media stream
    Hooks,          \* terminal status webhooks: one, repeated or lost
    Instances,      \* API instances
    Sweepers,       \* the instances that sweep for stale calls
    Desks,          \* the instances through which people end the call
    On,             \* the instance each socket and webhook reaches
    Overlapping,    \* may a socket connect before the last one is gone
    MaxFrames, MaxStarts, MaxMishaps,       \* bounds
    None

EndAssumption ==
    /\ On \in [Sockets \cup Hooks -> Instances]
    /\ Sweepers \subseteq Instances /\ Desks \subseteq Instances
    /\ Overlapping \in BOOLEAN
    /\ {MaxFrames, MaxStarts, MaxMishaps} \subseteq Nat
    /\ {"sweep", "person"} \cap (Sockets \cup Hooks) = {} /\ Sockets \cap Hooks = {}

VARIABLES
    completed,  \* the call's status, in the database
    said,       \* frames whose words are in the call
    processed,  \* times process_completed_call was asked for
    hungUp,     \* the phone call is over
    held,       \* of each instance: who holds its lock, and the words to be saved, or None
    overlapped, \* two instances have had the row in hand at once
    phase,      \* of each socket: "away", "connected", "streaming", "stopping", "closing", "gone"
    waiting,    \* of each socket: frames received and not yet settled
    heard,      \* frames received so far
    open,       \* of each instance: it has a drain event for the call
    mark,       \* the stream is marked open in Redis
    up,         \* Redis answers
    stage,      \* of each webhook: "unsent", "begin", "event", "poll", "end", "complete", "done"
    owed,       \* of each webhook: frames not settled when it arrived, none once it timed out
    sweep,      \* of each sweep: "resting" or "completing"
    idle,       \* of each sweep: [said, long] since when the call was quiet, or None
    starts, mishaps     \* count towards the bounds

record == <<completed, said, processed, hungUp, held, overlapped>>
socket == <<phase, waiting, heard, starts>>
marks == <<open, mark, up>>
hooks == <<stage, owed>>
sweeps == <<sweep, idle>>
vars == <<record, socket, marks, hooks, sweeps, mishaps>>

Frames == 1..MaxFrames

Init ==
    /\ completed = FALSE /\ said = {} /\ processed = 0 /\ hungUp = FALSE
    /\ held = [i \in Instances |-> None] /\ overlapped = FALSE
    /\ phase = [s \in Sockets |-> "away"]
    /\ waiting = [s \in Sockets |-> {}]
    /\ heard = 0 /\ starts = 0 /\ mishaps = 0
    /\ open = [i \in Instances |-> FALSE] /\ mark = FALSE /\ up = TRUE
    /\ stage = [w \in Hooks |-> "unsent"]
    /\ owed = [w \in Hooks |-> {}]
    /\ sweep = [i \in Sweepers |-> "resting"]
    /\ idle = [i \in Sweepers |-> None]

-----------------------------------------------------------------------------
(* The call's row.  A lock of one process keeps out the others of its own   *)
(* instance only; what is saved is the row as it was read, changed.         *)
Free(i) == held[i] = None
Holds(i, who) == ~Free(i) /\ held[i].by = who

ReadRow(i, who, words) ==
    /\ Free(i)
    /\ held' = [held EXCEPT ![i] = [by |-> who, said |-> said \cup words]]
    /\ overlapped' = (overlapped \/ \E j \in Instances : ~Free(j))
    /\ UNCHANGED <<completed, said, processed, hungUp>>

SaveRow(i, status) ==
    /\ completed' = status
    /\ said' = held[i].said
    /\ held' = [held EXCEPT ![i] = None]
    /\ UNCHANGED <<hungUp, overlapped>>

(* The save fails: nothing is written, and the lock is given up.            *)
SaveFails(i) ==
    /\ mishaps < MaxMishaps /\ mishaps' = mishaps + 1
    /\ held' = [held EXCEPT ![i] = None]
    /\ UNCHANGED <<completed, said, processed, hungUp, overlapped>>

(* complete_conversation: a call already completed is answered so; the one  *)
(* that completes it answers completed_now, and that starts the post-call   *)
(* processing.                                                              *)
AlreadyEnded(i) == Free(i) /\ completed /\ UNCHANGED <<record, mishaps>>
ReadToEnd(i, who) == ~completed /\ ReadRow(i, who, {}) /\ UNCHANGED mishaps
EndCall(i, who) ==
    /\ Holds(i, who)
    /\ \/ SaveRow(i, TRUE) /\ processed' = processed + 1 /\ UNCHANGED mishaps
       \/ SaveFails(i)

-----------------------------------------------------------------------------
(* The marks of an open stream: an event on its own instance and a key in  *)
(* Redis for the others.  A Redis that fails is logged and passed over.    *)
StreamOpened(i) ==
    /\ open' = [open EXCEPT ![i] = TRUE]
    /\ mark' = (mark \/ up)
    /\ UNCHANGED <<up, hooks>>

\* Mutant: the event is popped and never set.
StreamDrainedUnseen(i) ==
    /\ open' = [open EXCEPT ![i] = FALSE]
    /\ mark' = (mark /\ ~up)
    /\ UNCHANGED <<up, hooks>>

(* The popped event wakes the webhooks that wait on it.                    *)
StreamDrained(i) ==
    /\ open' = [open EXCEPT ![i] = FALSE]
    /\ mark' = (mark /\ ~up)
    /\ stage' = [w \in Hooks |-> IF stage[w] = "event" /\ On[w] = i THEN "end" ELSE stage[w]]
    /\ UNCHANGED <<up, owed>>

OpenElsewhere == mark /\ up

\* Mutant: only the streams of one's own instance are looked at.
StreamIsOpenHere(i) == open[i]
StreamIsOpen(i) == open[i] \/ OpenElsewhere

(* A socket comes to its next phase.                                       *)
Goes(s, next) ==
    /\ phase' = [phase EXCEPT ![s] = next]
    /\ UNCHANGED <<record, waiting, heard, sweeps, mishaps>>

Connect(s) ==
    /\ phase[s] = "away" /\ ~hungUp
    /\ Overlapping \/ \A r \in Sockets : phase[r] \in {"away", "gone"}
    /\ Goes(s, "connected")
    /\ StreamOpened(On[s]) /\ UNCHANGED starts

Start(s) ==
    /\ phase[s] \in {"connected", "streaming"}
    /\ starts < MaxStarts /\ starts' = starts + 1
    /\ Goes(s, "streaming")
    /\ StreamOpened(On[s])

Heartbeat(s) ==
    /\ phase[s] = "streaming"
    /\ StreamOpened(On[s])
    /\ UNCHANGED <<record, socket, sweeps, mishaps>>

Media(s) ==
    /\ phase[s] = "streaming" /\ heard < MaxFrames
    /\ heard' = heard + 1
    /\ waiting' = [waiting EXCEPT ![s] = @ \cup {heard + 1}]
    /\ UNCHANGED <<record, phase, starts, marks, hooks, sweeps, mishaps>>

(* The worker has done with a frame: nothing was said in it, or the call    *)
(* has ended.                                                               *)
Unheard(s) ==
    /\ ~Holds(On[s], s)
    /\ \E f \in waiting[s] : waiting' = [waiting EXCEPT ![s] = @ \ {f}]
    /\ UNCHANGED <<record, phase, heard, starts, marks, hooks, sweeps, mishaps>>

(* add_utterance: refused by a call that has ended.                         *)
Hear(s) ==
    /\ ~completed /\ \E f \in waiting[s] : ReadRow(On[s], s, {f})
    /\ UNCHANGED <<socket, marks, hooks, sweeps, mishaps>>

Add(s) ==
    /\ Holds(On[s], s)
    /\ waiting' = [waiting EXCEPT ![s] = @ \ held[On[s]].said]
    /\ \/ SaveRow(On[s], FALSE) /\ UNCHANGED <<processed, mishaps>>
       \/ SaveFails(On[s])
    /\ UNCHANGED <<phase, heard, starts, marks, hooks, sweeps>>

Settle(s) == Unheard(s) \/ Hear(s) \/ Add(s)

Stop(s) ==
    /\ phase[s] \in {"connected", "streaming"}
    /\ Goes(s, "stopping") /\ UNCHANGED <<starts, marks, hooks>>

(* Disconnected, or closed because the call has ended.                     *)
Disconnect(s) ==
    /\ phase[s] \in {"connected", "streaming"}
    /\ Goes(s, "closing") /\ UNCHANGED <<starts, marks, hooks>>

Drain(s) ==
    /\ waiting[s] = {}
    /\ \/ phase[s] = "stopping" /\ Goes(s, "connected")
       \/ phase[s] = "closing" /\ Goes(s, "gone")
    /\ StreamDrained(On[s]) /\ UNCHANGED starts

-----------------------------------------------------------------------------
HangUp ==
    /\ ~hungUp /\ hungUp' = TRUE
    /\ UNCHANGED <<completed, said, processed, held, overlapped, socket, marks, hooks, sweeps, mishaps>>

EndByHand(i) ==
    /\ ReadToEnd(i, "person") \/ EndCall(i, "person")
    /\ UNCHANGED <<socket, marks, hooks, sweeps>>

(* A webhook comes to its next stage.                                      *)
Follows(w, next) ==
    /\ stage' = [stage EXCEPT ![w] = next]
    /\ UNCHANGED <<socket, marks, sweeps>>

Arrive(w) ==
    /\ stage[w] = "unsent" /\ hungUp
    /\ owed' = [owed EXCEPT ![w] = UNION {waiting[s] : s \in Sockets}]
    /\ Follows(w, IF StreamIsOpen(On[w]) /\ ~completed THEN "begin" ELSE "end")
    /\ UNCHANGED <<record, mishaps>>

BeginWait(w) ==
    /\ stage[w] = "begin"
    /\ Follows(w, IF open[On[w]] THEN "event" ELSE "poll")
    /\ UNCHANGED <<record, owed, mishaps>>

Poll(w) ==
    /\ stage[w] = "poll" /\ ~OpenElsewhere
    /\ Follows(w, "end")
    /\ UNCHANGED <<record, owed, mishaps>>

TimeOut(w) ==
    /\ stage[w] \in {"event", "poll"}
    /\ owed' = [owed EXCEPT ![w] = {}]
    /\ Follows(w, "end")
    /\ UNCHANGED <<record, mishaps>>

HandleStatus(w) ==
    /\ stage[w] = "end"
    /\ Follows(w, IF completed THEN "done" ELSE "complete")
    /\ UNCHANGED <<record, owed, mishaps>>

\* Mutant: that the call is active is not looked at again under the lock.
AskEndUnread(w) ==
    /\ stage[w] = "complete"
    /\ ReadRow(On[w], w, {}) /\ Follows(w, "complete")
    /\ UNCHANGED <<owed, mishaps>>

AskEnd(w) ==
    /\ stage[w] = "complete"
    /\ \/ AlreadyEnded(On[w]) /\ Follows(w, "done")
       \/ ReadToEnd(On[w], w) /\ Follows(w, "complete")
    /\ UNCHANGED owed

Complete(w) ==
    /\ stage[w] = "complete"
    /\ EndCall(On[w], w)
    /\ Follows(w, "done")
    /\ UNCHANGED owed

-----------------------------------------------------------------------------
\* Mutant: a quiet call's clock starts again in every sweep.
NothingNewEver(i) == FALSE

(* One sweep: an active call with no open stream in which nothing new was  *)
(* said for long enough is completed.                                      *)
NothingNew(i) == IF idle[i] = None THEN FALSE ELSE idle[i].said = said

Sweep(i) ==
    /\ sweep[i] = "resting"
    /\ \/ /\ completed \/ StreamIsOpen(i)
          /\ idle' = [idle EXCEPT ![i] = None]
          /\ UNCHANGED sweep
       \/ /\ ~completed /\ ~StreamIsOpen(i) /\ ~NothingNew(i)
          /\ idle' = [idle EXCEPT ![i] = [said |-> said, long |-> FALSE]]
          /\ UNCHANGED sweep
       \/ /\ ~completed /\ ~StreamIsOpen(i) /\ NothingNew(i) /\ idle[i].long
          /\ sweep' = [sweep EXCEPT ![i] = "completing"]
          /\ UNCHANGED idle
    /\ UNCHANGED <<record, socket, marks, hooks, mishaps>>

(* A completion that fails is tried again in the next sweep.               *)
CompleteStale(i) ==
    /\ sweep[i] = "completing"
    /\ \/ ReadToEnd(i, "sweep") /\ UNCHANGED <<sweep, idle>>
       \/ /\ AlreadyEnded(i) \/ EndCall(i, "sweep")
          /\ sweep' = [sweep EXCEPT ![i] = "resting"]
          /\ idle' = IF mishaps' > mishaps THEN idle ELSE [idle EXCEPT ![i] = None]
    /\ UNCHANGED <<socket, marks, hooks>>

(* stale_call_idle_seconds pass.                                           *)
GrowsOld(i) ==
    /\ idle[i] # None /\ ~idle[i].long
    /\ idle' = [idle EXCEPT ![i].long = TRUE]
    /\ UNCHANGED <<record, socket, marks, hooks, sweep, mishaps>>

-----------------------------------------------------------------------------
(* STREAM_STATE_TTL_SECONDS pass without a renewal.  A stream that drains  *)
(* is done sooner.                                                         *)
MarkExpires ==
    /\ mark /\ mark' = FALSE
    /\ \A s \in Sockets : phase[s] # "streaming" /\ waiting[s] = {}
    /\ UNCHANGED <<record, socket, open, up, hooks, sweeps, mishaps>>

RedisFails ==
    /\ mishaps < MaxMishaps /\ mishaps' = mishaps + 1
    /\ up /\ up' = FALSE
    /\ UNCHANGED <<record, socket, open, mark, hooks, sweeps>>

RedisReturns ==
    /\ ~up /\ up' = TRUE
    /\ UNCHANGED <<record, socket, open, mark, hooks, sweeps, mishaps>>

(* An instance dies and starts again: all it kept in memory is gone.       *)
Crash(i) ==
    /\ mishaps < MaxMishaps /\ mishaps' = mishaps + 1
    /\ LET dies(s) == On[s] = i /\ phase[s] # "away" IN
       /\ phase' = [s \in Sockets |-> IF dies(s) THEN "gone" ELSE phase[s]]
       /\ waiting' = [s \in Sockets |-> IF dies(s) THEN {} ELSE waiting[s]]
    /\ open' = [open EXCEPT ![i] = FALSE]
    /\ stage' = [w \in Hooks |-> IF On[w] = i /\ stage[w] # "unsent" THEN "done" ELSE stage[w]]
    /\ sweep' = [j \in Sweepers |-> IF j = i THEN "resting" ELSE sweep[j]]
    /\ idle' = [j \in Sweepers |-> IF j = i THEN None ELSE idle[j]]
    /\ held' = [held EXCEPT ![i] = None]
    /\ UNCHANGED <<completed, said, processed, hungUp, overlapped, heard, starts, mark, up, owed>>

Receive(s) == Connect(s) \/ Start(s) \/ Heartbeat(s) \/ Media(s) \/ Stop(s) \/ Disconnect(s)
Follow(w) == BeginWait(w) \/ Poll(w) \/ TimeOut(w) \/ HandleStatus(w) \/ AskEnd(w) \/ Complete(w)

Next ==
    \/ \E s \in Sockets : Receive(s) \/ Settle(s) \/ Drain(s)
    \/ \E w \in Hooks : Arrive(w) \/ Follow(w)
    \/ \E i \in Sweepers : Sweep(i) \/ CompleteStale(i) \/ GrowsOld(i)
    \/ \E i \in Desks : EndByHand(i)
    \/ \E i \in Instances : Crash(i)
    \/ HangUp \/ MarkExpires \/ RedisFails \/ RedisReturns

Spec == Init /\ [][Next]_vars

(* Tasks and threads run, the sweep is repeated, time passes, Redis comes  *)
(* back, and the provider closes the media socket of a call that is over.  *)
(* No webhook is certain to arrive.                                        *)
FairSpec ==
    /\ Spec
    /\ \A s \in Sockets :
        WF_vars(Settle(s)) /\ WF_vars(Drain(s)) /\ SF_vars(hungUp /\ Disconnect(s))
    /\ \A w \in Hooks : WF_vars(Follow(w))
    /\ \A i \in Sweepers :
        WF_vars(Sweep(i)) /\ WF_vars(CompleteStale(i)) /\ WF_vars(GrowsOld(i))
    /\ \A i \in Desks : WF_vars(Holds(i, "person") /\ EndByHand(i))
    /\ WF_vars(MarkExpires) /\ WF_vars(RedisReturns)

-----------------------------------------------------------------------------
(* Every variable keeps to its domain.                                     *)
TypeOK ==
    /\ completed \in BOOLEAN /\ said \subseteq Frames
    /\ processed \in Nat /\ hungUp \in BOOLEAN
    /\ held \in [Instances ->
         [by: Sockets \cup Hooks \cup {"sweep", "person"}, said: SUBSET Frames] \cup {None}]
    /\ overlapped \in BOOLEAN
    /\ phase \in [Sockets -> {"away", "connected", "streaming", "stopping", "closing", "gone"}]
    /\ waiting \in [Sockets -> SUBSET Frames]
    /\ heard \in 0..MaxFrames
    /\ open \in [Instances -> BOOLEAN] /\ mark \in BOOLEAN /\ up \in BOOLEAN
    /\ stage \in [Hooks -> {"unsent", "begin", "event", "poll", "end", "complete", "done"}]
    /\ owed \in [Hooks -> SUBSET Frames]
    /\ sweep \in [Sweepers -> {"resting", "completing"}]
    /\ idle \in [Sweepers -> [said: SUBSET Frames, long: BOOLEAN] \cup {None}]
    /\ starts \in 0..MaxStarts /\ mishaps \in 0..MaxMishaps

(* "A status webhook that lands on a different instance than the call's    *)
(* media stream waits ... for that stream to finish its final audio before *)
(* completing the call": of what had been received when it arrived nothing *)
(* is left to settle, unless its wait timed out.  A stream of another      *)
(* instance counts while Redis and that instance did not fail, and a call  *)
(* already completed while no late save of another instance reopens it.    *)
FinalAudioLands ==
    [][\A w \in Hooks : Complete(w) /\ ~overlapped =>
         \A s \in Sockets :
            waiting[s] \cap owed[w] # {} => mishaps > 0 /\ On[s] # On[w]]_vars

(* "Duplicate or late callbacks never trigger post-call processing twice":  *)
(* however many webhooks, sweeps and people end the call, it is asked for   *)
(* once, by the one that ended it, unless two instances had the row in hand *)
(* at once: the lock that orders the others is of one process.              *)
ProcessedOnce == ~overlapped => processed = IF completed THEN 1 ELSE 0

(* "Drop it rather than reopening a finished conversation": a call that has *)
(* ended stays so, and words whose transcription comes late stay out of it, *)
(* with the same exception.                                                 *)
StaysEnded ==
    [][completed /\ ~overlapped => completed' /\ said' = said]_vars

(* A webhook that waits on the event of its instance waits on one that a   *)
(* stream will set: it is never left to its time limit for nothing.        *)
WaitersAreWoken ==
    \A w \in Hooks : stage[w] = "event" =>
        \E s \in Sockets : On[s] = On[w] /\ phase[s] \notin {"away", "gone"}

(* A phone call that is over is completed and stays so, although every     *)
(* webhook may be lost, Redis may fail, an instance may die while a webhook*)
(* waits, and a save of another instance may reopen the call for a time.   *)
HungUpCallsEnd == hungUp ~> []completed
=============================================================================
