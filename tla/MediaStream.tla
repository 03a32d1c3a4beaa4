------------------------------ MODULE MediaStream ------------------------------
(***************************************************************************)
(* The audio of one phone call on its way from the media socket into the   *)
(* call: the socket's receive loop and its chunk worker (telephony_ws.py)  *)
(* and, on each API instance, the LiveChunkProcessingService that takes the*)
(* chunks of a call in order.                                              *)
(*                                                                         *)
(* A frame is one media message; a chunk is the frames flushed together,   *)
(* with its number in the stream.  The model has one track, no speech that *)
(* transcribes to nothing or fails to, and no times: those of a chunk go   *)
(* forward as its number does.  That the call's row is read and saved in   *)
(* two steps is in CallEnd and CallRecord; here words are added in one.    *)
(***************************************************************************)
EXTENDS Integers, Sequences, SequencesExt

CONSTANTS
    Sockets,        \* connections of the call's media stream
    Instances,      \* API instances
    On,             \* the instance each socket reaches
    Overlapping,    \* may a socket connect before the last one is gone
    MaxFrames, MaxStarts, MaxHolds, MaxMishaps,     \* bounds
    None

StreamAssumption ==
    /\ On \in [Sockets -> Instances]
    /\ Overlapping \in BOOLEAN
    /\ {MaxFrames, MaxStarts, MaxHolds, MaxMishaps} \subseteq Nat

VARIABLES
    call,       \* "active", "held" or "completed", in the database
    landed,     \* frames whose words are in the call
    heard,      \* frames received so far
    unsent,     \* frames flushed and not handed to the worker
    phase,      \* of each socket: "away", "receiving", "checking", "stopping", "closing", "gone"
    buffers,    \* of each socket: the audio buffer's frames, None without one
    numbered,   \* of each socket: the number of its next chunk
    queue,      \* of each socket: chunks, and restarts (None), for its worker
    busy,       \* of each socket: the chunk being transcribed, or None
    progress,   \* of each instance: how far the call's chunks are, or None
    refused,    \* frames of chunks refused as repeated, out of order or late
    gap,        \* a numbered chunk was left out
    starts, holds, mishaps      \* count towards the bounds

speech == <<call, landed>>
socket == <<heard, unsent, phase, buffers, numbered, queue>>
chunks == <<busy, progress, refused, gap>>
bounds == <<starts, holds, mishaps>>
vars == <<speech, socket, chunks, bounds>>

Frames == 1..MaxFrames
Chunks == [frames: SUBSET Frames, number: 0..MaxFrames, final: BOOLEAN]

Init ==
    /\ call = "active" /\ landed = {} /\ heard = 0 /\ unsent = {}
    /\ phase = [s \in Sockets |-> "away"]
    /\ buffers = [s \in Sockets |-> None]
    /\ numbered = [s \in Sockets |-> 0]
    /\ queue = [s \in Sockets |-> <<>>]
    /\ busy = [s \in Sockets |-> None]
    /\ progress = [i \in Instances |-> None]
    /\ refused = {} /\ gap = FALSE
    /\ starts = 0 /\ holds = 0 /\ mishaps = 0

-----------------------------------------------------------------------------
(* The receive loop.                                                       *)
Connect(s) ==
    /\ phase[s] = "away"
    /\ Overlapping \/ \A r \in Sockets : phase[r] \in {"away", "gone"}
    /\ phase' = [phase EXCEPT ![s] = "receiving"]
    /\ UNCHANGED <<speech, heard, unsent, buffers, numbered, queue, chunks, bounds>>

(* What the buffer still holds goes to the worker under the next number,   *)
(* or nowhere: when it is too short, silent on its side of the call or     *)
(* cannot be encoded.                                                      *)
Flushed(s, final, sent) ==
    IF buffers[s] \in {None, {}} \/ ~sent THEN queue[s]
    ELSE Append(queue[s], [frames |-> buffers[s], number |-> numbered[s], final |-> final])

Unsent(s, sent) == IF buffers[s] = None \/ sent THEN unsent ELSE unsent \cup buffers[s]

\* Mutant: a second start forgets what the buffer holds.
StartAfresh(s) ==
    /\ phase[s] = "receiving" /\ starts < MaxStarts
    /\ queue' = [queue EXCEPT ![s] = Append(@, None)]
    /\ numbered' = [numbered EXCEPT ![s] = 0]
    /\ buffers' = [buffers EXCEPT ![s] = {}]
    /\ phase' = [phase EXCEPT ![s] = "checking"]
    /\ starts' = starts + 1
    /\ UNCHANGED <<speech, heard, unsent, chunks, holds, mishaps>>

(* stream_started(): the chunks are numbered from 0 again, and the worker  *)
(* is told so in its turn.                                                 *)
Start(s) ==
    /\ phase[s] = "receiving" /\ starts < MaxStarts
    /\ \E sent \in BOOLEAN :
        /\ queue' = [queue EXCEPT ![s] = Append(Flushed(s, FALSE, sent), None)]
        /\ unsent' = Unsent(s, sent)
    /\ numbered' = [numbered EXCEPT ![s] = 0]
    /\ buffers' = [buffers EXCEPT ![s] = {}]
    /\ phase' = [phase EXCEPT ![s] = "checking"]
    /\ starts' = starts + 1
    /\ UNCHANGED <<speech, heard, chunks, holds, mishaps>>

(* A frame joins the buffer and may complete a chunk, which is not sent if *)
(* it is silent.  The call's end is looked up once a second at most.       *)
Media(s) ==
    /\ phase[s] = "receiving" /\ buffers[s] # None /\ heard < MaxFrames
    /\ heard' = heard + 1
    /\ LET audio == buffers[s] \cup {heard + 1} IN
       \/ /\ buffers' = [buffers EXCEPT ![s] = audio]
          /\ UNCHANGED <<queue, numbered, unsent>>
       \/ /\ unsent' = unsent \cup audio
          /\ buffers' = [buffers EXCEPT ![s] = {}]
          /\ UNCHANGED <<queue, numbered>>
       \/ /\ queue' = [queue EXCEPT ![s] =
                Append(@, [frames |-> audio, number |-> numbered[s], final |-> FALSE])]
          /\ numbered' = [numbered EXCEPT ![s] = @ + 1]
          /\ buffers' = [buffers EXCEPT ![s] = {}]
          /\ UNCHANGED unsent
    /\ phase' \in {phase, [phase EXCEPT ![s] = "checking"]}
    /\ UNCHANGED <<speech, chunks, bounds>>

(* The stream's last flush: no number is given out before the next start.  *)
FlushTo(s, next) ==
    /\ \E sent \in BOOLEAN :
        /\ queue' = [queue EXCEPT ![s] = Flushed(s, TRUE, sent)]
        /\ unsent' = Unsent(s, sent)
    /\ buffers' = [buffers EXCEPT ![s] = None]
    /\ phase' = [phase EXCEPT ![s] = next]
    /\ UNCHANGED <<speech, heard, numbered, chunks, bounds>>

Stop(s) == phase[s] = "receiving" /\ FlushTo(s, "stopping")
Disconnect(s) == phase[s] = "receiving" /\ FlushTo(s, "closing")
EndedElsewhere(s) == phase[s] = "checking" /\ call = "completed" /\ FlushTo(s, "closing")

Goes(s, next) ==
    /\ phase' = [phase EXCEPT ![s] = next]
    /\ UNCHANGED <<speech, heard, unsent, buffers, numbered, queue, chunks, bounds>>

StillOn(s) == phase[s] = "checking" /\ call # "completed" /\ Goes(s, "receiving")

\* Mutant: a chunk left out is never marked done.
WorkerHasDoneAll(s) == queue[s] = <<>> /\ busy[s] = None /\ ~gap

WorkerIsIdle(s) == queue[s] = <<>> /\ busy[s] = None
Drained(s) == phase[s] = "stopping" /\ WorkerIsIdle(s) /\ Goes(s, "checking")
Closed(s) == phase[s] = "closing" /\ WorkerIsIdle(s) /\ Goes(s, "gone")

-----------------------------------------------------------------------------
(* The worker and the processing service of its instance.                  *)
Takes(s) ==
    /\ busy[s] = None /\ queue[s] # <<>>
    /\ queue' = [queue EXCEPT ![s] = Tail(@)]
    /\ UNCHANGED <<speech, heard, unsent, phase, buffers, numbered, starts, holds>>

\* Mutant: a stream that stopped stays completed.
RestartedCompleted(p) ==
    IF p = None THEN None ELSE [next |-> p.next, base |-> p.next, final |-> p.final]

(* A restarted stream counts on from where the call is.                    *)
Restarted(p) ==
    IF p = None THEN None ELSE [next |-> p.next, base |-> p.next, final |-> FALSE]

Restart(s) ==
    /\ Takes(s) /\ Head(queue[s]) = None
    /\ progress' = [progress EXCEPT ![On[s]] = Restarted(@)]
    /\ UNCHANGED <<busy, refused, gap, mishaps>>

TakesChunk(s) == Takes(s) /\ Head(queue[s]) # None

(* _process_chunk returns before the service sees the chunk: the call has  *)
(* ended, is on hold, or (a mishap) could not be read.                     *)
LeaveOut(s) ==
    /\ TakesChunk(s)
    /\ \/ call # "active" /\ UNCHANGED mishaps
       \/ mishaps < MaxMishaps /\ mishaps' = mishaps + 1
    /\ gap' = TRUE
    /\ UNCHANGED <<busy, progress, refused>>

InOrder(p, c) ==
    IF p = None THEN c.number = 0 ELSE ~p.final /\ c.number + p.base = p.next

Refuse(s) ==
    /\ TakesChunk(s) /\ call = "active"
    /\ ~InOrder(progress[On[s]], Head(queue[s]))
    /\ refused' = refused \cup Head(queue[s]).frames
    /\ UNCHANGED <<busy, progress, gap, mishaps>>

Fresh == [next |-> 0, base |-> 0, final |-> FALSE]

Transcribe(s) ==
    /\ TakesChunk(s) /\ call = "active"
    /\ InOrder(progress[On[s]], Head(queue[s]))
    /\ busy' = [busy EXCEPT ![s] = Head(queue[s])]
    /\ progress' = [progress EXCEPT ![On[s]] = IF @ = None THEN Fresh ELSE @]
    /\ UNCHANGED <<refused, gap, mishaps>>

\* Mutant: the caller and the service both move on.
ConsumedTwice(p, c) == [p EXCEPT !.next = c.number + p.base + 2, !.final = c.final]

(* Either way the chunk is consumed.                                       *)
Consumed(p, c) == [p EXCEPT !.next = c.number + p.base + 1, !.final = c.final]

(* The words are added unless the call has ended meanwhile.                *)
Transcribed(s) ==
    /\ busy[s] # None
    /\ landed' = IF call = "completed" THEN landed ELSE landed \cup busy[s].frames
    /\ progress' = [progress EXCEPT ![On[s]] = Consumed(@, busy[s])]
    /\ busy' = [busy EXCEPT ![s] = None]
    /\ UNCHANGED <<call, socket, refused, gap, bounds>>

-----------------------------------------------------------------------------
(* Meanwhile in the call, and with the instances.                          *)
Becomes(status) == call' = status /\ UNCHANGED <<landed, socket, chunks, starts, mishaps>>

Hold == call = "active" /\ holds < MaxHolds /\ holds' = holds + 1 /\ Becomes("held")
Resume == call = "held" /\ Becomes("active") /\ UNCHANGED holds
Complete == call # "completed" /\ Becomes("completed") /\ UNCHANGED holds

Crash(i) ==
    /\ mishaps < MaxMishaps /\ mishaps' = mishaps + 1
    /\ LET dies(s) == On[s] = i /\ phase[s] # "away" IN
       /\ phase' = [s \in Sockets |-> IF dies(s) THEN "gone" ELSE phase[s]]
       /\ buffers' = [s \in Sockets |-> IF dies(s) THEN None ELSE buffers[s]]
       /\ queue' = [s \in Sockets |-> IF dies(s) THEN <<>> ELSE queue[s]]
       /\ busy' = [s \in Sockets |-> IF dies(s) THEN None ELSE busy[s]]
    /\ progress' = [progress EXCEPT ![i] = None]
    /\ UNCHANGED <<speech, heard, unsent, numbered, refused, gap, starts, holds>>

Receive(s) == Connect(s) \/ Start(s) \/ Media(s) \/ Stop(s) \/ Disconnect(s)
Follow(s) == EndedElsewhere(s) \/ StillOn(s) \/ Drained(s) \/ Closed(s)
Work(s) == Restart(s) \/ LeaveOut(s) \/ Refuse(s) \/ Transcribe(s) \/ Transcribed(s)

Next ==
    \/ \E s \in Sockets : Receive(s) \/ Follow(s) \/ Work(s)
    \/ \E i \in Instances : Crash(i)
    \/ Hold \/ Resume \/ Complete

Spec == Init /\ [][Next]_vars

(* The tasks of a socket run, and transcriptions return.                   *)
FairSpec == Spec /\ \A s \in Sockets : WF_vars(Follow(s)) /\ WF_vars(Work(s))

-----------------------------------------------------------------------------
Counts == [next: 0..MaxFrames, base: 0..MaxFrames, final: BOOLEAN]

(* Every variable keeps to its domain: no stream counts past its frames.   *)
TypeOK ==
    /\ call \in {"active", "held", "completed"}
    /\ landed \subseteq Frames /\ unsent \subseteq Frames /\ heard \in 0..MaxFrames
    /\ phase \in [Sockets -> {"away", "receiving", "checking", "stopping", "closing", "gone"}]
    /\ buffers \in [Sockets -> (SUBSET Frames) \cup {None}]
    /\ numbered \in [Sockets -> 0..MaxFrames]
    /\ queue \in [Sockets -> Seq(Chunks \cup {None})]
    /\ busy \in [Sockets -> Chunks \cup {None}]
    /\ progress \in [Instances -> Counts \cup {None}]
    /\ refused \subseteq Frames /\ gap \in BOOLEAN
    /\ starts \in 0..MaxStarts /\ holds \in 0..MaxHolds /\ mishaps \in 0..MaxMishaps

(* However a stream stops and starts again, on one socket or the next,     *)
(* its chunks count on: none is refused unless one before was left out.    *)
StreamsCountOn == refused # {} => gap

(* "holding the sequence back would reject every later chunk of the call   *)
(* as out of order": no chunk is ever rejected.                            *)
NoChunkIsRejected == refused = {}

(* "A disconnect without stop must not discard the call's final audio":    *)
(* while the call goes on, what a closing socket still holds is in it when *)
(* the socket is gone, unless a chunk was left out, the instance died or   *)
(* the audio was too short or silent to be sent.                           *)
Waiting(s) ==
    (IF buffers[s] = None THEN {} ELSE buffers[s])
      \cup UNION {c.frames : c \in (Range(queue[s]) \cup {busy[s]}) \ {None}}
AllAudioLands ==
    call # "completed" /\ ~gap /\ mishaps = 0
        => 1..heard \subseteq landed \cup unsent \cup UNION {Waiting(s) : s \in Sockets}

(* A socket whose stream stops or closes is not held up for ever by its    *)
(* queue.                                                                  *)
StopsAreAnswered ==
    \A s \in Sockets : phase[s] \in {"stopping", "closing"} ~> phase[s] \notin {"stopping", "closing"}
=============================================================================
