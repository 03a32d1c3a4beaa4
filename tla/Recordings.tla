------------------------------ MODULE Recordings ------------------------------
(***************************************************************************)
(* What a call's audio is kept for.  The media socket (telephony_ws.py)    *)
(* keeps it while it streams (call_recording_store.py), and hands it on    *)
(* when its stream ends: to the store post-call processing takes it from to*)
(* transcribe the call again (post_call_retranscription.py), and to the    *)
(* archive (recording_archive.py), which keeps a file and a row of it until*)
(* the retention sweep removes the file.                                   *)
(*                                                                         *)
(* One call.  Audio goes in frames of one track: a loud frame is a word,   *)
(* named by its number in the call, a quiet one is 0.  The live transcript *)
(* and the one made from the recording are the words they hold.            *)
(***************************************************************************)
EXTENDS Integers, Sequences, FiniteSets

CONSTANTS
    Sockets,                \* the connections the call's audio can come over
    MaxSeconds,             \* a recording's limit, in frames
    Window, LeadIn,         \* of the windows transcribed again, in frames
    Retention,              \* how long a recording is kept
    MaxStreams, MaxFrames, MaxClock, MaxCrashes, MaxFailures,    \* bounds
    None

RecordingsAssumption ==
    /\ {MaxSeconds, Window, Retention} \subseteq Nat \ {0}
    \* More than a second of window, and 0.2 s of lead-in.
    /\ LeadIn \in Nat /\ Window \div 2 > LeadIn

VARIABLES
    socket,     \* of each connection: its stream and the recording it keeps
    streams,    \* begun afresh, and frames heard
    live,       \* words of the live transcript
    transcript, \* words of the call's transcript
    completed,  \* the call: still on, ended, or its transcript revised (or left)
    held,       \* the recording in the store of this instance, or None
    jobs,       \* recordings being written to the archive
    file, row,  \* what the archive has of the call
    sweep,      \* the row a sweep has removed the file of, or None
    clock, mishaps

streamVars == <<socket, streams, live>>
archiveVars == <<jobs, file, row, sweep>>
recordingVars == <<streamVars, transcript, completed, held, archiveVars, clock, mishaps>>

Closed == [open |-> FALSE, buffers |-> FALSE, recording |-> None]
Init ==
    /\ socket = [s \in Sockets |-> Closed]
    /\ streams = [begun |-> 0, frames |-> 0]
    /\ live = {} /\ transcript = {}
    /\ completed = "no"
    /\ held = None
    /\ jobs = {} /\ file = None /\ row = None /\ sweep = None
    /\ clock = 0
    /\ mishaps = [crashes |-> 0, failures |-> 0]

Mishap(what, limit) == mishaps[what] < limit /\ mishaps' = [mishaps EXCEPT ![what] = @ + 1]

-----------------------------------------------------------------------------
(* The stream.                                                              *)

\* A restart on one connection, its buffers not yet handed over: the audio no longer lines up with the
\* stream's times, and is not kept.
StreamStarts(s) ==
    /\ completed = "no"
    /\ streams.begun < MaxStreams \/ socket[s].buffers
    /\ socket' = [socket EXCEPT ![s] = [open |-> TRUE, buffers |-> TRUE,
            recording |-> IF socket[s].buffers THEN None
                          ELSE [audio |-> <<>>, truncated |-> FALSE]]]
    /\ streams' = IF socket[s].buffers THEN streams ELSE [streams EXCEPT !.begun = @ + 1]
    /\ UNCHANGED <<live, transcript, completed, held, archiveVars, clock, mishaps>>

\* CallRecording.append()
Appended(recording, frame) ==
    IF Len(recording.audio) < MaxSeconds
    THEN [recording EXCEPT !.audio = Append(@, frame)]
    ELSE [recording EXCEPT !.truncated = TRUE]

\* What is heard is transcribed live too.
Media(s, loud) ==
    /\ completed = "no" /\ socket[s].buffers
    /\ streams.frames < MaxFrames
    /\ streams' = [streams EXCEPT !.frames = @ + 1]
    /\ LET frame == IF loud THEN streams.frames + 1 ELSE 0 IN
       /\ socket' = [socket EXCEPT ![s].recording =
                        IF @ = None THEN None ELSE Appended(@, frame)]
       /\ live' = IF loud THEN live \cup {frame} ELSE live
       /\ transcript' = live'
    /\ UNCHANGED <<completed, held, archiveVars, clock, mishaps>>

\* _store_recording(): the newest recording of a call replaces the one in the store.
Stores(recording) ==
    IF recording = None \/ recording.audio = <<>> THEN UNCHANGED <<held, jobs>>
    ELSE held' = recording /\ jobs' = jobs \cup {[recording |-> recording, at |-> "check"]}

StreamStops(s) ==
    /\ socket[s].open /\ socket[s].buffers
    /\ Stores(socket[s].recording)
    /\ socket' = [socket EXCEPT ![s] = [Closed EXCEPT !.open = TRUE]]
    /\ UNCHANGED <<streams, live, transcript, completed, file, row, sweep, clock, mishaps>>

Disconnects(s) ==
    /\ socket[s].open
    /\ Stores(socket[s].recording)
    /\ socket' = [socket EXCEPT ![s] = Closed]
    /\ UNCHANGED <<streams, live, transcript, completed, file, row, sweep, clock, mishaps>>

CallEnds ==
    /\ completed = "no"
    /\ completed' = "yes"
    /\ UNCHANGED <<streamVars, transcript, held, archiveVars, clock, mishaps>>

\* Newer calls' recordings push this one out, or it has waited too long.
Evicted ==
    /\ held # None
    /\ Mishap("failures", MaxFailures)
    /\ held' = None
    /\ UNCHANGED <<streamVars, transcript, completed, archiveVars, clock>>

-----------------------------------------------------------------------------
(* Transcribing the call again.                                             *)

Loud(audio, first, last) == {i \in first..last : audio[i] # 0}
Earliest(S) == CHOOSE i \in S : \A j \in S : i <= j

\* The pauses that begin between first and limit, and end by it: each as its first frame and length.
Pauses(audio, first, limit) ==
    {p \in {<<a, n>> : a \in first..(limit - 1), n \in 1..Window} :
        /\ p[1] + p[2] <= limit
        /\ Loud(audio, p[1], p[1] + p[2] - 1) = {}
        /\ p[1] = first \/ audio[p[1] - 1] # 0
        /\ p[1] + p[2] = limit \/ audio[p[1] + p[2]] # 0}

\* _cut_point(): the middle of the first of the longest pauses.
CutPoint(audio, first, limit) ==
    LET pauses == Pauses(audio, first, limit)
        longest == {p \in pauses : \A q \in pauses : q[2] <= p[2]}
    IN IF pauses = {} THEN limit
       ELSE LET start == Earliest({p[1] : p \in longest})
                length == (CHOOSE p \in longest : p[1] = start)[2]
            IN start + length \div 2

\* Mutant: the silence the window would begin with is skipped without a look at what follows it.
WindowsSkipping(audio) ==
    LET n == Len(audio)
        from[p \in 1..(n + 1)] ==
            IF Loud(audio, p, n) = {} THEN {}
            ELSE LET end == IF p + Window > n THEN n + 1 ELSE p + Window
                 IN {<<p, end>>} \cup (IF end + LeadIn > n THEN {} ELSE from[end + LeadIn])
    IN from[1]

\* _speech_windows(): frames from the first of each window up to its end, left out.  The silence before
\* speech is skipped but for a lead-in.
Windows(audio) ==
    LET n == Len(audio)
        from[p \in 1..(n + 1)] ==
            IF Loud(audio, p, n) = {} THEN {}
            ELSE LET first == Earliest(Loud(audio, p, n))
                     start == IF first - LeadIn > p THEN first - LeadIn ELSE p
                     limit == IF start + Window > n + 1 THEN n + 1 ELSE start + Window
                     end == IF limit > n THEN limit
                            ELSE CutPoint(audio, start + Window \div 2, limit)
                 IN (IF Loud(audio, start, end - 1) # {} THEN {<<start, end>>} ELSE {})
                    \cup from[end]
    IN from[1]

WordsOf(audio) ==
    UNION {{audio[i] : i \in Loud(audio, w[1], w[2] - 1)} : w \in Windows(audio)}

\* Mutant: what a recording cut at its limit holds is taken for the call.
RevisedWhatever(recording) ==
    IF recording = None THEN live
    ELSE IF WordsOf(recording.audio) = {} THEN live ELSE WordsOf(recording.audio)

\* retranscribe(): the live transcript is kept without a recording, with a cut one, and without speech.
Revised(recording) ==
    IF recording = None \/ recording.truncated THEN live
    ELSE IF WordsOf(recording.audio) = {} THEN live ELSE WordsOf(recording.audio)

\* Post-call processing takes the recording: here, or on an instance that has none.
Revise ==
    /\ completed = "yes"
    /\ transcript' = Revised(held)
    /\ held' = None
    /\ completed' = "revised"
    /\ UNCHANGED <<streamVars, archiveVars, clock, mishaps>>

\* A window that fails fails it all, and the live transcript stays.
ReviseFails ==
    /\ completed = "yes" /\ held # None
    /\ Mishap("failures", MaxFailures)
    /\ completed' = "revised"
    /\ held' = None
    /\ UNCHANGED <<streamVars, transcript, archiveVars, clock>>

-----------------------------------------------------------------------------
(* The archive.                                                             *)

Rows(j, stage) == (jobs \ {j}) \cup {[j EXCEPT !.at = stage]}
RowFor(j) == [length |-> Len(j.recording.audio), until |-> clock + Retention, deleted |-> None]

\* The first recording of a call is kept.
ArchiveChecks(j) ==
    /\ j.at = "check"
    /\ jobs' = IF row # None THEN jobs \ {j} ELSE Rows(j, "file")
    /\ UNCHANGED <<streamVars, transcript, completed, held, file, row, sweep, clock, mishaps>>

\* Mutant: the row is saved before the file is there.
ArchiveSavesRow(j) ==
    /\ j.at = "file"
    /\ row' = RowFor(j)
    /\ jobs' = Rows(j, "row")
    /\ UNCHANGED <<streamVars, transcript, completed, held, file, sweep, clock, mishaps>>

\* Written under another name first: the file is there whole or not at all.
ArchiveWrites(j) ==
    /\ j.at = "file"
    /\ file' = Len(j.recording.audio)
    /\ jobs' = Rows(j, "row")
    /\ UNCHANGED <<streamVars, transcript, completed, held, row, sweep, clock, mishaps>>

ArchiveKeeps(j) ==
    /\ j.at = "row"
    /\ row' = RowFor(j)
    /\ jobs' = jobs \ {j}
    /\ UNCHANGED <<streamVars, transcript, completed, held, file, sweep, clock, mishaps>>

\* purge_expired(): the file, then the row.
Expired == row # None /\ row.deleted = None /\ row.until <= clock
\* Mutant: a file that is gone already is a failure.
SweepRemovesFound ==
    /\ Expired /\ sweep = None /\ file # None
    /\ file' = None
    /\ sweep' = [row |-> row, now |-> clock]
    /\ UNCHANGED <<streamVars, transcript, completed, held, jobs, row, clock, mishaps>>

SweepRemoves ==
    /\ Expired /\ sweep = None
    /\ file' = None
    /\ sweep' = [row |-> row, now |-> clock]
    /\ UNCHANGED <<streamVars, transcript, completed, held, jobs, row, clock, mishaps>>
SweepFails ==
    /\ Expired /\ sweep = None
    /\ Mishap("failures", MaxFailures)
    /\ UNCHANGED <<streamVars, transcript, completed, held, archiveVars, clock>>
SweepMarks ==
    /\ sweep # None
    /\ row' = [sweep.row EXCEPT !.deleted = sweep.now]
    /\ sweep' = None
    /\ UNCHANGED <<streamVars, transcript, completed, held, jobs, file, clock, mishaps>>

\* The process dies: its streams, its store and its writes with it.
Crash ==
    /\ Mishap("crashes", MaxCrashes)
    /\ socket' = [s \in Sockets |-> Closed]
    /\ held' = None /\ jobs' = {} /\ sweep' = None
    /\ UNCHANGED <<streams, live, transcript, completed, file, row, clock>>

Tick ==
    /\ clock < MaxClock /\ clock' = clock + 1
    /\ UNCHANGED <<streamVars, transcript, completed, held, archiveVars, mishaps>>

Streaming == \E s \in Sockets :
    StreamStarts(s) \/ StreamStops(s) \/ Disconnects(s) \/ \E loud \in BOOLEAN : Media(s, loud)
Archiving == \E j \in jobs : ArchiveChecks(j) \/ ArchiveWrites(j) \/ ArchiveKeeps(j)
Next ==
    \/ Streaming \/ CallEnds \/ Evicted \/ Revise \/ ReviseFails \/ Archiving
    \/ SweepRemoves \/ SweepFails \/ SweepMarks \/ Crash \/ Tick

Spec == Init /\ [][Next]_recordingVars
\* The sweep is a background job, and time passes.
FairSpec ==
    /\ Spec
    /\ WF_recordingVars(SweepRemoves) /\ WF_recordingVars(SweepMarks) /\ WF_recordingVars(Tick)

-----------------------------------------------------------------------------
\* Transcribing a call again loses nothing that was said and heard live: every loud frame of a recording
\* is in a window, none in two and no window longer than the limit, and a recording that does not hold
\* the whole call is not used.
WindowsHoldTheSpeech(audio) ==
    /\ WordsOf(audio) = {audio[i] : i \in Loud(audio, 1, Len(audio))}
    /\ \A w \in Windows(audio) : w[2] - w[1] \in 1..Window
    /\ \A v, w \in Windows(audio) : v = w \/ v[2] <= w[1] \/ w[2] <= v[1]
RevisionKeepsTheSpeech ==
    /\ live \subseteq transcript
    /\ held # None => WindowsHoldTheSpeech(held.audio)

\* A recording listed as kept can be played until its day comes, whole, whatever crash came between the
\* file and the row.
KeptIsPlayable == (row # None /\ row.deleted = None /\ clock < row.until) => file = row.length

\* And once it has come, the recording is removed, and said to be, through failures and crashes of the sweep.
NoneIsExpired == ~Expired /\ (row # None /\ row.deleted # None => file = None)
ExpiredIsRemoved == <>[]NoneIsExpired
=============================================================================
