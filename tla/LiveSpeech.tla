------------------------------ MODULE LiveSpeech ------------------------------
(***************************************************************************)
(* From the audio of a phone call to the lines of its transcript: the audio*)
(* buffer of each track (telephony_audio_buffer.py), which cuts the stream *)
(* into chunks at pauses and at a time limit, and the pipeline that        *)
(* transcribes one chunk after another (audio_processing_pipeline.py),     *)
(* joins a sentence the limit has cut, and learns what language each track *)
(* speaks (language_lock.py).  MediaStream has the socket, restarts, holds.*)
(*                                                                         *)
(* Time goes in frames.  A loud frame is a word, named by its number in the*)
(* track; a quiet frame is silence.  A word a cut goes through may be heard*)
(* in the chunk before it and in the one after.  The role of a chunk of    *)
(* mixed audio is whatever the diarizer and the role provider make of it.  *)
(***************************************************************************)
EXTENDS Integers, Sequences, SequencesExt, FiniteSets

CONSTANTS
    Tracks, Roles,          \* and the roles the speech of each track may be given
    Languages, Indian,      \* a chunk can be heard in; those a track can be locked to
    Limit, Pause, MinSpeech,        \* of the buffer, in frames
    MaxLine,                \* no line is continued past this many frames
    LockAfter, UnlockAfter,
    MaxFrames, MaxFailures, MaxHands,       \* bounds
    None

LiveSpeechAssumption ==
    /\ \A t \in Tracks : Roles[t] \subseteq {"icr", "customer", "unknown"}
    /\ Indian \subseteq Languages
    /\ {Limit, Pause, MinSpeech, MaxLine, LockAfter, UnlockAfter} \subseteq Nat \ {0}
    /\ {MaxFrames, MaxFailures, MaxHands} \subseteq Nat

VARIABLES
    buffer,     \* of each track
    ended,      \* the stream has stopped
    queue,      \* chunks for the pipeline, in the order they were cut
    open,       \* of each track: the line the next chunk may continue, or None
    latest,     \* the start of the last line the pipeline added
    lines,      \* of the call, as every load returns them
    lock,       \* of each track: what is known of its language
    outcomes,   \* of each track: what its chunks were heard in, None without speech
    lost,       \* words of chunks that could not be transcribed or stored
    failures, hands     \* count towards the bounds

stream == <<buffer, ended>>
speech == <<open, latest, lines, lost>>
language == <<lock, outcomes>>
vars == <<stream, queue, speech, language, failures, hands>>

Empty == [pending |-> <<>>, last |-> 0, elapsed |-> 0, spoken |-> 0, trailing |-> 0,
          run |-> Pause, speaks |-> FALSE, continues |-> FALSE]
Unheard == [candidate |-> None, streak |-> 0, locked |-> None, misses |-> 0]

Init ==
    /\ buffer = [t \in Tracks |-> Empty] /\ ended = FALSE
    /\ queue = <<>>
    /\ open = [t \in Tracks |-> None] /\ latest = 0
    /\ lines = <<>> /\ lost = {}
    /\ lock = [t \in Tracks |-> Unheard]
    /\ outcomes = [t \in Tracks |-> <<>>]
    /\ failures = 0 /\ hands = 0

-----------------------------------------------------------------------------
(* The buffer.  A pending frame is its number if it is loud, else None.     *)
Tracked(b, n, loud) ==
    LET kept == [b EXCEPT !.pending = Append(@, IF loud THEN n ELSE None), !.last = n] IN
    IF loud
    THEN [kept EXCEPT !.speaks = TRUE, !.spoken = @ + 1, !.trailing = 0, !.run = 0,
             !.continues = IF b.speaks THEN @ ELSE b.run < Pause]
    ELSE [kept EXCEPT !.trailing = @ + 1, !.run = @ + 1]

\* Mutant: a frame that comes again is taken again.
AcceptAny(b, n, loud) == Tracked(b, n, loud)

Accept(b, n, loud) == IF n <= b.last THEN b ELSE Tracked(b, n, loud)

ShouldFlush(b) ==
    \/ Len(b.pending) >= Limit
    \/ b.speaks /\ b.spoken >= MinSpeech /\ b.trailing >= Pause

WordsOf(b) == SelectSeq(b.pending, LAMBDA f : f # None)
At(b, word) == b.elapsed + SelectInSeq(b.pending, LAMBDA f : f = word)

ChunkOf(t, b, final) ==
    LET words == WordsOf(b) IN
    [track |-> t, words |-> words,
     from |-> IF words = <<>> THEN b.elapsed ELSE At(b, Head(words)) - 1,
     to |-> IF words = <<>> THEN b.elapsed ELSE At(b, Last(words)),
     cut |-> b.continues /\ b.pending # <<>> /\ Head(b.pending) # None,
     continues |-> b.continues,
     ends |-> b.trailing >= Pause \/ final]

\* Mutant: each chunk starts as if after a pause.
FlushedAnew(b) == [Empty EXCEPT !.last = b.last, !.elapsed = b.elapsed + Len(b.pending)]

Flushed(b) ==
    [Empty EXCEPT !.last = b.last, !.elapsed = b.elapsed + Len(b.pending), !.run = b.run,
        !.spoken = IF b.trailing >= Pause THEN 0 ELSE b.spoken]

(* A track one side of the call is silent on has nothing to transcribe.     *)
Worth(chunk) == chunk.words # <<>> \/ chunk.track = "mixed"

HeardFrames == FoldSet(LAMBDA t, n : n + buffer[t].last, 0, Tracks)

(* A media message: a frame, or one that came before.                       *)
Media(t, n, loud) ==
    /\ ~ended
    /\ n > buffer[t].last => HeardFrames < MaxFrames
    /\ LET b == Accept(buffer[t], n, loud) IN
       /\ b # buffer[t]
       /\ IF ShouldFlush(b)
          THEN /\ buffer' = [buffer EXCEPT ![t] = Flushed(b)]
               /\ LET chunk == ChunkOf(t, b, FALSE) IN
                  queue' = IF Worth(chunk) THEN Append(queue, chunk) ELSE queue
          ELSE buffer' = [buffer EXCEPT ![t] = b] /\ UNCHANGED queue
    /\ UNCHANGED <<ended, speech, language, failures, hands>>

(* The stream stops: what each buffer holds is cut off, whatever its       *)
(* length.                                                                 *)
Stop ==
    /\ ~ended /\ ended' = TRUE
    /\ LET left == {t \in Tracks : buffer[t].pending # <<>> /\ Worth(ChunkOf(t, buffer[t], TRUE))}
           order == CHOOSE s \in SetToSeqs(left) : TRUE IN
       queue' = queue \o [k \in 1..Len(order) |-> ChunkOf(order[k], buffer[order[k]], TRUE)]
    /\ buffer' = [t \in Tracks |-> Flushed(buffer[t])]
    /\ UNCHANGED <<speech, language, failures, hands>>

-----------------------------------------------------------------------------
(* What the pipeline makes of a chunk.                                      *)

\* Mutant: only speech in another language speaks against a lock.
MissedSpeech(k, heard) ==
    IF heard = None THEN k
    ELSE IF k.misses + 1 >= UnlockAfter THEN Unheard ELSE [k EXCEPT !.misses = @ + 1]

Missed(k, heard) ==
    IF k.misses + 1 >= UnlockAfter THEN Unheard ELSE [k EXCEPT !.misses = @ + 1]

Observed(k, heard) ==
    IF heard = None THEN IF k.locked = None THEN k ELSE Missed(k, heard)
    ELSE IF k.locked # None
    THEN IF heard \in Indian \ {k.locked} THEN Missed(k, heard) ELSE [k EXCEPT !.misses = 0]
    ELSE IF heard \notin Indian THEN k
    ELSE LET streak == IF heard = k.candidate THEN k.streak + 1 ELSE 1 IN
         [k EXCEPT !.candidate = heard, !.streak = streak,
             !.locked = IF streak >= LockAfter THEN heard ELSE None]

Observes(t, heard) ==
    /\ lock' = [lock EXCEPT ![t] = Observed(@, heard)]
    /\ outcomes' = [outcomes EXCEPT ![t] =
           LET all == Append(@, heard) IN
           IF Len(all) > UnlockAfter THEN Tail(all) ELSE all]

(* _join_transcripts(): a word heard at the end of one chunk and at the     *)
(* beginning of the next is written once.                                   *)
Join(before, more) ==
    IF before # <<>> /\ more # <<>> /\ Last(before) = Head(more) THEN before \o Tail(more)
    ELSE before \o more

Known(line) == {line.role} \ {"unknown"}

CanContinue(line, more) ==
    /\ Cardinality(Known(line) \cup Known(more)) <= 1
    /\ more.end - line.start <= MaxLine

Continued(line, more) ==
    [line EXCEPT !.words = Join(@, more.words), !.end = IF more.end > @ THEN more.end ELSE @,
        !.role = IF @ = "unknown" THEN more.role ELSE @]

(* The line starts no earlier than the last one the pipeline added.         *)
InCallOrder(line) ==
    IF line.start >= latest THEN line
    ELSE [line EXCEPT !.start = latest, !.end = IF @ > latest THEN @ ELSE latest]

(* Lines are loaded by their start and then by id, and ids are random:     *)
(* where a new line is found among those that start when it does is open.  *)
Placed(all) ==
    {k \in 1..Len(lines) + 1 : \A i \in k..Len(lines) : lines[i].start = all.start}

Add(line) ==
    \E k \in Placed(line) :
        lines' = InsertAt(lines, k, [line EXCEPT !.id = Len(lines) + 1])

Refused(line) == lines # <<>> /\ line.start < Last(lines).start

Starts(t, line, ends) ==
    LET new == InCallOrder(line) IN
    IF Refused(new)
    THEN /\ lost' = lost \cup {<<t, w>> : w \in ToSet(line.words)}
         /\ open' = [open EXCEPT ![t] = None]
         /\ UNCHANGED <<lines, latest>>
    ELSE /\ Add(new)
         /\ latest' = new.start
         /\ open' = [open EXCEPT ![t] = IF ends THEN None ELSE [new EXCEPT !.id = Len(lines) + 1]]
         /\ UNCHANGED lost

(* The chunk carries on the line its track left open, if that is still the  *)
(* last one of the call.                                                    *)
Continues(chunk, line, more) ==
    /\ chunk.continues /\ line # None /\ CanContinue(line, more)
    /\ Last(lines).id = line.id

Heard(chunk) ==
    {chunk.words} \cup
        IF chunk.cut THEN {<<Head(chunk.words) - 1>> \o chunk.words} ELSE {}

(* process_audio(), and the call stores the line.                           *)
Transcribe(words, role, heard) ==
    /\ queue # <<>>
    /\ LET chunk == Head(queue)
           t == chunk.track
           more == [id |-> None, track |-> t, role |-> role, start |-> chunk.from,
                    end |-> chunk.to, words |-> words] IN
       /\ words \in Heard(chunk) /\ words # <<>>
       /\ role \in Roles[t]
       /\ Observes(t, heard)
       /\ IF Continues(chunk, open[t], more)
          THEN LET line == Continued(open[t], more) IN
               /\ lines' = [lines EXCEPT ![Len(lines)] = line]
               /\ open' = [open EXCEPT ![t] = IF chunk.ends THEN None ELSE line]
               /\ UNCHANGED <<latest, lost>>
          ELSE Starts(t, more, chunk.ends)
    /\ queue' = Tail(queue)
    /\ UNCHANGED <<stream, failures, hands>>

Loses(chunk) ==
    /\ queue' = Tail(queue)
    /\ open' = [open EXCEPT ![chunk.track] = None]
    /\ lost' = lost \cup {<<chunk.track, w>> : w \in ToSet(chunk.words)}
    /\ UNCHANGED <<stream, latest, lines, hands>>

(* NoSpeechDetected; words may have been missed.                            *)
HearsNothing ==
    /\ queue # <<>>
    /\ Head(queue).words # <<>> => failures < MaxFailures
    /\ failures' = IF Head(queue).words = <<>> THEN failures ELSE failures + 1
    /\ Observes(Head(queue).track, None)
    /\ Loses(Head(queue))

(* A provider fails, or what it gives is no utterance.                      *)
Fails ==
    /\ queue # <<>> /\ failures < MaxFailures
    /\ failures' = failures + 1
    /\ Loses(Head(queue))
    /\ UNCHANGED language

(* A line entered by a person, who gives its start.                         *)
AddByHand(start) ==
    /\ hands < MaxHands /\ hands' = hands + 1
    /\ LET line == [id |-> None, track |-> None, role |-> "unknown", start |-> start,
                    end |-> start, words |-> <<>>] IN
       ~Refused(line) /\ Add(line)
    /\ UNCHANGED <<stream, queue, open, latest, lost, language, failures>>

Next ==
    \/ \E t \in Tracks, loud \in BOOLEAN : \E n \in 1..buffer[t].last + 1 : Media(t, n, loud)
    \/ Stop
    \/ \E words \in IF queue = <<>> THEN {} ELSE Heard(Head(queue)),
          role \in {"icr", "customer", "unknown"}, heard \in Languages :
          Transcribe(words, role, heard)
    \/ HearsNothing \/ Fails
    \/ \E start \in 0..MaxFrames : AddByHand(start)

Spec == Init /\ [][Next]_vars

-----------------------------------------------------------------------------
Spoken(t) == {w \in 1..buffer[t].last :
    \/ \E i \in DOMAIN lines : lines[i].track = t /\ w \in ToSet(lines[i].words)
    \/ <<t, w>> \in lost
    \/ \E i \in DOMAIN queue : queue[i].track = t /\ w \in ToSet(queue[i].words)
    \/ w \in ToSet(buffer[t].pending)}

TypeOK ==
    /\ \A t \in Tracks :
        /\ buffer[t].elapsed + Len(buffer[t].pending) = buffer[t].last
        /\ buffer[t].trailing <= Len(buffer[t].pending)
        /\ open[t] # None => open[t].track = t
        /\ lock[t].locked \in Indian \cup {None}
    /\ \A i \in DOMAIN lines : lines[i].start <= lines[i].end
    /\ ended \in BOOLEAN /\ failures <= MaxFailures

(* Nothing said is written twice in a line, and a line only runs on over a  *)
(* pause when less was said before it than is worth a line: the buffer      *)
(* notices pauses across its cuts, a frame that comes again is dropped, and *)
(* the words two chunks share are written once (telephony_audio_buffer.py,  *)
(* _join_transcripts).                                                      *)
LinesReadWell ==
    \A i \in DOMAIN lines : LET words == lines[i].words IN
        \A k \in 1..Len(words) - 1 :
            /\ words[k] < words[k + 1]
            /\ words[k + 1] - words[k] > Pause => k < MinSpeech

(* What was said with no pause in between is one line, unless its two       *)
(* parts were given different speakers, the line would be too long, or      *)
(* another line was last in the call (process_audio()).                     *)
SentencesStayWhole ==
    \A i, j \in DOMAIN lines : LET a == lines[i] b == lines[j] IN
        ( /\ a.track = b.track /\ a.track # None /\ a.id < b.id
          /\ a.words # <<>> /\ b.words # <<>>
          /\ \E w \in ToSet(a.words) :
                /\ w < Head(b.words) /\ Head(b.words) - w <= Pause
                /\ \A v \in w + 1..Head(b.words) - 1 : v \notin Spoken(a.track) )
        => \/ Cardinality(Known(a) \cup Known(b)) > 1
           \/ b.end - a.start > MaxLine
           \/ \E c \in DOMAIN lines : lines[c].id < b.id /\ c > i

(* A track is not held to a language it was not heard in for as long as it  *)
(* takes to give one up (LanguageLock).                                     *)
LockFitsTheSpeech ==
    \A t \in Tracks : lock[t].locked # None =>
        ~ /\ Len(outcomes[t]) = UnlockAfter
          /\ ToSet(outcomes[t]) \cap ((Languages \ Indian) \cup {lock[t].locked}) = {}

(* The lines of the call stand in the order they were added                *)
(* (_in_call_order(): "Utterances are kept in the order they are added").  *)
LinesStayInOrder ==
    \A i, j \in DOMAIN lines : i < j => lines[i].id < lines[j].id
=============================================================================
