----------------------------- MODULE SpeakerRoles -----------------------------
(***************************************************************************)
(* Who is speaking on a call whose two sides share one stream: voices are  *)
(* recognised from chunk to chunk (voice_tracker.py), what they say counts *)
(* as evidence of who they are (session_role_provider.py), and roles and   *)
(* evidence are shared with the instance the stream may reconnect to       *)
(* (speaker_session_registry.py).                                          *)
(*                                                                         *)
(* A speaker is a position in the tracker's profiles: speaker_1, speaker_2.*)
(* A voice heard long enough is recognised for what it is, one heard for a *)
(* moment may not be.  What is transcribed of a chunk is its first voice's;*)
(* a second one is heard long enough, for if not it changes nothing.  A    *)
(* third voice on the line is left out.                                    *)
(***************************************************************************)
EXTENDS Integers, Sequences, SequencesExt, FiniteSets

CONSTANTS
    Voices,                 \* of the customer and of the executive
    Instances,
    Cues,                   \* the scores a line can have: positive points to the executive
    Decisive, Margin,       \* DECISIVE_SCORE, DECISIVE_MARGIN
    MinLines, EveryLines, MaxAttempts,      \* of asking the model
    Budgets,                \* how often the stream may move and the store fail
    MaxChunks,              \* bound
    None

RolesAssumption ==
    /\ Cardinality(Voices) = 2 /\ Cues \subseteq Int
    /\ {Decisive, Margin, MinLines, EveryLines, MaxAttempts, MaxChunks} \subseteq Nat
    /\ \A b \in Budgets : b.moves \in Nat /\ b.outages \in Nat

VARIABLES
    at,         \* the instance the stream is on
    profiles,   \* of each instance: the voice of each speaker; None before the call's first chunk
    session,    \* of each instance: each speaker's role
    roles,      \* the same, in the shared store
    evidence,   \* the rest the store keeps
    lines,      \* <<voice, role>> of the lines so far
    chunks, budget      \* count towards the bounds

vars == <<at, profiles, session, roles, evidence, lines, chunks, budget>>

Speakers == 1..2
Unknown == [s \in Speakers |-> None]
NoEvidence ==
    [voices |-> <<>>, scores |-> [s \in Speakers |-> 0], spoke |-> {}, heard |-> 0, attempts |-> 0]

Init ==
    /\ at \in Instances
    /\ profiles = [i \in Instances |-> None]
    /\ session = [i \in Instances |-> Unknown]
    /\ roles = Unknown /\ evidence = NoEvidence
    /\ lines = {} /\ chunks = 0
    /\ budget \in Budgets

-----------------------------------------------------------------------------
(* VoiceTracker.match(): what the profiles become, voice by voice.          *)
Joined(known, v) == IF v \in ToSet(known) \/ Len(known) = 2 THEN known ELSE Append(known, v)
Tracked(known, heard, how) ==
    LET first == IF how = "long" THEN Joined(known, heard[1]) ELSE known IN
    IF Len(heard) = 1 THEN first ELSE Joined(first, heard[2])

(* The speaker the first voice is recognised as: 0 for nobody.              *)
SpeakerOf(known, v, how) ==
    IF how # "faint" /\ v \in ToSet(known) THEN CHOOSE s \in DOMAIN known : known[s] = v ELSE 0

Assigned(held, s, role) == IF held[s] = None THEN [held EXCEPT ![s] = role] ELSE held

Opposite(role) == IF role = "icr" THEN "customer" ELSE "icr"

\* Mutant: a role says nothing of the other speaker.
LeftOpen(known, held) == held

(* _complete_roles(): of two parties, the other one is the other.           *)
Completed(known, held) ==
    IF Len(known) < 2 THEN held
    ELSE [s \in Speakers |->
             IF held[s] = None /\ held[3 - s] # None THEN Opposite(held[3 - s]) ELSE held[s]]

Others(scores, known, s) == {scores[o] : o \in DOMAIN known \ {s}} \cup
                                (IF Len(known) = 1 THEN {0} ELSE {})

SoundsLikeIcr(scores, known, s) ==
    scores[s] >= Decisive /\ \A o \in Others(scores, known, s) : scores[s] - o >= Margin
SoundsLikeCustomer(scores, known, s) ==
    scores[s] <= -Decisive /\ \A o \in Others(scores, known, s) : o - scores[s] >= Margin

(* _decide_from_scores(): the executive, 0 while that is open.              *)
Decided(scores, known) ==
    LET icr(s) == SoundsLikeIcr(scores, known, s)
        other(s) == Len(known) = 2 /\ SoundsLikeCustomer(scores, known, s) IN
    IF icr(1) THEN 1
    ELSE IF other(1) THEN 2
    ELSE IF Len(known) = 2 /\ icr(2) THEN 2
    ELSE IF other(2) THEN 1 ELSE 0

(* A customer who is the only speaker so far is known for one.              *)
Settled(held, scores, known) ==
    IF Len(known) = 1 /\ SoundsLikeCustomer(scores, known, 1)
    THEN Assigned(held, 1, "customer") ELSE held

(* _ask_llm(): due once enough has been heard, and every few lines after.   *)
Asks(e) ==
    /\ e.attempts < MaxAttempts /\ Cardinality(e.spoke) = 2
    /\ e.heard >= MinLines /\ (e.heard - MinLines) % EveryLines = 0

(* observe_speech() of a speaker whose role is open: the evidence with the  *)
(* line and the roles that follow from it.                                  *)
Observed(e, known, held, s, cue, judged) ==
    LET line == [e EXCEPT !.scores[s] = @ + cue, !.spoke = @ \cup {s}]
        settled == Settled(held, line.scores, known)
        scored == Decided(line.scores, known)
        asked == [line EXCEPT !.heard = @ + 1]
        asks == scored = 0 /\ Asks(asked)
        icr == IF asks THEN judged ELSE scored IN
    [evidence |-> IF scored # 0 THEN line
                  ELSE IF asks THEN [asked EXCEPT !.attempts = @ + 1] ELSE asked,
     roles |-> IF icr = 0 THEN settled ELSE Completed(known, Assigned(settled, icr, "icr"))]

\* Mutant: an instance starts from what it knows itself.
HeldAlone(reads) == IF profiles[at] = None THEN Unknown ELSE session[at]

(* get_or_create(): the roles as the instance first reads them.             *)
HeldHere(reads) ==
    IF profiles[at] # None THEN session[at] ELSE IF reads THEN roles ELSE Unknown

(* One chunk: identify_roles() and, for the voice the line is of,           *)
(* observe_speech().  The store may fail to give or to take.                *)
Chunk(heard, how, cue, judged, reads, writes) ==
    /\ chunks < MaxChunks /\ chunks' = chunks + 1
    /\ LET stored == IF reads THEN evidence ELSE NoEvidence
           before == IF profiles[at] \in {None, <<>>} THEN stored.voices ELSE profiles[at]
           known == Tracked(before, heard, how)
           s == SpeakerOf(known, heard[1], how)
           seen == s # 0 \/ Len(heard) = 2
           held == IF seen THEN Completed(known, HeldHere(reads)) ELSE HeldHere(reads)
           kept == IF seen /\ writes THEN [stored EXCEPT !.voices = known] ELSE evidence
           learns == s # 0 /\ held[s] = None
           learned == Observed(IF reads THEN kept ELSE NoEvidence, known, held, s, cue, judged)
           now == IF learns THEN learned.roles ELSE held IN
       /\ judged \in 0..Len(known)
       /\ profiles' = [profiles EXCEPT ![at] = known]
       /\ session' = [session EXCEPT ![at] = now]
       /\ roles' = IF writes /\ now # HeldHere(reads) THEN now ELSE roles
       /\ evidence' = IF learns /\ writes THEN learned.evidence ELSE kept
       /\ lines' = lines \cup {<<Head(heard), IF s = 0 THEN None ELSE now[s]>>}
    /\ budget' = IF reads /\ writes THEN budget ELSE [budget EXCEPT !.outages = @ - 1]
    /\ UNCHANGED at

(* The stream reconnects to an instance that has not served the call yet;  *)
(* one it comes back to, which still holds what it knew, is left out.      *)
Reconnect(i) ==
    /\ budget.moves > 0 /\ i # at /\ profiles[i] = None
    /\ at' = i
    /\ budget' = [budget EXCEPT !.moves = @ - 1]
    /\ UNCHANGED <<profiles, session, roles, evidence, lines, chunks>>

Orders == {<<v>> : v \in Voices} \cup {o \in [1..2 -> Voices] : o[1] # o[2]}

Next ==
    \/ \E heard \in Orders, how \in {"long", "clear", "faint"}, cue \in Cues, judged \in 0..2 :
           \E reads, writes \in IF budget.outages > 0 THEN BOOLEAN ELSE {TRUE} :
               Chunk(heard, how, cue, judged, reads, writes)
    \/ \E i \in Instances : Reconnect(i)

Spec == Init /\ [][Next]_vars

-----------------------------------------------------------------------------
Held == {None, "icr", "customer"}

TypeOK ==
    /\ at \in Instances
    /\ \A i \in Instances : profiles[i] = None \/ Len(profiles[i]) <= 2
    /\ session \in [Instances -> [Speakers -> Held]] /\ roles \in [Speakers -> Held]
    /\ lines \subseteq Voices \X Held
    /\ evidence.attempts <= MaxAttempts

(* What a voice says goes under one role for the whole call, and the two   *)
(* voices never under the same one (SpeakerSession, _complete_roles()).    *)
SpeakersAreToldApart ==
    \A a, b \in {l \in lines : l[2] # None} : (a[1] = b[1]) <=> (a[2] = b[2])
=============================================================================
