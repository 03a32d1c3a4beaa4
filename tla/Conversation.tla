---------------------------- MODULE Conversation ----------------------------
(***************************************************************************)
(* One call and what may be done to it: app/domain/conversation.py, the    *)
(* conditions ConversationService adds to it, and the form the database    *)
(* gives a call back in (conversation_repository.py, models.py).           *)
(*                                                                         *)
(* A request is one public operation of ConversationService with its       *)
(* arguments.  Refused says which error conditions stop it, Saves whether  *)
(* the operation writes the call, Effect what it makes of the call.        *)
(*                                                                         *)
(* The lines are a set: the utterances table has one row per id and no     *)
(* position, and every load returns them by start time, then id (Before).  *)
(* Each operation loads the call afresh, makes one change and writes it    *)
(* back, so no other order is ever read.                                   *)
(***************************************************************************)
EXTENDS Naturals, Sequences, FiniteSets

CONSTANTS
    LineIds,      \* utterance ids; only their order matters (strings compare)
    Times,        \* seconds on the call's timeline
    Words,        \* transcripts of a line
    Tones,        \* sentiment labels
    Executives,
    Locations,
    StartTime,    \* when the call started
    None          \* "not recorded"; also a call that does not exist

Line == [id: LineIds, start: Times, words: Words, tone: Tones \cup {None}]

HoldPeriod == [startedAt: Times, endedAt: Times \cup {None}]

Calls == [status: {"active", "completed"},
          endTime: Times \cup {None},
          executive: Executives \cup {None},
          location: Locations \cup {None},
          holds: Seq(HoldPeriod),
          lines: SUBSET Line]

OneRowPerId(lines) == \A a, b \in lines : a.id = b.id => a = b

Request ==
         [op: {"add"}, line: Line, byHand: BOOLEAN]
    \cup [op: {"continue"}, line: Line]
    \cup [op: {"replace"}, lines: {ls \in SUBSET Line : OneRowPerId(ls)},
          inOrder: BOOLEAN]     \* were they given in chronological order?
    \cup [op: {"annotate"}, id: LineIds, words: Words, tone: Tones]
    \cup [op: {"hold", "resume", "complete"}, at: Times]
    \cup [op: {"assign"}, executive: Executives, location: Locations \cup {None}]

NewCall(executive, location) ==
    [status |-> "active", endTime |-> None,
     executive |-> executive, location |-> location,
     holds |-> <<>>, lines |-> {}]

ASSUME ConversationAssumption ==
    /\ LineIds \subseteq Nat
    /\ Times \subseteq Nat
    /\ StartTime \in Times
    /\ None \notin Times \cup Tones \cup Executives \cup Locations
    /\ None \notin Calls

-----------------------------------------------------------------------------
Completed(c) == c.status = "completed"

OnHold(c) == c.holds # <<>> /\ c.holds[Len(c.holds)].endedAt = None

Before(a, b) == a.start < b.start \/ (a.start = b.start /\ a.id < b.id)

IsLatest(c, id) ==
    \E l \in c.lines : l.id = id /\ \A k \in c.lines \ {l} : Before(k, l)

StartsBeforeAny(line, lines) == \E l \in lines : line.start < l.start

WithoutLine(c, id) == {l \in c.lines : l.id # id}

AnnotatedLine(line, r) ==
    IF line.id = r.id /\ line.words = r.words
    THEN [line EXCEPT !.tone = r.tone]
    ELSE line

(* Stores a line in the row of its id: a new row, or the one that has it. *)
Written(c, line) == [c EXCEPT !.lines = WithoutLine(c, line.id) \cup {line}]

Annotated(c, r) ==
    [c EXCEPT !.lines = {AnnotatedLine(l, r) : l \in c.lines}]

Held(c, at) ==
    [c EXCEPT !.holds = Append(c.holds, [startedAt |-> at, endedAt |-> None])]

Resumed(c, at) ==
    LET started == c.holds[Len(c.holds)].startedAt
    IN  IF OnHold(c)
        THEN [c EXCEPT !.holds[Len(c.holds)].endedAt =
                            IF at >= started THEN at ELSE started]
        ELSE c

\* Mutant: a call that ends on hold keeps the hold open.
EndedOnHold(c, at) == [c EXCEPT !.endTime = at, !.status = "completed"]

\* Mutant: the end time is taken for an offset from the call's start.
EndedAfter(c, at) ==
    [Resumed(c, at) EXCEPT !.endTime = StartTime + at, !.status = "completed"]

Ended(c, at) ==
    [Resumed(c, at) EXCEPT !.endTime = at, !.status = "completed"]

Assigned(c, r) ==
    [c EXCEPT !.executive = r.executive,
              !.location = IF c.location = None THEN r.location ELSE c.location]

Effect(c, r) ==
    CASE r.op = "add"      -> Written(c, r.line)
      [] r.op = "continue" -> Written(c, r.line)
      [] r.op = "replace"  -> [c EXCEPT !.lines = r.lines]
      [] r.op = "annotate" -> Annotated(c, r)
      [] r.op = "hold"     -> Held(c, r.at)
      [] r.op = "resume"   -> Resumed(c, r.at)
      [] r.op = "complete" -> Ended(c, r.at)
      [] r.op = "assign"   -> Assigned(c, r)

-----------------------------------------------------------------------------
(* The errors an operation raises, operation by operation. *)

AddRefused(c, r) ==
    /\ r.op = "add"
    /\ \/ r.byHand /\ OnHold(c)
       \/ Completed(c)
       \/ StartsBeforeAny(r.line, c.lines)

\* Mutant: a line can still grow after the call ended.
ContinueRefusedWhileActive(c, r) ==
    /\ r.op = "continue"
    /\ \/ ~IsLatest(c, r.line.id)
       \/ StartsBeforeAny(r.line, WithoutLine(c, r.line.id))

ContinueRefused(c, r) ==
    /\ r.op = "continue"
    /\ \/ Completed(c)
       \/ ~IsLatest(c, r.line.id)
       \/ StartsBeforeAny(r.line, WithoutLine(c, r.line.id))

ReplaceRefused(c, r) ==
    r.op = "replace" /\ (r.lines = {} \/ ~r.inOrder)

HoldRefused(c, r) == r.op = "hold" /\ Completed(c)

\* complete_conversation returns before the check for a call completed earlier.
CompleteRefused(c, r) ==
    r.op = "complete" /\ ~Completed(c) /\ r.at < StartTime

Refused(c, r) ==
    \/ AddRefused(c, r)
    \/ ContinueRefused(c, r)
    \/ ReplaceRefused(c, r)
    \/ HoldRefused(c, r)
    \/ CompleteRefused(c, r)

\* Mutant: a repeated completion is not recognised.
SavesRepeatedCompletion(c, r) ==
    /\ r.op = "hold" => ~OnHold(c)
    /\ r.op = "resume" => OnHold(c)
    /\ r.op = "annotate" => Annotated(c, r) # c

(* The operations that find nothing to do return without writing the call. *)
Saves(c, r) ==
    /\ r.op = "hold" => ~OnHold(c)
    /\ r.op = "resume" => OnHold(c)
    /\ r.op = "complete" => ~Completed(c)
    /\ r.op = "annotate" => Annotated(c, r) # c

-----------------------------------------------------------------------------
LineIdsOf(c) == {l.id : l \in c.lines}
=============================================================================
