------------------------------- MODULE LineTags -------------------------------
(***************************************************************************)
(* What the model is asked of one call, and what becomes of its answers:    *)
(* the tone and the complaint categories of each line, and the escalation   *)
(* signals (conversation_analysis_service.py, ai/live_analysis,             *)
(* ai/complaint, ai/sentiment, ai/escalation, ai/llm/json_answer.py).       *)
(*                                                                          *)
(* An analysis reads the call, asks, and stores what it was told on lines   *)
(* that may have grown, or been replaced, meanwhile. A live analysis may    *)
(* ask everything at once; what that answer lacks, and all of the final     *)
(* analysis, is asked one task at a time. An answer that cannot be used is  *)
(* asked for once more.                                                     *)
(*                                                                          *)
(* A judgement is the line it is about, <<id, words>>: what the model saw   *)
(* under the number it names. Labels, confidence and prompts are left out,  *)
(* as is the coverage (Complaints, LiveAnalysis).                           *)
(***************************************************************************)
EXTENDS Naturals, FiniteSets, Sequences, SequencesExt

CONSTANTS
    Hands,          \* requests that enter a line by hand
    Categories,     \* the catalog
    Unknown,        \* a category it does not have
    Roles,          \* of the speakers
    LineLimit,      \* MAX_LINES_PER_REQUEST
    MaxLines,       \* lines of a call
    MaxGrowths,     \* times a line is continued
    MaxItems,       \* categories and lines named in an answer
    MaxFaults,      \* requests that fail, and answers that leave something out
    MaxRuns,        \* analyses during the call
    None

LineTagsAssumption ==
    /\ LineLimit \in Nat \ {0} /\ MaxLines \in Nat \ {0}
    /\ Unknown \notin Categories
    /\ Roles \subseteq {"CUSTOMER", "ICR", "UNKNOWN"}
    /\ Hands \cap {"live", "final"} = {}

Runs == {"live", "final"} \cup Hands

(* What is asked for on its own; "escalation" after the rest is stored.     *)
Tasks == {"complaints", "sentiment", "escalation"}

VARIABLES
    together,   \* LIVE_ANALYSIS_MODE=combined
    lines,      \* the stored call
    ended,      \* it is completed
    revised,    \* it was transcribed again
    finished,   \* the final analysis is stored
    ids,        \* lines made so far
    growths, faults, begun,
    at,         \* what each analysis asks, or does
    again,      \* it asks for the second time
    seen,       \* the lines it has read
    got,        \* what it was told; None: still to be asked for
    own,        \* history: whether a task was answered, here or by a request
                \* of its own
    partial,    \* history: the final analysis missed an answer on some line
    invented    \* history: a signal was raised on words nobody said

answers == <<again, seen, got, own>>
call == <<lines, ended, revised, ids, growths>>
lineTagsVars == <<together, call, finished, faults, begun, at, answers, partial, invented>>

NewLine(id, role) == [id |-> id, words |-> 0, role |-> role, tone |-> None, raised |-> None]
Judgement(line) == <<line.id, line.words>>
Nothing == [t \in Tasks |-> None]
Unasked == [t \in Tasks |-> "no"]

Init ==
    /\ together \in BOOLEAN
    /\ lines = <<>> /\ ended = FALSE /\ revised = FALSE /\ finished = FALSE
    /\ ids = 0 /\ growths = 0 /\ faults = 0 /\ begun = 0
    /\ at = [r \in Runs |-> "rest"]
    /\ again = [r \in Runs |-> FALSE]
    /\ seen = [r \in Runs |-> <<>>]
    /\ got = [r \in Runs |-> Nothing]
    /\ own = [r \in Runs |-> Unasked]
    /\ partial = FALSE /\ invented = FALSE

-----------------------------------------------------------------------------
(* The call                                                                 *)

AddLine(role) ==
    /\ ~ended /\ ids < MaxLines
    /\ lines' = Append(lines, NewLine(ids, role))
    /\ ids' = ids + 1

(* Live speech                                                              *)
Speak ==
    /\ \E role \in Roles : AddLine(role)
    /\ UNCHANGED <<together, ended, revised, growths, finished, faults, begun, at, answers,
                   partial, invented>>

(* replace_latest_utterance(): a new utterance of the same id, not yet      *)
(* rated.                                                                   *)
Grow ==
    /\ ~ended /\ lines # <<>> /\ growths < MaxGrowths
    /\ lines' = [lines EXCEPT ![Len(lines)] =
                    [NewLine(@.id, @.role) EXCEPT !.words = lines[Len(lines)].words + 1]]
    /\ growths' = growths + 1
    /\ UNCHANGED <<together, ended, revised, ids, finished, faults, begun, at, answers, partial,
                   invented>>

EndCall ==
    /\ ~ended
    /\ ended' = TRUE
    /\ UNCHANGED <<together, lines, revised, ids, growths, finished, faults, begun, at, answers,
                   partial, invented>>

(* replace_transcript(), as the final analysis begins                       *)
Revised == {[i \in 1 .. n |-> NewLine(ids + i - 1, role[i])] :
               n \in 1 .. MaxLines, role \in [1 .. MaxLines -> Roles]}

-----------------------------------------------------------------------------
(* What is asked, and how an answer is read                                 *)

Rated == {"CUSTOMER", "UNKNOWN"}

Unrated(conversation) ==
    {n \in DOMAIN conversation :
        conversation[n].tone = None /\ conversation[n].role \in Rated}

\* Mutant: a long backlog keeps its first lines.
LinesToRateFirst(conversation) ==
    LET unrated == Unrated(conversation)
    IN  {n \in unrated : Cardinality({k \in unrated : k < n}) < LineLimit}

LinesToRate(conversation) ==
    LET unrated == Unrated(conversation)
    IN  {n \in unrated : Cardinality({k \in unrated : k > n}) < LineLimit}

Numbers == 1 .. MaxLines + 1

(* parse_items(): categories the catalog does not have are left out.        *)
ParseItems(items) == {i \in items : i.category \in Categories}
Items == {s \in SUBSET [category : Categories \cup {Unknown}, line : Numbers] :
            Cardinality(s) <= MaxItems}

(* _line_tones(): only lines that were asked about                          *)
LineTones(numbers, conversation) == numbers \cap LinesToRate(conversation)

SaidIn(conversation) == {Judgement(conversation[n]) : n \in DOMAIN conversation}

(* Words of no line                                                         *)
Fabricated == <<2 * MaxLines, 0>>

(* An answer's signals, each with the fragments of its quote. Any speaker's *)
(* words count.                                                             *)
Signals(conversation) ==
    {{}, {{Fabricated}}}
        \cup {{{f}} : f \in SaidIn(conversation)}
        \cup {{{f, Fabricated}} : f \in SaidIn(conversation)}

QuotedIn(quote, conversation) == quote # {} /\ quote \subseteq SaidIn(conversation)

\* Mutant: a quote is kept when part of it was said.
GroundedInPart(signals, conversation) ==
    {q \in signals : q \cap SaidIn(conversation) # {}}

Grounded(signals, conversation) == {q \in signals : QuotedIn(q, conversation)}

(* A usable answer to a task, as the model gives it and as it is read       *)
Answers(r, task) ==
    CASE task = "complaints" -> Items
      [] task = "sentiment"  -> {{n} : n \in Numbers} \cup {LinesToRate(seen[r])}
      [] task = "escalation" -> Signals(seen[r])

Read(r, task, answer) ==
    CASE task = "complaints" -> ParseItems(answer)
      [] task = "sentiment"  -> LineTones(answer, seen[r])
      [] task = "escalation" -> Grounded(answer, seen[r])

(* An answer that leaves out a line it was asked about is one of the faults.*)
LeavesOut(r, task, answer) ==
    task = "sentiment" /\ ~(LinesToRate(seen[r]) \subseteq answer)

-----------------------------------------------------------------------------
(* An analysis                                                              *)

(* The first thing still to be asked for; then what was told is stored.     *)
NextStage(told) ==
    IF told["complaints"] = None THEN "complaints"
    ELSE IF told["sentiment"] = None THEN "sentiment" ELSE "store"

Begin(r, conversation, stage) ==
    /\ at[r] = "rest"
    /\ at' = [at EXCEPT ![r] = stage]
    /\ seen' = [seen EXCEPT ![r] = conversation]
    /\ UNCHANGED <<again, got, own>>

FirstStage == IF together THEN "together" ELSE "complaints"

(* analyze_latest_speech(): only when the customer has spoken               *)
StartLive ==
    /\ ~ended /\ begun < MaxRuns
    /\ \E n \in DOMAIN lines : lines[n].role \in Rated
    /\ begun' = begun + 1
    /\ Begin("live", lines, FirstStage)
    /\ UNCHANGED <<together, call, finished, faults, partial, invented>>

(* process_utterance(): the request adds the line and analyses the call.    *)
EnterByHand(r) ==
    /\ \E role \in Roles : AddLine(role)
    /\ begun < MaxRuns /\ begun' = begun + 1
    /\ Begin(r, lines', FirstStage)
    /\ UNCHANGED <<together, ended, revised, growths, finished, faults, partial, invented>>

(* process(): the transcript is revised where it can be, and analysed.      *)
StartFinal ==
    /\ ended /\ ~finished /\ lines # <<>>
    /\ \/ UNCHANGED <<lines, revised, ids>>
       \/ ~revised /\ revised' = TRUE /\ lines' \in Revised /\ ids' = ids + MaxLines
    /\ Begin("final", lines', "complaints")
    /\ partial' = FALSE
    /\ UNCHANGED <<together, ended, growths, finished, faults, begun, invented>>

Forget(r) ==
    /\ at' = [at EXCEPT ![r] = "rest"]
    /\ again' = [again EXCEPT ![r] = FALSE]
    /\ seen' = [seen EXCEPT ![r] = <<>>]
    /\ got' = [got EXCEPT ![r] = Nothing]
    /\ own' = [own EXCEPT ![r] = Unasked]

(* Trouble with a second answer counts as that with the first.              *)
Faulty(r) ==
    \/ again[r] /\ UNCHANGED faults
    \/ ~again[r] /\ faults < MaxFaults /\ faults' = faults + 1

Proceed(r, told) ==
    /\ got' = [got EXCEPT ![r] = told]
    /\ at' = [at EXCEPT ![r] = NextStage(told)]
    /\ again' = [again EXCEPT ![r] = FALSE]

(* ask_for_json(): once more, then given up                                 *)
AskAgain(r) ==
    /\ ~again[r]
    /\ again' = [again EXCEPT ![r] = TRUE]
    /\ UNCHANGED <<at, got>>

\* Mutant: a section that is missing is taken for one that found nothing.
SectionOrNothing(t, missing, told) == IF t \in missing THEN {} ELSE told

Section(t, missing, told) == IF t \in missing THEN None ELSE told

Sections(r, t, missing) == IF t \in missing THEN {{}} ELSE Answers(r, t)

AnsweredBy(r, missing) ==
    own' = [own EXCEPT ![r] = [t \in Tasks |-> IF t \in missing THEN "no" ELSE "answered"]]

(* LLMLiveAnalysisProvider.analyze(): any section may be missing. When the  *)
(* request fails, or is answered unreadably twice, all of them are.         *)
AnswerTogether(r, missing) ==
    /\ \E c \in Sections(r, "complaints", missing), s \in Sections(r, "sentiment", missing),
          e \in Sections(r, "escalation", missing) :
          /\ IF missing # {} \/ LeavesOut(r, "sentiment", s) THEN Faulty(r) ELSE UNCHANGED faults
          /\ Proceed(r, [complaints |-> Section("complaints", missing, ParseItems(c)),
                          sentiment  |-> Section("sentiment", missing, LineTones(s, seen[r])),
                          escalation |-> Section("escalation", missing, Grounded(e, seen[r]))])
    /\ AnsweredBy(r, missing)

AskTogether(r) ==
    /\ at[r] = "together"
    /\ \/ \E missing \in SUBSET Tasks : AnswerTogether(r, missing)
       \/ Faulty(r) /\ AskAgain(r) /\ UNCHANGED own
    /\ UNCHANGED <<together, call, finished, begun, seen, partial, invented>>

(* A task on its own: detect(), analyze()                                   *)
AskAlone(r, task) ==
    /\ at[r] = task /\ task # "escalation"
    /\ \/ /\ \E a \in Answers(r, task) :
                /\ IF LeavesOut(r, task, a) THEN Faulty(r) ELSE UNCHANGED faults
                /\ partial' = (partial \/ (r = "final" /\ LeavesOut(r, task, a)))
                /\ Proceed(r, [got[r] EXCEPT ![task] = Read(r, task, a)])
          /\ own' = [own EXCEPT ![r][task] = "answered"]
          /\ UNCHANGED seen
       \/ /\ Faulty(r)
          /\ own' = [own EXCEPT ![r][task] = IF again[r] THEN "unusable" ELSE "asked again"]
          /\ \/ AskAgain(r) /\ UNCHANGED partial
             \/ /\ again[r]
                /\ Proceed(r, [got[r] EXCEPT ![task] = {}])
                /\ partial' = (partial \/ r = "final")
          /\ UNCHANGED seen
       \/ Faulty(r) /\ Forget(r) /\ UNCHANGED partial     \* the request failed
    /\ UNCHANGED <<together, call, finished, begun, invented>>

-----------------------------------------------------------------------------
(* Storing                                                                  *)

(* line_categories(): every line, so that one no longer named loses its     *)
(* categories; nothing when no line is named.                               *)
LineCategories(conversation, items) ==
    LET named == {i \in items : i.line \in DOMAIN conversation}
    IN  IF named = {} THEN None
        ELSE [n \in DOMAIN conversation |-> {i.category : i \in {x \in named : x.line = n}}]

(* Where the line stands in what was read, or 0                             *)
NumberIn(conversation, line) ==
    IF \E n \in DOMAIN conversation : conversation[n].id = line.id
    THEN CHOOSE n \in DOMAIN conversation : conversation[n].id = line.id ELSE 0

\* Mutant: the words are not compared.
AnnotatedAnyhow(line, conversation, tones, raised) ==
    LET n == NumberIn(conversation, line)
    IN  IF n = 0 THEN line
        ELSE [line EXCEPT !.tone = IF n \in tones THEN Judgement(conversation[n]) ELSE @,
                          !.raised = IF raised = None THEN @
                                     ELSE <<Judgement(conversation[n]), raised[n]>>]

(* annotate_utterances(): a line that is gone, or whose words have changed  *)
(* since, is skipped.                                                       *)
Annotated(line, conversation, tones, raised) ==
    LET n == NumberIn(conversation, line)
    IN  IF n = 0 \/ conversation[n].words # line.words THEN line
        ELSE [line EXCEPT !.tone = IF n \in tones THEN Judgement(conversation[n]) ELSE @,
                          !.raised = IF raised = None THEN @
                                     ELSE <<Judgement(conversation[n]), raised[n]>>]

Tag(r) ==
    LET raised == LineCategories(seen[r], got[r]["complaints"])
    IN  [n \in DOMAIN lines |-> Annotated(lines[n], seen[r], got[r]["sentiment"], raised)]

(* A live analysis of a call that completed meanwhile is discarded; one the *)
(* request itself made is not.                                              *)
Store(r) ==
    /\ at[r] = "store"
    /\ IF r = "live" /\ ended
       THEN Forget(r) /\ UNCHANGED <<lines, finished>>
       ELSE /\ lines' = Tag(r)
            /\ finished' = (finished \/ r = "final")
            /\ at' = [at EXCEPT ![r] = "escalation"]
            /\ got' = [got EXCEPT ![r] = [Nothing EXCEPT !.escalation = got[r]["escalation"]]]
            /\ own' = [own EXCEPT ![r] = Unasked]
            /\ UNCHANGED <<again, seen>>
    /\ UNCHANGED <<together, ended, revised, ids, growths, faults, begun, partial, invented>>

Raises(r, signals) ==
    invented' = (invented \/ \E q \in signals : ~QuotedIn(q, seen[r]))

(* assess(): the signals found already, or asked for now; when that fails   *)
(* the rules stand alone.                                                   *)
Assess(r) ==
    /\ at[r] = "escalation"
    /\ \/ /\ got[r]["escalation"] # None
          /\ Raises(r, got[r]["escalation"]) /\ Forget(r)
          /\ UNCHANGED faults
       \/ /\ got[r]["escalation"] = None
          /\ \/ /\ \E a \in Answers(r, "escalation") : Raises(r, Read(r, "escalation", a))
                /\ Forget(r)
                /\ UNCHANGED faults
             \/ Faulty(r) /\ AskAgain(r) /\ UNCHANGED <<seen, own, invented>>
             \/ Faulty(r) /\ Forget(r) /\ UNCHANGED invented
    /\ UNCHANGED <<together, call, finished, begun, partial>>

-----------------------------------------------------------------------------
Analysis(r) == AskTogether(r) \/ (\E t \in Tasks : AskAlone(r, t)) \/ Store(r) \/ Assess(r)

Next ==
    \/ Speak \/ Grow \/ EndCall
    \/ StartLive \/ StartFinal
    \/ \E r \in Hands : EnterByHand(r)
    \/ \E r \in Runs : Analysis(r)

Spec == Init /\ [][Next]_lineTagsVars

-----------------------------------------------------------------------------
TypeOK ==
    /\ together \in BOOLEAN /\ ended \in BOOLEAN /\ finished \in BOOLEAN
    /\ \A n \in DOMAIN lines : lines[n].role \in Roles /\ lines[n].id \in 0 .. ids
    /\ at \in [Runs -> {"rest", "together", "store"} \cup Tasks]
    /\ \A r \in Runs : at[r] = "store" => \A t \in Tasks \ {"escalation"} : got[r][t] # None

(* What a line says of itself was said of its present words: a tone or a    *)
(* category found while the line grew, or before the call was transcribed   *)
(* again, is never shown on other words, and a tone only on a customer's    *)
(* (annotate_utterances, line_categories). No signal rests on words nobody  *)
(* said (_grounded).                                                        *)
FindingsAreGrounded ==
    /\ ~invented
    /\ \A n \in DOMAIN lines :
          LET line == lines[n]
          IN  /\ line.tone # None => line.tone = Judgement(line) /\ line.role \in Rated
              /\ line.raised # None => line.raised[1] = Judgement(line)

(* "A bad combined answer costs an extra request, never a result": what is  *)
(* stored as nothing found was answered so, or its own request was answered *)
(* unusably twice.                                                          *)
NoResultIsLost ==
    \A r \in Runs : at[r] = "store" =>
        \A t \in {"complaints", "sentiment"} : own[r][t] \in {"answered", "unusable"}

(* After a final analysis that was fully answered, the customer's last      *)
(* lines all have a tone, whatever the live analyses had left out: only of  *)
(* a backlog longer than the limit is anything left unrated.                *)
LastLinesAreRated ==
    finished /\ ~partial =>
        \A n \in Unrated(lines) :
            Cardinality({k \in DOMAIN lines : k > n /\ lines[k].role \in Rated}) >= LineLimit
=============================================================================
