----------------------------- MODULE LiveAnalysis -----------------------------
(***************************************************************************)
(* What one call's live analysis makes of its latest speech, and what it    *)
(* shows of that: the tone, the suggested questions and the estimate, kept  *)
(* as one snapshot in the live state store (call_workflow_service.py,       *)
(* live_analysis_store.py, next_question_service.py, llm_provider.py,       *)
(* rule_based_provider.py).                                                 *)
(*                                                                          *)
(* The scheduler runs one deferred analysis at a time (module               *)
(* LiveAnalysisScheduler); a line entered by hand is analysed by the        *)
(* request itself, whatever the scheduler is doing. Each replaces the       *)
(* snapshot as a whole with what it read, and worked out, before.           *)
(***************************************************************************)
EXTENDS Naturals, FiniteSets, Sequences, SequencesExt

CONSTANTS
    Hands,          \* requests that enter a line of the customer by hand
    Order,          \* the complaint categories, in their fixed order
    Questions,      \* what can be asked
    About,          \* the category each question asks about
    Rule,           \* the fixed question of each category
    Unusable,       \* an item of an answer that is no question
    Limit,          \* questions suggested at a time
    MaxItems,       \* items in a model's answer
    MaxLines,       \* lines of the two
    MaxFailures,    \* failures of the live state store
    None

Categories == ToSet(Order)
Runs == {"live"} \cup Hands

LiveAnalysisAssumption ==
    /\ About \in [Questions -> Categories]
    /\ \A c \in Categories : Rule[c] \in Questions /\ About[Rule[c]] = c
    /\ Unusable \notin Questions

VARIABLES
    ended,      \* the call is completed
    said,       \* lines of the customer
    booked,     \* lines of the ICR that book or offer a service
    due,        \* the scheduler has speech to analyse
    open,       \* the complaints in the stored coverage
    handled,    \* questions accepted or skipped
    snapshot,   \* live_analysis:<call>, as it is read: Blank when none is kept
    analysed,   \* _analysed_customer_speech
    at,         \* the step each analysis is at
    seen,       \* what it has read
    made,       \* what it will save
    failures,   \* failures of the store so far
    mixed       \* history: the store failed, a line by hand was not analysed,
                \* or two analyses ran at once

call == <<ended, said, booked, handled>>
vars == <<call, due, open, snapshot, analysed, at, seen, made, failures, mixed>>

(* SentimentResult: no tone yet, an answer that could not be used           *)
(* (confidence 0), or a tone.                                               *)
Tones == {"none", "unusable", "found"}
Snapshots == [tone : Tones, questions : Seq(Questions), estimate : 0 .. MaxLines]
Blank == [tone |-> "none", questions |-> <<>>, estimate |-> 0]
Unread == [said |-> 0, heard |-> 0, handled |-> {}]

Init ==
    /\ ended = FALSE /\ said = 0 /\ booked = 0 /\ handled = {}
    /\ due = FALSE /\ open = {} /\ snapshot = Blank /\ analysed = 0
    /\ at = [r \in Runs |-> "rest"]
    /\ seen = [r \in Runs |-> Unread]
    /\ made = [r \in Runs |-> Blank]
    /\ failures = 0 /\ mixed = FALSE

Move(r, stage) == at' = [at EXCEPT ![r] = stage]

(* What a run read of the call and has made is of no use once it rests.     *)
Rest(r) ==
    /\ Move(r, "rest")
    /\ seen' = [seen EXCEPT ![r] = Unread]
    /\ made' = [made EXCEPT ![r] = Blank]

Reads(r, customer, icr) ==
    seen' = [seen EXCEPT ![r] =
                [said |-> customer, heard |-> customer + icr, handled |-> handled]]

-----------------------------------------------------------------------------
(* LiveAnalysisStore: a write that fails is logged, and a read that fails   *)
(* finds nothing.                                                           *)

StoreFails ==
    /\ failures < MaxFailures
    /\ failures' = failures + 1
    /\ mixed' = TRUE

StoreWorks == UNCHANGED <<failures, mixed>>

SaveSnapshot(s) ==
    \/ snapshot' = s /\ StoreWorks
    \/ UNCHANGED snapshot /\ StoreFails

-----------------------------------------------------------------------------
(* The call                                                                 *)

Speak ==
    /\ ~ended /\ said + booked < MaxLines
    /\ \/ said' = said + 1 /\ UNCHANGED booked
       \/ booked' = booked + 1 /\ UNCHANGED said
    /\ due' = TRUE
    /\ UNCHANGED <<ended, handled, open, snapshot, analysed, at, seen, made, failures, mixed>>

(* The executive accepts or skips a question on the screen.                 *)
HandleQuestion ==
    /\ ~ended
    /\ \E q \in ToSet(snapshot.questions) \ handled : handled' = handled \cup {q}
    /\ UNCHANGED <<ended, said, booked, due, open, snapshot, analysed, at, seen, made,
                   failures, mixed>>

EndCall ==
    /\ ~ended
    /\ ended' = TRUE
    /\ UNCHANGED <<said, booked, handled, due, open, snapshot, analysed, at, seen, made,
                   failures, mixed>>

(* _forget_live_result(): the post-call processing, and every read of the   *)
(* completed call.                                                          *)
ForgetLiveResult ==
    /\ ended /\ (snapshot # Blank \/ analysed # 0)
    /\ \/ snapshot' = Blank /\ StoreWorks
       \/ UNCHANGED snapshot /\ StoreFails
    /\ analysed' = 0
    /\ UNCHANGED <<call, due, open, at, seen, made>>

-----------------------------------------------------------------------------
(* An analysis                                                              *)

(* analyze_latest_speech(): nothing more from the customer, so only the     *)
(* estimate follows what was said.                                          *)
Unchanged == said = 0 \/ said = analysed

Start ==
    /\ due /\ at["live"] = "rest"
    /\ due' = FALSE
    /\ IF ended THEN UNCHANGED <<at, seen>>
       ELSE /\ Move("live", IF Unchanged THEN "refreshing" ELSE "asking")
            /\ Reads("live", said, booked)
    /\ mixed' = (mixed \/ \E h \in Hands : at[h] # "rest")
    /\ UNCHANGED <<call, open, snapshot, analysed, made, failures>>

(* process_utterance(): stores the line and analyses the call at once.      *)
EnterByHand(h) ==
    /\ ~ended /\ at[h] = "rest" /\ said + booked < MaxLines
    /\ said' = said + 1
    /\ Move(h, "asking")
    /\ Reads(h, said + 1, booked)
    /\ mixed' = (mixed \/ \E r \in Runs \ {h} : at[r] # "rest")
    /\ UNCHANGED <<ended, booked, handled, due, open, snapshot, analysed, made, failures>>

(* The items of an answer that are questions to suggest, in its order:      *)
(* each about an open complaint, not dealt with, and there once, up to the  *)
(* limit; None when some item is no question and none is left.              *)
Fits(q, complaints) == q # Unusable /\ About[q] \in complaints

\* Mutant: what was dealt with may be suggested again.
RankedAgain(items, complaints, dealt) ==
    LET Add(list, q) ==
            IF Len(list) < Limit /\ Fits(q, complaints) /\ q \notin ToSet(list)
            THEN Append(list, q) ELSE list
        list == FoldLeft(Add, <<>>, items)
    IN IF list = <<>> /\ \E k \in DOMAIN items : ~Fits(items[k], complaints)
       THEN None ELSE list

RankedQuestions(items, complaints, dealt) ==
    LET Add(list, q) ==
            IF /\ Len(list) < Limit /\ Fits(q, complaints)
               /\ q \notin dealt \cup ToSet(list)
            THEN Append(list, q) ELSE list
        list == FoldLeft(Add, <<>>, items)
    IN IF list = <<>> /\ \E k \in DOMAIN items : ~Fits(items[k], complaints)
       THEN None ELSE list

Without(list, taken) == SelectSeq(list, LAMBDA q : q \notin taken)

(* generate_ranked() of the fixed questions: the first open complaints, one *)
(* question each; _not_handled() takes out those dealt with after that.     *)
RuleQuestions(complaints, dealt) ==
    LET asked == SelectSeq(Order, LAMBDA c : c \in complaints)
        first == SubSeq(asked, 1, IF Len(asked) < Limit THEN Len(asked) ELSE Limit)
    IN Without([k \in DOMAIN first |-> Rule[first[k]]], dealt)

Answers == UNION {[1 .. n -> Questions \cup {Unusable}] : n \in 0 .. MaxItems}

(* What can come of an answer to suggest (None: it cannot be used, or there *)
(* was none): _context() wants an open complaint.                           *)
Drafts ==
    [complaints \in SUBSET Categories, dealt \in SUBSET Questions |->
        {None} \cup IF complaints = {} THEN {<<>>}
                   ELSE {RankedQuestions(items, complaints, dealt) : items \in Answers}]

(* Mutant: the latest answer counts, unusable or not.                       *)
KeepingLatest(tone, earlier) == tone

(* keeping_earlier(): an unusable answer does not wipe the tone found.      *)
KeepingEarlier(tone, earlier) ==
    IF tone = "unusable" /\ earlier = "found" THEN earlier ELSE tone

(* The combined answer (or the separate ones) with the complaints found and *)
(* the tone; only the deferred analysis looks whether the call goes on. The *)
(* coverage is saved and the earlier snapshot read; the questions it wrote, *)
(* if they can be used, are shown before they are checked.                  *)
Analyse(r, found, tone) ==
    /\ at[r] = "asking"
    /\ ~(r = "live" /\ ended)
    /\ open' = open \cup found
    /\ \E readable \in BOOLEAN, drafted \in Drafts[open \cup found, seen[r].handled] :
         LET earlier == IF readable THEN snapshot ELSE Blank
             draft == [tone |-> KeepingEarlier(tone, earlier.tone),
                       questions |-> IF drafted = None THEN <<>> ELSE drafted,
                       estimate |-> seen[r].heard]
         IN /\ made' = [made EXCEPT ![r] = draft]
            /\ IF drafted = None THEN Move(r, "questions")
               ELSE IF drafted = <<>> THEN Move(r, "saving")
               ELSE Move(r, "showing")
            /\ IF readable THEN StoreWorks ELSE StoreFails
    /\ UNCHANGED <<call, due, snapshot, analysed, seen>>

(* _CallCompletedDuringAnalysis                                             *)
Discard ==
    /\ at["live"] = "asking" /\ ended
    /\ Rest("live")
    /\ UNCHANGED <<call, due, open, snapshot, analysed, failures, mixed>>

(* Mutant: nothing is brought up to date when the model fails.              *)
AnalysisFailsAtRest(r) ==
    /\ at[r] = "asking"
    /\ Rest(r) /\ mixed' = (mixed \/ r # "live")
    /\ UNCHANGED <<call, due, open, snapshot, analysed, failures>>

(* The model fails: the deferred analysis still brings the estimate up to   *)
(* date; the request by hand fails, and its line waits for the next speech. *)
AnalysisFails(r) ==
    /\ at[r] = "asking"
    /\ IF r = "live" THEN Move(r, "refreshing") /\ UNCHANGED <<seen, made, mixed>>
       ELSE Rest(r) /\ mixed' = TRUE
    /\ UNCHANGED <<call, due, open, snapshot, analysed, failures>>

ShowDrafted(r) ==
    /\ at[r] = "showing"
    /\ SaveSnapshot(made[r])
    /\ Move(r, "checking")
    /\ UNCHANGED <<call, due, open, analysed, seen, made>>

(* checked(): the questions already answered are taken out; none, when the  *)
(* check fails.                                                             *)
Checked(r) ==
    /\ at[r] = "checking"
    /\ \E answered \in SUBSET ToSet(made[r].questions) :
         made' = [made EXCEPT ![r].questions = Without(@, answered)]
    /\ Move(r, "saving")
    /\ UNCHANGED <<call, due, open, snapshot, analysed, seen, failures, mixed>>

(* suggest_questions(): a request of their own, or the fixed questions when *)
(* it fails or cannot be used.                                              *)
Suggested(complaints, dealt) ==
    {IF q = None THEN RuleQuestions(complaints, dealt) ELSE q : q \in Drafts[complaints, dealt]}

AskQuestions(r) ==
    /\ at[r] = "questions"
    /\ \E list \in Suggested(open, seen[r].handled) :
         made' = [made EXCEPT ![r].questions = list]
    /\ Move(r, "checking")
    /\ UNCHANGED <<call, due, open, snapshot, analysed, seen, failures, mixed>>

SaveAnalysis(r) ==
    /\ at[r] = "saving"
    /\ SaveSnapshot(made[r])
    /\ analysed' = IF r = "live" THEN seen[r].said ELSE analysed
    /\ Rest(r)
    /\ UNCHANGED <<call, due, open>>

(* _refresh_live_estimate(): reads the snapshot, then saves it again with   *)
(* the estimate of what the analysis had heard.                             *)
LoadToRefresh ==
    /\ at["live"] = "refreshing"
    /\ IF snapshot.estimate = seen["live"].heard THEN Rest("live")
       ELSE /\ made' = [made EXCEPT !["live"] =
                            [snapshot EXCEPT !.estimate = seen["live"].heard]]
            /\ Move("live", "refreshed")
            /\ UNCHANGED seen
    /\ UNCHANGED <<call, due, open, snapshot, analysed, failures, mixed>>

SaveRefreshed ==
    /\ at["live"] = "refreshed"
    /\ SaveSnapshot(made["live"])
    /\ Rest("live")
    /\ UNCHANGED <<call, due, open, analysed>>

Asks(r) ==
    \/ \E found \in SUBSET Categories, tone \in {"unusable", "found"} : Analyse(r, found, tone)
    \/ AnalysisFails(r)

Continues(r) ==
    \/ ShowDrafted(r)
    \/ Checked(r)
    \/ AskQuestions(r)
    \/ SaveAnalysis(r)

Steps(r) == Asks(r) \/ Continues(r)

LiveStep == Start \/ Discard \/ LoadToRefresh \/ SaveRefreshed \/ Steps("live")

Next ==
    \/ Speak \/ HandleQuestion \/ EndCall \/ ForgetLiveResult
    \/ \E h \in Hands : EnterByHand(h) \/ Steps(h)
    \/ LiveStep

(* The scheduler's worker and a request go on with what they have begun    *)
(* (how the scheduler starts one is LiveAnalysisScheduler's): a model's    *)
(* request ends, with an answer or by its timeout, and none has to succeed.*)
Spec == Init /\ [][Next]_vars
FairSpec == Spec /\ WF_vars(LiveStep) /\ \A h \in Hands : WF_vars(Steps(h))

-----------------------------------------------------------------------------
(* Every suggestion, shown or about to be, is among the few allowed, there  *)
(* once, about a complaint of the call, and was not dealt with when its     *)
(* analysis began.                                                          *)
Sound(list) ==
    /\ Len(list) <= Limit
    /\ IsInjective(list)
    /\ \A k \in DOMAIN list : list[k] \in Questions /\ About[list[k]] \in open

TypeOK ==
    /\ snapshot.tone \in Tones /\ Sound(snapshot.questions)
    /\ \A r \in Runs : /\ Sound(made[r].questions)
                       /\ at[r] # "refreshed" =>
                            ToSet(made[r].questions) \cap seen[r].handled = {}

(* A tone once found stays on the screen until the call ends: no unusable   *)
(* answer, and no refresh of the estimate alone, takes it away; unless the  *)
(* store failed or two analyses ran at once (call_workflow_service.py).     *)
ToneStands == snapshot.tone = "found" => ended \/ mixed \/ snapshot'.tone = "found"

(* The estimate comes up to what has been said, by either side, though the  *)
(* customer says no more and though the model fails every time.             *)
EstimateIsLatest == ended \/ mixed \/ snapshot.estimate >= said + booked
EstimateFollows == <>[]EstimateIsLatest

=============================================================================
