------------------------------ MODULE LiveBoard ------------------------------
(***************************************************************************)
(* The supervisor's page of every call in progress (live_calls.py and      *)
(* LiveCallsPage.tsx).  The server reads the calls, then the stores beside *)
(* them, at most once per CacheSeconds and under a lock, whoever asks; the *)
(* page asks every few seconds and whenever its filters or its place in the*)
(* list change, and shows the answer to its latest question only.          *)
(*                                                                         *)
(* Calls are numbered as they are created.  Only what orders or filters a  *)
(* card is kept of it: tone, number of open alerts and level of an open    *)
(* escalation (0 for none); the location stands for the executive too,     *)
(* which filters alike.                                                    *)
(***************************************************************************)
EXTENDS Integers, FiniteSets, Sequences

CONSTANTS
    Calls, Location,        \* 1..N and where each is taken
    Tones, MaxAlerts, MaxLevel,
    Choices,                \* the filters a supervisor can choose; NoFilters is one of them
    NoFilters,
    PageSize, MaxLiveCalls, CacheSeconds,
    MaxChanges, MaxClicks, MaxFailures, MaxFlying,    \* bounds
    None

LiveBoardAssumption ==
    /\ Calls = 1..Cardinality(Calls)
    /\ {PageSize, CacheSeconds} \subseteq Nat \ {0}
    /\ NoFilters \in Choices

VARIABLES
    calls,      \* what the stores hold of each call
    cached,     \* None, or the board last read and its age in seconds
    reading,    \* None, or the calls of a read that has not seen the other stores yet
    page,       \* the supervisor's page
    flying,     \* its requests without an answer on the page yet
    used        \* changes of calls, clicks and failures so far

liveBoardVars == <<calls, cached, reading, page, flying, used>>

Active == {c \in Calls : calls[c].status = "active"}
Uses(what, limit) == used[what] < limit /\ used' = [used EXCEPT ![what] = @ + 1]

-----------------------------------------------------------------------------
(* The server.                                                              *)

\* _urgency(): the most alerts, then the most escalated, then the longest running.
MoreUrgent(x, y) ==
    \/ x.alerts > y.alerts
    \/ x.alerts = y.alerts /\ x.level > y.level
    \/ x.alerts = y.alerts /\ x.level = y.level /\ x.id < y.id

Sorted(rows) ==
    [i \in 1..Cardinality(rows) |->
        CHOOSE r \in rows : Cardinality({s \in rows : MoreUrgent(s, r)}) = i - 1]

Match(filters, row) ==
    /\ filters.location \in {None, Location[row.id]}
    /\ filters.tone \in {None, row.tone}
    /\ filters.alertsOnly => row.alerts > 0

\* The rows at some places, in their order.
InOrder(rows, places) ==
    [n \in 1..Cardinality(places) |->
        rows[CHOOSE i \in places : Cardinality({j \in places : j < i}) = n - 1]]

\* LiveCallsBoard.page(): the totals are over every call, whatever the filters.
PageOf(rows, filters, offset) ==
    LET matching == InOrder(rows, {i \in DOMAIN rows : Match(filters, rows[i])})
        last == IF offset + PageSize < Len(matching) THEN offset + PageSize ELSE Len(matching)
    IN [items |-> SubSeq(matching, offset + 1, last), matching |-> Len(matching),
        offset |-> offset, total |-> Len(rows),
        withAlerts |-> Cardinality({i \in DOMAIN rows : rows[i].alerts > 0}),
        escalated |-> Cardinality({i \in DOMAIN rows : rows[i].level > 0})]

Fresh == cached # None /\ cached.age < CacheSeconds
Answered(r, rows) ==
    flying' = (flying \ {r}) \cup {[r EXCEPT !.answer = PageOf(rows, r.filters, r.offset)]}

ServeCached(r) ==
    /\ r.answer = None /\ reading = None /\ Fresh
    /\ Answered(r, cached.rows)
    /\ UNCHANGED <<calls, cached, reading, page, used>>

\* The escalations come with the calls, newest first and at most MaxLiveCalls of them.
ReadCalls(r) ==
    /\ r.answer = None /\ reading = None /\ ~Fresh
    /\ reading' = [by |-> r, level |->
                    [c \in {c \in Active :
                            Cardinality({d \in Active : d > c}) < MaxLiveCalls} |-> calls[c].level]]
    /\ UNCHANGED <<calls, cached, page, flying, used>>

\* A store beside the calls that cannot be read leaves its part of each card empty.
Row(c, alertsRead) ==
    [id |-> c, level |-> reading.level[c], tone |-> calls[c].tone,
     alerts |-> IF alertsRead THEN calls[c].alerts ELSE 0]

ReadTheRest(alertsRead) ==
    /\ reading # None
    /\ IF alertsRead THEN UNCHANGED used ELSE Uses("failures", MaxFailures)
    /\ LET rows == Sorted({Row(c, alertsRead) : c \in DOMAIN reading.level}) IN
       /\ cached' = [rows |-> rows, age |-> 0]
       /\ IF reading.by \in flying THEN Answered(reading.by, rows) ELSE UNCHANGED flying
    /\ reading' = None
    /\ UNCHANGED <<calls, page>>

Tick ==
    /\ cached # None /\ cached.age < CacheSeconds
    /\ cached' = [cached EXCEPT !.age = @ + 1]
    /\ UNCHANGED <<calls, reading, page, flying, used>>

-----------------------------------------------------------------------------
(* The page.  An earlier request is no longer current once a later one is   *)
(* made, or once the filters or the place in the list have changed.         *)

Request(p) == [current |-> TRUE, filters |-> p.filters, offset |-> p.offset, answer |-> None]
Superseded(rs) == {[r EXCEPT !.current = FALSE] : r \in rs}
Loads(p, rs) ==
    /\ page' = p
    /\ flying' = Superseded(rs) \cup {Request(p)}
    \* The reader under way is the same request, no longer current.
    /\ reading' = IF reading = None THEN None ELSE [reading EXCEPT !.by.current = FALSE]

Awaited == \E r \in flying : r.current

Poll ==
    /\ ~Awaited /\ Cardinality(flying) < MaxFlying
    /\ Loads(page, flying)
    /\ UNCHANGED <<calls, cached, used>>

\* The timer does not wait for the last answer.
PollAgain ==
    /\ Awaited /\ Cardinality(flying) < MaxFlying
    /\ Uses("failures", MaxFailures)
    /\ Loads(page, flying)
    /\ UNCHANGED <<calls, cached>>

\* updateFilters() and "Clear filters".
ChooseFilters(f) ==
    /\ page.calls # None /\ Cardinality(flying) < MaxFlying
    /\ f # page.filters
    /\ Uses("clicks", MaxClicks)
    /\ Loads([page EXCEPT !.filters = f, !.offset = 0], flying)
    /\ UNCHANGED <<calls, cached>>

GoTo(offset) ==
    /\ page.calls # None /\ Cardinality(flying) < MaxFlying
    /\ page.calls.items # <<>> /\ page.calls.matching > PageSize
    /\ Uses("clicks", MaxClicks)
    /\ Loads([page EXCEPT !.offset = offset], flying)
    /\ UNCHANGED <<calls, cached>>

NextPage ==
    /\ page.calls # None
    /\ page.calls.offset + Len(page.calls.items) < page.calls.matching
    /\ GoTo(page.offset + PageSize)

PreviousPage ==
    /\ page.offset > 0
    /\ GoTo(IF page.offset > PageSize THEN page.offset - PageSize ELSE 0)

\* Mutant: off by one when the calls just fill the pages.
LastPageAfter(matching) == (matching \div PageSize) * PageSize

\* Calls ended while a later page was open: the last one is opened.
LastPage(matching) == IF matching = 0 THEN 0 ELSE ((matching - 1) \div PageSize) * PageSize

\* Mutant: every answer is shown, an earlier question's too.
ArrivesAnyhow(r) ==
    /\ r.answer # None
    /\ page' = [page EXCEPT !.calls = r.answer, !.error = FALSE]
    /\ flying' = flying \ {r}
    /\ UNCHANGED <<calls, cached, reading, used>>

Arrives(r) ==
    /\ r.answer # None
    /\ LET shown == [page EXCEPT !.calls = r.answer, !.error = FALSE] IN
       IF ~r.current
       THEN flying' = flying \ {r} /\ UNCHANGED <<page, reading>>
       ELSE IF r.answer.items = <<>> /\ page.offset > 0 /\ page.offset >= r.answer.matching
       THEN Loads([shown EXCEPT !.offset = LastPage(r.answer.matching)], flying \ {r})
       ELSE page' = shown /\ flying' = flying \ {r} /\ UNCHANGED reading
    /\ UNCHANGED <<calls, cached, used>>

\* The last list stays on the page.
RequestFails(r) ==
    /\ Uses("failures", MaxFailures)
    /\ flying' = flying \ {r}
    /\ page' = IF r.current THEN [page EXCEPT !.error = TRUE] ELSE page
    /\ UNCHANGED <<calls, cached, reading>>

-----------------------------------------------------------------------------
(* The calls, as the rest of the system changes them.                       *)

NewCall == [status |-> "active", tone |-> None, alerts |-> 0, level |-> 0]
Changes(c, call) ==
    /\ Uses("changes", MaxChanges)
    /\ calls' = [calls EXCEPT ![c] = call]
    /\ UNCHANGED <<cached, reading, page, flying>>

CallStarts(c) == calls[c].status = "new" /\ Changes(c, NewCall)
CallEnds(c) == c \in Active /\ Changes(c, [calls[c] EXCEPT !.status = "completed"])
ToneHeard(c, t) == c \in Active /\ t # calls[c].tone /\ Changes(c, [calls[c] EXCEPT !.tone = t])
AlertsChange(c, n) ==
    c \in Active /\ n # calls[c].alerts /\ Changes(c, [calls[c] EXCEPT !.alerts = n])
LevelChanges(c, n) ==
    c \in Active /\ n # calls[c].level /\ Changes(c, [calls[c] EXCEPT !.level = n])

-----------------------------------------------------------------------------
Init ==
    /\ calls \in [Calls -> {NewCall, [NewCall EXCEPT !.status = "new"]}]
    /\ cached = None /\ reading = None
    /\ page = [filters |-> NoFilters, offset |-> 0, calls |-> None, error |-> FALSE]
    /\ flying = {Request(page)}
    /\ used = [w \in {"changes", "clicks", "failures"} |-> 0]

Reads == \E r \in flying : ServeCached(r) \/ ReadCalls(r)
AnswerShown == \E r \in flying : Arrives(r)
ServerAndPage ==
    \/ Reads \/ ReadTheRest(TRUE) \/ ReadTheRest(FALSE) \/ Tick
    \/ Poll \/ PollAgain \/ AnswerShown \/ NextPage \/ PreviousPage
    \/ \E f \in Choices : ChooseFilters(f)
    \/ \E r \in flying : RequestFails(r)
CallChanges == \E c \in Calls :
    \/ CallStarts(c) \/ CallEnds(c)
    \/ \E t \in Tones : ToneHeard(c, t)
    \/ \E n \in 0..MaxAlerts : AlertsChange(c, n)
    \/ \E n \in 0..MaxLevel : LevelChanges(c, n)
Next == ServerAndPage \/ CallChanges

Spec == Init /\ [][Next]_liveBoardVars
\* The timer keeps asking, the server serves what it is asked, and time passes.  Answers slower than the
\* timer are among the failures, so few.
FairSpec ==
    /\ Spec
    /\ WF_liveBoardVars(Reads) /\ WF_liveBoardVars(ReadTheRest(TRUE)) /\ WF_liveBoardVars(Tick)
    /\ WF_liveBoardVars(Poll) /\ WF_liveBoardVars(AnswerShown)

-----------------------------------------------------------------------------
\* Once the page's latest question is answered, what it shows answers the filters and the place chosen
\* now: an earlier answer that comes late never replaces it.
ShowsTheChosen ==
    (page.calls # None /\ ~page.error /\ ~Awaited)
        => /\ page.calls.offset = page.offset
           /\ \A i \in DOMAIN page.calls.items : Match(page.filters, page.calls.items[i])

\* Once the calls stay as they are, the page comes to show exactly them, most urgent first, and never
\* rests past the end of the list, whatever was cached, lost or clicked before.
RowNow(c) == [id |-> c, level |-> calls[c].level, tone |-> calls[c].tone, alerts |-> calls[c].alerts]
ListIsRight ==
    /\ page.calls = PageOf(Sorted({RowNow(c) : c \in Active}), page.filters, page.offset)
    /\ page.calls.matching > 0 => page.calls.items # <<>>
LiveListFollows == <>[]ListIsRight
=============================================================================
