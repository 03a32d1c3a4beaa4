----------------------------- MODULE CallBrowser -----------------------------
(***************************************************************************)
(* The list of every call as people search it: the screen (CallBrowser.tsx)*)
(* keeps its filters in the address bar, applies typed text after a pause  *)
(* and shows the answer to its latest question; the server                 *)
(* (call_listing.py, and call_listing_query.py for PostgreSQL) counts the  *)
(* calls that match and reads a page of them, newest first.                *)
(*                                                                         *)
(* One typed filter stands for the customer and the phone number, one day  *)
(* range (of when the complaints were resolved) for both ranges, and "high"*)
(* for every choice of one value: location, executive, direction, high     *)
(* escalation. Text is kept without the spaces around it.                  *)
(***************************************************************************)
EXTENDS Integers, FiniteSets, Sequences

CONSTANTS
    Calls, Complaints,      \* 1..N in the order they are created, and the complaints a call can raise
    Called(_, _),           \* Called(c, t): text t is part of the caller's name, vehicle or number
    Texts, Ranges,          \* what can be typed, and the <<from, to>> days that can be chosen
    Day, PageSize,
    MaxChanges, MaxChoices, MaxFailures, MaxClock,    \* bounds
    None

BrowserAssumption ==
    /\ Calls = 1..Cardinality(Calls)
    /\ {Day, PageSize} \subseteq Nat \ {0}
    /\ IsFiniteSet(Complaints)
    /\ "" \in Texts

VARIABLES
    store,      \* of each call: its status, whether its escalation is high, its complaints
    clock,
    settled,    \* since when all of a call's complaints are resolved, kept to state a property
    browser,    \* the screen
    chosen,     \* the filters the person set on it, kept to state a property
    flying,     \* its requests
    used

browserVars == <<store, clock, settled, browser, chosen, flying, used>>

Uses(what, limit) == used[what] < limit /\ used' = [used EXCEPT ![what] = @ + 1]
Most(S) == CHOOSE x \in S : \A y \in S : y <= x

-----------------------------------------------------------------------------
(* When a call's complaints were resolved, as each store works it out.  A  *)
(* complaint is [status, updated, events]: when it was marked resolved.    *)

Raised(c) == {k \in Complaints : store[c].complaints[k] # None}
ResolvedAt(complaint) ==
    IF complaint.events = {} THEN complaint.updated ELSE Most(complaint.events)

\* complaints_resolved_at(): None at the first complaint that is still open.
ResolvedInMemory(c) ==
    LET records == {store[c].complaints[k] : k \in Raised(c)} IN
    IF records = {} \/ \E r \in records : r.status # "resolved" THEN None
    ELSE Most({ResolvedAt(r) : r \in records})

\* Mutant: the open complaints are left out instead of counted.
ResolvedOnes(c) ==
    LET records == {store[c].complaints[k] : k \in {k \in Raised(c) :
                        store[c].complaints[k].status = "resolved"}}
    IN IF records = {} THEN None ELSE Most({ResolvedAt(r) : r \in records})

\* The grouped query: a call without complaints has no row, one with an open complaint is left out.
ResolvedBySql(c) ==
    LET open == {k \in Raised(c) : store[c].complaints[k].status # "resolved"} IN
    IF Raised(c) = {} \/ Cardinality(open) # 0 THEN None
    ELSE Most({ResolvedAt(store[c].complaints[k]) : k \in Raised(c)})

\* A day range on the screen: midnight of the first day up to midnight after the last, left out.
From(range) == IF range[1] = None THEN None ELSE range[1] * Day
To(range) == IF range[2] = None THEN None ELSE (range[2] + 1) * Day
InRange(value, range) ==
    \/ From(range) = None /\ To(range) = None
    \/ /\ value # None
       /\ From(range) = None \/ value >= From(range)
       /\ To(range) = None \/ value < To(range)

Matches(c, filters) ==
    /\ filters.status = {} \/ store[c].status \in filters.status
    /\ filters.high => store[c].high
    /\ filters.text = "" \/ Called(c, filters.text)
    /\ InRange(ResolvedInMemory(c), filters.resolved)

\* PostgresCallListingQuery.search(): a comparison with NULL is never true.
Where(c, filters) ==
    /\ filters.status # {} => store[c].status \in filters.status
    /\ filters.high => store[c].high
    /\ filters.text # "" => Called(c, filters.text)
    /\ LET at == ResolvedBySql(c) IN
       /\ From(filters.resolved) # None => at # None /\ at >= From(filters.resolved)
       /\ To(filters.resolved) # None => at # None /\ at < To(filters.resolved)

Created == {c \in Calls : store[c] # None}
Found(filters) == {c \in Created : Where(c, filters)}
NewestFirst(ids) ==
    [i \in 1..Cardinality(ids) |-> CHOOSE c \in ids : Cardinality({d \in ids : d > c}) = i - 1]
PageAt(ids, offset) ==
    LET last == IF offset + PageSize < Cardinality(ids) THEN offset + PageSize ELSE Cardinality(ids)
    IN SubSeq(NewestFirst(ids), offset + 1, last)

-----------------------------------------------------------------------------
(* The screen.  "address" is the address bar, "rendered" what the screen   *)
(* was last drawn from: a timer or a quick second change finds it behind.  *)

NoFilters == [text |-> "", status |-> {}, high |-> FALSE, resolved |-> <<None, None>>]
Start == [filters |-> NoFilters, offset |-> 0]
Key(b) == [filters |-> b.rendered.filters, offset |-> b.rendered.offset, reload |-> b.reload]
IsLoading == browser.result = None \/ browser.result.key # Key(browser)

Request(key) == [key |-> key, cancelled |-> FALSE, total |-> None, ids |-> None]
Asks(b) ==
    flying' = {[r EXCEPT !.cancelled = TRUE] : r \in flying} \cup {Request(Key(b))}

\* Mutant: the filters last drawn are changed, not those of the address bar.
RenderedWith(field, value) ==
    [filters |-> [browser.rendered.filters EXCEPT ![field] = value], offset |-> 0]

\* withChanges(): starts from the address bar, and goes back to the first page.
WithChange(field, value) ==
    [filters |-> [browser.address.filters EXCEPT ![field] = value], offset |-> 0]

\* The filters' timer runs while the text typed is not the text the list was drawn for.
TimerFor(text, applied) == IF text = applied THEN None ELSE text

Type(text) ==
    /\ text # browser.typed
    /\ Uses("choices", MaxChoices)
    /\ browser' = [browser EXCEPT !.typed = text,
                                  !.timer = TimerFor(text, browser.rendered.filters.text)]
    /\ UNCHANGED <<store, clock, settled, chosen, flying>>

TimerFires ==
    /\ browser.timer # None
    /\ browser' = [browser EXCEPT !.address = WithChange("text", browser.timer), !.timer = None]
    /\ UNCHANGED <<store, clock, settled, chosen, flying, used>>

Choose(field, value) ==
    /\ Uses("choices", MaxChoices)
    /\ browser' = [browser EXCEPT !.address = WithChange(field, value)]
    /\ chosen' = [chosen EXCEPT ![field] = value]
    /\ UNCHANGED <<store, clock, settled, flying>>

\* toggleStatus()
ToggleStatus(status) ==
    LET now == browser.address.filters.status IN
    Choose("status", IF status \in now THEN now \ {status} ELSE now \cup {status})
ChooseHigh == Choose("high", ~browser.rendered.filters.high)
ChooseRange(range) == range # browser.rendered.filters.resolved /\ Choose("resolved", range)

ClearFilters ==
    /\ browser.rendered.filters # NoFilters \/ browser.typed # ""
    /\ Uses("choices", MaxChoices)
    /\ browser' = [browser EXCEPT !.typed = "", !.address = Start,
            !.timer = IF browser.typed = "" THEN @ ELSE TimerFor("", browser.rendered.filters.text)]
    /\ chosen' = NoFilters
    /\ UNCHANGED <<store, clock, settled, flying>>

\* Drawing the screen again starts what its filters ask for.
Render ==
    /\ browser.rendered # browser.address
    /\ LET b == [browser EXCEPT !.rendered = browser.address,
                    !.timer = IF browser.rendered.filters.text = browser.address.filters.text THEN @
                              ELSE TimerFor(browser.typed, browser.address.filters.text)] IN
       browser' = b /\ Asks(b)
    /\ UNCHANGED <<store, clock, settled, chosen, used>>

Refresh ==
    /\ ~IsLoading
    /\ Uses("choices", MaxChoices)
    /\ LET b == [browser EXCEPT !.reload = @ + 1] IN browser' = b /\ Asks(b)
    /\ UNCHANGED <<store, clock, settled, chosen>>

GoTo(offset) ==
    /\ ~IsLoading /\ ~browser.result.error
    /\ Uses("choices", MaxChoices)
    /\ browser' = [browser EXCEPT !.address.offset = offset]
    /\ UNCHANGED <<store, clock, settled, chosen, flying>>

NextPage ==
    /\ browser.result # None
    /\ browser.rendered.offset + Len(browser.result.ids) < browser.result.total
    /\ GoTo(browser.rendered.offset + PageSize)
PreviousPage ==
    /\ browser.rendered.offset > 0 /\ browser.result # None /\ browser.result.total > 0
    /\ GoTo(IF browser.rendered.offset > PageSize THEN browser.rendered.offset - PageSize ELSE 0)

\* The server counts, then reads the page.
Count(r) ==
    /\ r.total = None
    /\ flying' = (flying \ {r}) \cup {[r EXCEPT !.total = Cardinality(Found(r.key.filters))]}
    /\ UNCHANGED <<store, clock, settled, browser, chosen, used>>
ReadPage(r) ==
    /\ r.total # None /\ r.ids = None
    /\ flying' = (flying \ {r})
                 \cup {[r EXCEPT !.ids = PageAt(Found(r.key.filters), r.key.offset)]}
    /\ UNCHANGED <<store, clock, settled, browser, chosen, used>>

\* Mutant: the answer to an earlier question is shown as well.
ArrivesAnyhow(r) ==
    /\ r.ids # None
    /\ browser' = [browser EXCEPT !.result =
                    [key |-> r.key, ids |-> r.ids, total |-> r.total, error |-> FALSE]]
    /\ flying' = flying \ {r}
    /\ UNCHANGED <<store, clock, settled, chosen, used>>

Arrives(r) ==
    /\ r.ids # None
    /\ browser' = IF r.cancelled THEN browser
                  ELSE [browser EXCEPT !.result =
                    [key |-> r.key, ids |-> r.ids, total |-> r.total, error |-> FALSE]]
    /\ flying' = flying \ {r}
    /\ UNCHANGED <<store, clock, settled, chosen, used>>

RequestFails(r) ==
    /\ Uses("failures", MaxFailures)
    /\ browser' = IF r.cancelled THEN browser
                  ELSE [browser EXCEPT !.result =
                    [key |-> r.key, ids |-> <<>>, total |-> 0, error |-> TRUE]]
    /\ flying' = flying \ {r}
    /\ UNCHANGED <<store, clock, settled, chosen>>

-----------------------------------------------------------------------------
(* The calls, as the rest of the system changes them.                       *)

NewCall == [status |-> "active", high |-> FALSE, complaints |-> [k \in Complaints |-> None]]
AllResolved(call) ==
    LET raised == {k \in Complaints : call.complaints[k] # None}
    IN raised # {} /\ \A k \in raised : call.complaints[k].status = "resolved"

Changes(c, call) ==
    /\ Uses("changes", MaxChanges)
    /\ store' = [store EXCEPT ![c] = call]
    /\ settled' = [settled EXCEPT ![c] = IF ~AllResolved(call) THEN None
                                        ELSE IF @ # None THEN @ ELSE clock]
    /\ UNCHANGED <<clock, browser, chosen, flying>>

CallStarts(c) == store[c] = None /\ (c > 1 => store[c - 1] # None) /\ Changes(c, NewCall)
CallEnds(c) ==
    store[c] # None /\ store[c].status = "active"
        /\ Changes(c, [store[c] EXCEPT !.status = "completed"])
Escalated(c) == store[c] # None /\ ~store[c].high /\ Changes(c, [store[c] EXCEPT !.high = TRUE])
ComplaintRaised(c, k) ==
    /\ store[c] # None /\ store[c].complaints[k] = None
    /\ Changes(c, [store[c] EXCEPT !.complaints[k] =
                    [status |-> "open", updated |-> clock, events |-> {}]])
\* Open to resolved and back: each is an event, at the time it is made.
ComplaintMarked(c, k) ==
    /\ store[c] # None /\ k \in Raised(c)
    /\ LET was == store[c].complaints[k] IN
       Changes(c, [store[c] EXCEPT !.complaints[k] =
            IF was.status = "resolved" THEN [was EXCEPT !.status = "open", !.updated = clock]
            ELSE [status |-> "resolved", updated |-> clock, events |-> was.events \cup {clock}]])
Tick ==
    /\ clock < MaxClock
    /\ clock' = clock + 1
    /\ UNCHANGED <<store, settled, browser, chosen, flying, used>>

-----------------------------------------------------------------------------
Init ==
    /\ store = [c \in Calls |-> IF c = 1 THEN NewCall ELSE None]
    /\ clock = 0
    /\ settled = [c \in Calls |-> None]
    /\ browser = [address |-> Start, rendered |-> Start, typed |-> "", timer |-> None,
                  reload |-> 0, result |-> None]
    /\ chosen = NoFilters
    /\ flying = {Request(Key(browser))}
    /\ used = [w \in {"changes", "choices", "failures"} |-> 0]

Serves == \E r \in flying : Count(r) \/ ReadPage(r) \/ Arrives(r)
Person ==
    \/ \E t \in Texts : Type(t)
    \/ \E s \in {"active", "completed"} : ToggleStatus(s)
    \/ \E range \in Ranges : ChooseRange(range)
    \/ ChooseHigh \/ ClearFilters \/ Refresh \/ NextPage \/ PreviousPage
CallChanges == \E c \in Calls :
    \/ CallStarts(c) \/ CallEnds(c) \/ Escalated(c)
    \/ \E k \in Complaints : ComplaintRaised(c, k) \/ ComplaintMarked(c, k)
Next ==
    \/ Person \/ TimerFires \/ Render \/ Serves \/ CallChanges \/ Tick
    \/ \E r \in flying : RequestFails(r)

Spec == Init /\ [][Next]_browserVars
\* The page's timer fires, it is drawn again, and requests are answered or fail.
FairSpec ==
    /\ Spec
    /\ WF_browserVars(TimerFires) /\ WF_browserVars(Render) /\ WF_browserVars(Serves)

-----------------------------------------------------------------------------
\* No filter chosen is lost to another one chosen at nearly the same time, nor to the timer that applies
\* the text typed before it; and the text is applied once the timer has fired and the page is drawn.
ChoicesAreKept ==
    /\ [browser.address.filters EXCEPT !.text = ""] = [chosen EXCEPT !.text = ""]
    /\ (browser.timer = None /\ browser.rendered = browser.address)
        => browser.address.filters.text = browser.typed

\* Left alone, the list comes to show the answer to what its filters and its page ask, or an error: it
\* never stays "Updating...".
ListIsUpToDate == browser.rendered = browser.address /\ ~IsLoading
BrowserSettles == <>[]ListIsUpToDate

\* Both stores find the same calls, and a call is found by the moment its last open complaint was
\* resolved, and not at all while one is open.
StoresAgree ==
    \A c \in Created :
        /\ \A range \in Ranges :
            LET f == [NoFilters EXCEPT !.resolved = range] IN Matches(c, f) = Where(c, f)
        /\ ResolvedBySql(c) = settled[c]
=============================================================================
