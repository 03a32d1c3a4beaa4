------------------------------- MODULE Reports -------------------------------
(***************************************************************************)
(* A supervisor reads reports (ReportsPage.tsx, PerformancePanel.tsx) while*)
(* calls come in and are worked on: the page asks again whenever the       *)
(* filters change, and answers come in any order (api/v1/reports.py).      *)
(* First what reports work out of the stored calls, by fixed rules:        *)
(* complaints per category, day or week and location (reporting.py), the   *)
(* management figures (performance.py) and the quality audit               *)
(* (quality_audit.py); then the page.                                      *)
(*                                                                         *)
(* The store of calls belongs to other parts of the system: how a call, its*)
(* coverage and its complaints change is in Conversation, Complaints and   *)
(* Escalations; here they change as reports can see it.  The several reads *)
(* of one report are one step.                                             *)
(*                                                                         *)
(* Time is counted in ticks, Day of them a day.  A tone is its severity,   *)
(* 0 (positive) to 4 (escalating).  What a complaint is described as is the*)
(* set of its key words, {} when nobody described it.  Points of the audit *)
(* are out of 1000, the CSAT estimate is in halves of a star, and a rate is*)
(* <<part, whole>>.  Names, quotes and the direction of a call (filtered on*)
(* as its location is) are left out.                                       *)
(***************************************************************************)
EXTENDS Integers, Sequences, SequencesExt, FiniteSets, FiniteSetsExt

CONSTANTS
    Day,
    MaxRangeDays, MaxReportCalls, MaxDailyBuckets, MaxThemes,
    MinShared,              \* THEME_MIN_SHARED_WORDS
    MaxLines,               \* of the trend chart
    FcrDays, RepeatDays,
    LongHold,
    CallIds,                \* 1..n
    Kinds,                  \* what a call can be when it is first stored, its time aside
    Categories,
    Moments,                \* of the clock, in ticks
    Asked,                  \* the filters a supervisor chooses; the range is set
    MaxChanges, MaxChoices, \* bounds
    None

FiguresAssumption ==
    {Day, MaxRangeDays, MaxReportCalls, MaxDailyBuckets, MaxThemes, MinShared, MaxLines,
     FcrDays, RepeatDays} \subseteq Nat \ {0} /\ LongHold \in Nat

ReportsAssumption ==
    /\ FiguresAssumption
    /\ Moments \subseteq Nat /\ {MaxChanges, MaxChoices} \subseteq Nat
    /\ \A f \in Asked : f.from < f.to

VARIABLES
    now,
    store,      \* each call, or None
    name,       \* of each category, as renamed
    page,       \* [view, filters]: in the page's address; filters None while the dates are not usable
    flights,    \* requests under way: [of, filters, live, served, report]
    loaded,     \* per view: the last answer taken, or None
    changes, choices    \* count towards the bounds

-----------------------------------------------------------------------------
Indices(s, P(_)) == {i \in DOMAIN s : P(s[i])}
CountOf(s, P(_)) == Cardinality(Indices(s, P))
SumOf(s, f(_)) ==
    LET sum[i \in 0..Len(s)] == IF i = 0 THEN 0 ELSE sum[i - 1] + f(s[i]) IN sum[Len(s)]
Sums(f) == Cardinality(UNION {{x} \X (1..f[x]) : x \in DOMAIN f})     \* of numbers from 0 on
Rate(part, whole) == IF whole = 0 THEN None ELSE <<part, whole>>
Smaller(a, b) == IF a < b THEN a ELSE b

-----------------------------------------------------------------------------
(* One call as reports see it.                                              *)

Negative(tone) == tone >= 2

ToneChange(call) ==
    CASE None \in {call.toneStart, call.toneEnd} -> None
      [] call.toneEnd > call.toneStart -> 1
      [] call.toneEnd < call.toneStart -> -1
      [] OTHER -> 0

CustomerKey(link) ==
    CASE link.customer # None -> <<"customer", link.customer>>
      [] link.number # None -> <<"number", link.number>>
      [] OTHER -> None

\* Mutant: only what is still open.
ComplaintsStillOpen(stored) ==
    LET open == SelectSeq(stored.coverage, LAMBDA c : stored.tracked[c.category] # "resolved") IN
    [i \in DOMAIN open |->
        LET category == open[i].category IN
        [category |-> category, status |-> open[i].status, probed |-> open[i].status # "detected",
         words |-> stored.words[category], accepted |-> stored.outcomes[category].accepted,
         skipped |-> stored.outcomes[category].skipped]]

\* The categories raised, each with where its tracked complaint stands now and what came of the
\* questions suggested about it.
ComplaintsOf(stored) ==
    LET raised == SelectSeq(stored.coverage, LAMBDA c : c.status # "not_raised") IN
    [i \in DOMAIN raised |->
        LET category == raised[i].category IN
        [category |-> category,
         status |-> IF stored.tracked[category] # None THEN stored.tracked[category]
                                                       ELSE raised[i].status,
         probed |-> raised[i].status # "detected",
         words |-> stored.words[category],
         accepted |-> stored.outcomes[category].accepted,
         skipped |-> stored.outcomes[category].skipped]]

ReportCall(id, stored) ==
    [id |-> id, at |-> stored.at, location |-> stored.location, executive |-> stored.executive,
     customer |-> CustomerKey(stored.link), tone |-> stored.tone,
     toneStart |-> stored.toneStart, toneEnd |-> stored.toneEnd,
     serious |-> stored.escalation # "none",
     escalationOpen |-> stored.escalation = "open",
     hold |-> stored.hold, complaints |-> ComplaintsOf(stored)]

\* RenamingReportSource: each complaint under its category's name now, two of one name as the first.
Renamed(call) ==
    IF \A i \in DOMAIN call.complaints : name[call.complaints[i].category] = call.complaints[i].category
    THEN call
    ELSE [call EXCEPT !.complaints =
            FoldLeft(LAMBDA kept, c :
                IF \E k \in ToSet(kept) : k.category = name[c.category] THEN kept
                ELSE Append(kept, [c EXCEPT !.category = name[c.category]]), <<>>, @)]

Fits(chosen, value) == chosen \in {None, value}
Matches(stored, filters) ==
    /\ stored # None
    /\ filters.from <= stored.at /\ stored.at < filters.to
    /\ Fits(filters.location, stored.location)
    /\ Fits(filters.executive, stored.executive)
    /\ Fits(filters.tone, stored.tone)

\* The calls that match, oldest first.
CallsOf(filters) ==
    LET ids == SetToSortSeq({c \in DOMAIN store : Matches(store[c], filters)},
                   LAMBDA c, d : \/ store[c].at < store[d].at
                                 \/ store[c].at = store[d].at /\ c < d)
    IN [i \in DOMAIN ids |-> Renamed(ReportCall(ids[i], store[ids[i]]))]

Reportable(filters) == filters.to - filters.from <= MaxRangeDays * Day
Period(from, to) ==
    [from |-> from, to |-> to, location |-> None, executive |-> None, tone |-> None,
     category |-> None, bucket |-> None, offset |-> 0]

-----------------------------------------------------------------------------
(* Days and weeks, by the reader's clock.                                   *)

\* Mutant: weeks as if 1970 had begun on a Monday.
BucketIndexFromMonday(at, bucket, offset) ==
    LET day == (at + offset) \div Day IN IF bucket = "day" THEN day ELSE day \div 7
BucketIndex(at, bucket, offset) ==
    LET day == (at + offset) \div Day IN IF bucket = "day" THEN day ELSE (day + 3) \div 7
BucketStart(index, bucket, offset) ==
    (IF bucket = "day" THEN index ELSE index * 7 - 3) * Day - offset

ReportBuckets(filters) ==
    LET bucket == IF filters.bucket # None THEN filters.bucket
                  ELSE IF filters.to - filters.from <= MaxDailyBuckets * Day THEN "day" ELSE "week"
    IN [bucket |-> bucket, offset |-> filters.offset,
        first |-> BucketIndex(filters.from, bucket, filters.offset),
        last |-> BucketIndex(filters.to - 1, bucket, filters.offset)]

Place(at, b) == BucketIndex(at, b.bucket, b.offset) - b.first + 1
Places(b) == 1..(b.last - b.first + 1)

-----------------------------------------------------------------------------
(* The complaint report.                                                    *)

ToneTrend(calls, b) ==
    [p \in Places(b) |->
        LET Rated(c) == c.tone # None /\ Place(c.at, b) = p IN
        [rated |-> CountOf(calls, Rated),
         negative |-> CountOf(calls, LAMBDA c : Rated(c) /\ Negative(c.tone))]]

ToneSummary(calls, b) ==
    [byTone |-> [t \in 0..4 |-> CountOf(calls, LAMBDA c : c.tone = t)],
     rated |-> CountOf(calls, LAMBDA c : c.tone # None),
     negative |-> CountOf(calls, LAMBDA c : c.tone # None /\ Negative(c.tone)),
     tracked |-> CountOf(calls, LAMBDA c : ToneChange(c) # None),
     improved |-> CountOf(calls, LAMBDA c : ToneChange(c) = -1),
     worsened |-> CountOf(calls, LAMBDA c : ToneChange(c) = 1),
     trend |-> ToneTrend(calls, b)]

Alike(a, b) ==
    LET shared == Cardinality(a \cap b) IN
    shared >= MinShared /\ 5 * shared >= 3 * Smaller(Cardinality(a), Cardinality(b))

\* A call has one complaint of a category at most.
Raises(call, category) == \E i \in DOMAIN call.complaints : call.complaints[i].category = category
Complaint(call, category) ==
    call.complaints[CHOOSE i \in DOMAIN call.complaints : call.complaints[i].category = category]
Raising(calls, category) == SelectSeq(calls, LAMBDA c : Raises(c, category))
CategoriesOf(calls) ==
    UNION {{calls[i].complaints[j].category : j \in DOMAIN calls[i].complaints} : i \in DOMAIN calls}

\* Each complaint joins the first group whose first description is like its own; the largest groups
\* are listed, with their calls from the most recent on.
RootCause(calls, category) ==
    LET Words(call) == Complaint(call, category).words
        described == SelectSeq(calls, LAMBDA c : Words(c) # {})
        Join(groups, c) ==
            LET like == {g \in DOMAIN groups : Alike(Words(c), Words(groups[g][1]))} IN
            IF like = {} THEN Append(groups, <<c>>)
            ELSE [groups EXCEPT ![Min(like)] = Append(@, c)]
        grouped[i \in 0..Len(described)] ==
            IF i = 0 THEN <<>> ELSE Join(grouped[i - 1], described[i])
        groups == grouped[Len(described)]
        order == SetToSortSeq(DOMAIN groups, LAMBDA g, h :
                    \/ Len(groups[g]) > Len(groups[h])
                    \/ Len(groups[g]) = Len(groups[h]) /\ g < h)
    IN [undescribed |-> Len(calls) - Len(described),
        themes |-> [i \in 1..Smaller(Len(order), MaxThemes) |->
                      LET members == groups[order[i]] IN
                      [text |-> Words(members[1]), complaints |-> Len(members),
                       calls |-> {members[m].id : m \in DOMAIN members}]],
        unlisted |-> Sums([i \in DOMAIN order |->
                             IF i > MaxThemes THEN Len(groups[order[i]]) ELSE 0])]

\* With a category chosen: only the calls that raised it, with only that complaint.
OfCategory(calls, category) ==
    IF category = None THEN calls
    ELSE LET raising == Raising(calls, category) IN
         [i \in DOMAIN raising |->
             [raising[i] EXCEPT !.complaints = <<Complaint(raising[i], category)>>]]

ComplaintReport(filters) ==
    LET found == CallsOf(filters)
        calls == OfCategory(found, filters.category)
        b == ReportBuckets(filters)
        categories == CategoriesOf(calls)
        raising == [c \in categories |-> Raising(calls, c)]
        locations == {calls[i].location : i \in {k \in DOMAIN calls : calls[k].complaints # <<>>}}
        totals == [c \in categories |-> Len(raising[c])]
    IN IF ~Reportable(filters) \/ Len(found) > MaxReportCalls THEN None
       ELSE [filters |-> filters, buckets |-> b,
             calls |-> Len(calls),
             withComplaints |-> CountOf(calls, LAMBDA c : c.complaints # <<>>),
             complaints |-> Sums(totals),
             totals |-> totals,
             resolved |-> [c \in categories |->
                 CountOf(raising[c], LAMBDA k : Complaint(k, c).status = "resolved")],
             starts |-> [p \in Places(b) |-> BucketStart(b.first + p - 1, b.bucket, b.offset)],
             trend |-> [c \in categories |-> [p \in Places(b) |->
                 CountOf(raising[c], LAMBDA k : Place(k.at, b) = p)]],
             heatmap |-> [c \in categories |-> [l \in locations |->
                 CountOf(raising[c], LAMBDA k : k.location = l)]],
             causes |-> [c \in categories |-> RootCause(raising[c], c)],
             tone |-> ToneSummary(calls, b)]

\* The page draws the most frequent categories and adds the rest up.
TrendLines(report) ==
    LET Before(c, d) == report.totals[c] > report.totals[d]
        order == SetToSortSeq(DOMAIN report.totals, Before)
        shown == 1..Smaller(Len(order), MaxLines)
    IN [i \in shown |-> report.trend[order[i]]]
       \o (IF Len(order) <= MaxLines THEN <<>>
           ELSE <<[p \in DOMAIN report.starts |->
                    Sums([i \in DOMAIN order \ shown |-> report.trend[order[i]][p]])]>>)

-----------------------------------------------------------------------------
(* The quality audit.                                                       *)

AuditCategory(complaint) ==
    LET suggested == complaint.accepted + complaint.skipped > 0
        points == (IF complaint.probed THEN 60 ELSE 0)
                  + (IF complaint.accepted > 0 THEN 20 ELSE 0)
                  + (IF complaint.status = "resolved" THEN 20 ELSE 0)
    IN (1000 * points) \div (80 + IF suggested THEN 20 ELSE 0)

Adjustments(call) ==
    (CASE ToneChange(call) = -1 -> 50 [] ToneChange(call) = 1 -> -100 [] OTHER -> 0)
    + (IF call.escalationOpen /\ call.serious THEN -100 ELSE 0)
    + (IF call.hold > LongHold THEN -50 ELSE 0)

AuditCall(call) ==
    LET base == IF call.complaints = <<>> THEN 1000
                ELSE SumOf(call.complaints, AuditCategory) \div Len(call.complaints)
        score == base + Adjustments(call)
    IN IF score < 0 THEN 0 ELSE Smaller(score, 1000)

\* Over a set of calls: those that raised a complaint, and the category handled worst.
AuditFigures(calls) ==
    LET audited == SelectSeq(calls, LAMBDA c : c.complaints # <<>>)
        Of(category) == Raising(audited, category)
        average == [c \in CategoriesOf(audited) |->
            SumOf(Of(c), LAMBDA k : AuditCategory(Complaint(k, c))) \div Len(Of(c))]
        Worse(c, d) == \/ average[c] < average[d]
                       \/ average[c] = average[d] /\ Len(Of(c)) >= Len(Of(d))
    IN [audited |-> Len(audited),
        score |-> IF audited = <<>> THEN None
                  ELSE SumOf(audited, AuditCall) \div Len(audited),
        weakest |-> IF audited = <<>> THEN None
                    ELSE CHOOSE c \in DOMAIN average : \A d \in DOMAIN average : Worse(c, d)]

-----------------------------------------------------------------------------
(* The management figures.                                                  *)

\* When each known customer raised each category.
RaisedByCustomer(calls) ==
    UNION {{<<calls[i].customer, calls[i].complaints[j].category, calls[i].at>> :
              j \in DOMAIN calls[i].complaints} :
           i \in {k \in DOMAIN calls : calls[k].customer # None}}

CallFigures(call, raised) ==
    LET Times(complaint) == {r[3] : r \in {s \in raised : s[1] = call.customer
                                                        /\ s[2] = complaint.category}}
        known == call.customer # None
        repeats == IF ~known THEN 0
                   ELSE CountOf(call.complaints, LAMBDA c :
                          \E at \in Times(c) : call.at - RepeatDays * Day <= at /\ at < call.at)
        again == known /\ \E c \in ToSet(call.complaints) :
                    \E at \in Times(c) : call.at < at /\ at <= call.at + FcrDays * Day
        over == call.at + FcrDays * Day <= now
        open == \E c \in ToSet(call.complaints) : c.status # "resolved"
        points == (IF call.tone # None /\ Negative(call.tone) THEN call.tone - 1 ELSE 0)
                  + (IF call.serious THEN 2 ELSE 0)
                  + (IF repeats > 0 THEN 2 ELSE 0)
                  + (IF open THEN 1 ELSE 0)
        stars == <<9, 7, 5, 4, 3>>[call.tone + 1]
                 + (IF open THEN -1 ELSE IF call.complaints # <<>> THEN 1 ELSE 0)
                 + (IF call.serious THEN -1 ELSE 0)
    IN [call |-> call, repeats |-> repeats,
        resolvedFirstTime |-> IF known /\ call.complaints # <<>> /\ over THEN ~again ELSE None,
        churn |-> CASE points >= 4 -> "high" [] points >= 2 -> "medium" [] OTHER -> "low",
        csat |-> IF call.tone = None THEN None
                 ELSE Smaller(10, IF stars < 2 THEN 2 ELSE stars)]

Figures(items) ==
    LET complaints == SumOf(items, LAMBDA i : Len(i.call.complaints))
        probed == SumOf(items, LAMBDA i : CountOf(i.call.complaints, LAMBDA c : c.probed))
        known == SumOf(items, LAMBDA i : IF i.call.customer = None THEN 0
                                         ELSE Len(i.call.complaints))
        judged == SelectSeq(items, LAMBDA i : i.resolvedFirstTime # None)
        resolved == CountOf(judged, LAMBDA i : i.resolvedFirstTime)
        rated == SelectSeq(items, LAMBDA i : i.csat # None)
        Churn(risk) == CountOf(items, LAMBDA i : i.churn = risk)
    IN [calls |-> Len(items), complaints |-> complaints, probed |-> probed,
        coverage |-> Rate(probed, complaints),
        fcr |-> Rate(resolved, Len(judged)),
        known |-> known, repeats |-> SumOf(items, LAMBDA i : i.repeats),
        churn |-> [r \in {"low", "medium", "high"} |-> Churn(r)],
        csat |-> Rate(SumOf(rated, LAMBDA i : i.csat), Len(rated)),
        serious |-> CountOf(items, LAMBDA i : i.call.serious),
        audit |-> AuditFigures([i \in DOMAIN items |-> items[i].call])]

\* What each customer raised around the period, whoever took the call: repeats look back, First Call
\* Resolution looks ahead.
\* Mutant: only the report's own period.
AroundNothing(filters) == Period(filters.from, filters.to)
Around(filters) == Period(filters.from - RepeatDays * Day, filters.to + FcrDays * Day)

CallsInFigures(filters) ==
    SelectSeq(CallsOf(filters), LAMBDA c :
        filters.category = None \/ Raises(c, filters.category))

Items(filters) ==
    LET calls == CallsInFigures(filters)
        raised == RaisedByCustomer(CallsOf(Around(filters)))
    IN [i \in DOMAIN calls |-> CallFigures(calls[i], raised)]

PerformanceReport(filters) ==
    LET items == Items(filters)
        b == ReportBuckets(filters)
        By(executive) == SelectSeq(items, LAMBDA i : i.call.executive = executive)
        ToneOf(some) == ToneTrend([i \in DOMAIN some |-> some[i].call], b)
    IN IF \/ ~Reportable(filters)
          \/ Len(CallsOf(filters)) > MaxReportCalls
          \/ Len(CallsOf(Around(filters))) > MaxReportCalls THEN None
       ELSE [filters |-> filters, items |-> items, overall |-> Figures(items), buckets |-> b,
             tone |-> ToneOf(items),
             executives |-> [e \in {items[i].call.executive : i \in DOMAIN items} |->
                               [figures |-> Figures(By(e)), tone |-> ToneOf(By(e))]]]

-----------------------------------------------------------------------------
(* The page and the calls it reports.                                       *)

reportVars == <<now, store, name, page, flights, loaded, changes, choices>>
stored == <<now, store, name, changes>>
screen == <<page, flights, loaded, choices>>

Views == {"complaints", "performance"}

Request(view, filters) ==
    IF filters = None THEN {}
    ELSE {[of |-> view, filters |-> filters, live |-> TRUE, served |-> FALSE, report |-> None]}

Init ==
    /\ now = Min(Moments)
    /\ store = [c \in CallIds |-> None]
    /\ name = [c \in Categories |-> c]
    /\ \E f \in Asked :
          /\ page = [view |-> "complaints", filters |-> f]
          /\ flights = Request("complaints", f)
    /\ loaded = [v \in Views |-> None]
    /\ changes = 0 /\ choices = 0

-----------------------------------------------------------------------------
(* Calls, as reports see them change.                                       *)

TimePasses ==
    /\ \E m \in Moments : m > now
    /\ now' = Min({m \in Moments : m > now})
    /\ UNCHANGED <<store, name, changes, screen>>

Change ==
    /\ changes < MaxChanges
    /\ changes' = changes + 1
    /\ UNCHANGED <<now, screen>>

CallIsStored(c, kind) ==
    /\ store[c] = None /\ \A d \in CallIds : d < c => store[d] # None
    /\ store' = [store EXCEPT ![c] = kind @@ [at |-> now]]
    /\ UNCHANGED <<now, name, changes, screen>>

\* The executive asks about a complaint, or it is resolved.
Moved(call, i) ==
    LET raised == call.coverage[i] IN
    {[call EXCEPT !.coverage[i].status = "addressed"] : x \in {y \in {raised} : y.status = "detected"}}
    \cup {[call EXCEPT !.tracked[raised.category] = "resolved"] :
            x \in {call.tracked[raised.category]} \ {None, "resolved"}}
Chosen(call, category, choice) == [call EXCEPT !.outcomes[category][choice] = @ + 1]

ComplaintMoves(c, i) ==
    /\ Change /\ store[c] # None /\ i \in DOMAIN store[c].coverage
    /\ \E call \in Moved(store[c], i) : store' = [store EXCEPT ![c] = call]
    /\ UNCHANGED name

QuestionAnswered(c, category) ==
    /\ Change /\ store[c] # None
    /\ \E choice \in {"accepted", "skipped"} :
          store' = [store EXCEPT ![c] = Chosen(@, category, choice)]
    /\ UNCHANGED name

\* CategoryCatalog.current_name(): reports show a category under the name it has now.
CategoryRenamed(category, new) ==
    /\ Change /\ name[category] # new
    /\ name' = [name EXCEPT ![category] = new]
    /\ UNCHANGED store

-----------------------------------------------------------------------------
(* The page.                                                                *)

\* Mutant: the answer to what was asked before is still taken.
ChooseFiltersOnly(f) ==
    /\ choices < MaxChoices /\ f # page.filters
    /\ choices' = choices + 1
    /\ page' = [page EXCEPT !.filters = f]
    /\ flights' = flights \cup Request("complaints", f)
    /\ UNCHANGED <<stored, loaded>>

\* The effects run again when the filters change; an answer to what was asked before is dropped.
ChooseFilters(f) ==
    /\ choices < MaxChoices /\ f # page.filters
    /\ choices' = choices + 1
    /\ page' = [page EXCEPT !.filters = f]
    /\ flights' = {[r EXCEPT !.live = FALSE] : r \in flights}
                  \cup Request("complaints", f)
                  \cup (IF page.view = "performance" THEN Request("performance", f) ELSE {})
    /\ UNCHANGED <<stored, loaded>>

\* The figures are a panel of their own: opened, it asks; closed, it forgets.
ChooseView(v) ==
    /\ choices < MaxChoices /\ v # page.view
    /\ choices' = choices + 1
    /\ page' = [page EXCEPT !.view = v]
    /\ flights' = IF v = "performance" THEN flights \cup Request(v, page.filters)
                  ELSE {IF r.of = "performance" THEN [r EXCEPT !.live = FALSE] ELSE r : r \in flights}
    /\ loaded' = IF v = "performance" THEN loaded ELSE [loaded EXCEPT !["performance"] = None]
    /\ UNCHANGED stored

\* What stands on the page.  Reports stay while the next one is on its way; the figures go when the
\* dates are not usable.
ComplaintsShown ==
    LET answer == loaded["complaints"] IN
    IF page.view # "complaints" THEN "nothing"
    ELSE IF answer = None THEN IF page.filters = None THEN "nothing" ELSE "loading"
    ELSE IF answer.report = None THEN "error" ELSE "report"
PerformanceShown ==
    LET answer == loaded["performance"] IN
    IF page.view # "performance" \/ page.filters = None THEN "nothing"
    ELSE IF answer = None THEN "loading"
    ELSE IF answer.report = None THEN "error" ELSE "report"
Updating(v) == page.filters # None /\ loaded[v] # None /\ loaded[v].key # page.filters

ReportOf(r) ==
    IF r.of = "complaints" THEN ComplaintReport(r.filters)
    ELSE PerformanceReport(r.filters)

\* The service works the report out, or says why not (None).
Serve(r) ==
    /\ ~r.served /\ r.live
    /\ flights' = (flights \ {r}) \cup {[r EXCEPT !.served = TRUE, !.report = ReportOf(r)]}
    /\ UNCHANGED <<stored, page, loaded, choices>>

Taken(r, answer) ==
    /\ flights' = flights \ {r}
    /\ loaded' = IF r.live
                 THEN [loaded EXCEPT ![r.of] = [key |-> r.filters, report |-> answer]]
                 ELSE loaded
    /\ UNCHANGED <<stored, page, choices>>

Arrives(r) == r.served /\ Taken(r, r.report)

\* The request fails on the way: the page says so.
Fails(r) == Taken(r, None)

Next ==
    \/ TimePasses
    \/ \E c \in CallIds, kind \in Kinds : CallIsStored(c, kind)
    \/ \E c \in CallIds, i \in 1..Cardinality(Categories) : ComplaintMoves(c, i)
    \/ \E c \in CallIds, category \in Categories : QuestionAnswered(c, category)
    \/ \E category, new \in Categories : CategoryRenamed(category, new)
    \/ \E f \in Asked \cup {None} : ChooseFilters(f)
    \/ \E v \in Views : ChooseView(v)
    \/ \E r \in flights : Serve(r) \/ Arrives(r) \/ Fails(r)

Spec == Init /\ [][Next]_reportVars

-----------------------------------------------------------------------------
(***************************************************************************)
(* Whatever is shown of the same complaints adds up to the same number: the*)
(* days or weeks of the trend (also as drawn, with the rest added up), the *)
(* locations, the root causes and the totals; and each day or week counted *)
(* holds the calls of that day or week by the reader's clock.              *)
(***************************************************************************)
AddsUp(r) ==
    /\ r.complaints = Sums(r.totals)
    /\ \A c \in DOMAIN r.totals :
          /\ r.totals[c] = Sums(r.trend[c])
          /\ r.totals[c] = Sums(r.heatmap[c])
          /\ r.totals[c] = r.causes[c].undescribed + r.causes[c].unlisted
                           + SumOf(r.causes[c].themes, LAMBDA t : t.complaints)
    /\ \A p \in DOMAIN r.starts :
          SumOf(TrendLines(r), LAMBDA l : l[p]) = Sums([c \in DOMAIN r.trend |-> r.trend[c][p]])
    /\ r.tone.rated = SumOf(r.tone.trend, LAMBDA p : p.rated)
    /\ r.tone.negative = SumOf(r.tone.trend, LAMBDA p : p.negative)

OnItsDay(r) ==
    \A c \in CallIds :
        store[c] # None /\ Matches(store[c], r.filters) =>
            LET p == Place(store[c].at, r.buckets) IN
            /\ p \in DOMAIN r.starts
            /\ r.starts[p] <= store[c].at
            /\ p + 1 \in DOMAIN r.starts => store[c].at < r.starts[p + 1]
            /\ p + 1 \notin DOMAIN r.starts => r.filters.to <=
                  r.starts[p] + (IF r.buckets.bucket = "day" THEN 1 ELSE 7) * Day

ReportsAddUp ==
    LET l == loaded["complaints"] IN
    l # None /\ l.report # None => AddsUp(l.report) /\ OnItsDay(l.report)

(***************************************************************************)
(* The figures of a call are the call's own: whatever range, location,     *)
(* executive, tone or category the report is asked for, each call in it has*)
(* the repeats and the first-call verdict all stored calls give it, and the*)
(* executives' figures add up to the report's.                             *)
(***************************************************************************)
FiguresAreTheCalls ==
    /\ LET everything == RaisedByCustomer(CallsOf(Period(0, now + 1))) IN
       \A f \in Asked :
          \A item \in ToSet(Items(f)) : item = CallFigures(item.call, everything)
    /\ LET shown == loaded["performance"] IN
       shown # None /\ shown.report # None =>
          LET r == shown.report
              Part(g(_)) == Sums([e \in DOMAIN r.executives |-> g(r.executives[e].figures)])
          IN /\ r.overall.complaints = Part(LAMBDA g : g.complaints)
             /\ r.overall.repeats = Part(LAMBDA g : g.repeats)
             /\ \A risk \in DOMAIN r.overall.churn :
                   r.overall.churn[risk] = Part(LAMBDA g : g.churn[risk])

(***************************************************************************)
(* When nothing more is under way, a view neither loads nor updates and    *)
(* shows what the filters now chosen ask for, whatever order answers came  *)
(* in.                                                                     *)
(***************************************************************************)
ShowsWhatIsAsked ==
    LET shown == [complaints |-> ComplaintsShown, performance |-> PerformanceShown] IN
    \A v \in Views :
        page.filters # None /\ (\A r \in flights : r.of = v => ~r.live) =>
            /\ shown[v] # "loading"
            /\ shown[v] \in {"report", "error"} => ~Updating(v)
            /\ shown[v] = "report" => loaded[v].report.filters = page.filters

(***************************************************************************)
(* Working on a call never makes it look worse: asking about a complaint,  *)
(* accepting a question about it or resolving it lowers neither the call's *)
(* audit score nor its CSAT estimate, and does not raise its churn risk.   *)
(***************************************************************************)
Worked(call) ==
    UNION {Moved(call, i) : i \in DOMAIN call.coverage}
    \cup {Chosen(call, category, "accepted") : category \in Categories}
Risk(figures) == CASE figures.churn = "low" -> 1 [] figures.churn = "medium" -> 2 [] OTHER -> 3
NotWorse(after, before) ==
    /\ AuditCall(after.call) >= AuditCall(before.call)
    /\ before.csat # None => after.csat >= before.csat
    /\ Risk(after) <= Risk(before)

WorkNeverHurts ==
    LET raised == RaisedByCustomer(CallsOf(Period(0, now + 1)))
        Own(c, call) == CallFigures(Renamed(ReportCall(c, call)), raised)
    IN \A c \in {d \in CallIds : store[d] # None} :
          LET before == Own(c, store[c]) IN
          \A after \in {Own(c, call) : call \in Worked(store[c])} : NotWorse(after, before)
==============================================================================
