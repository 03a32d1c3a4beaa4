------------------------------ MODULE BackOfficeProofs ------------------------------
(***************************************************************************)
(* What MCBackOffice's run checks of lists and of decisions, for any number *)
(* of people, calls, filters, complaints and answers, on one API instance.  *)
(*                                                                          *)
(* The parts share no variable, so each has an invariant of its own:        *)
(*   LiveBoard: an answer kept was asked for with the filters and the place *)
(*   it is shown under, and was cut from what the server had listed;        *)
(*   CallBrowser's screen: its address has every choice made, the text      *)
(*   aside, and text not yet applied has a timer or a drawing to come;      *)
(*   CallBrowser's stores: a call whose complaints are all resolved is      *)
(*   settled since the last of their times;                                 *)
(*   Themes: whoever is between reading the theme and writing it holds      *)
(*   _lock, so there is one of them, and it will keep the theme stored;     *)
(*   LiveAnalysis: while no two ran at once, what the one under way has     *)
(*   made keeps the tone shown.                                             *)
(***************************************************************************)
EXTENDS MCBackOffice, Functions, FiniteSetTheorems, SequenceTheorems, TLAPS

(* Each part counts as all do.                                              *)
LEMMA BoardCounts == \A X : B!Cardinality(X) = Cardinality(X)
BY DEF B!Cardinality, Cardinality
LEMMA BrowserCounts ==
    ASSUME NEW size
    PROVE  \A X : /\ C(size)!Cardinality(X) = Cardinality(X)
                  /\ C(size)!IsFiniteSet(X) = IsFiniteSet(X)
BY DEF C!Cardinality, Cardinality, C!IsFiniteSet, IsFiniteSet

(* The board (LiveBoard).                                                   *)

(* Of a finite set of numbers, each rank is taken by one of them:           *)
LEMMA RanksAreTaken ==
    ASSUME NEW S \in SUBSET Nat, IsFiniteSet(S), NEW n \in 1..Cardinality(S)
    PROVE  \E i \in S : Cardinality({j \in S : j < i}) = n - 1
<1> DEFINE Before(i) == {j \in S : j < i}
           ranks == 0..(Cardinality(S) - 1)
           rank == [i \in S |-> Cardinality(Before(i))]
<1>1. Cardinality(S) \in Nat
  BY FS_CardinalityType
<1>2. ASSUME NEW i \in S
      PROVE  /\ IsFiniteSet(Before(i)) /\ Cardinality(Before(i)) \in Nat
             /\ Cardinality(Before(i)) <= Cardinality(S)
             /\ Cardinality(Before(i)) # Cardinality(S)
  <2>1. Before(i) \in SUBSET S /\ Before(i) # S
    OBVIOUS
  <2> QED BY <2>1, FS_Subset, FS_CardinalityType
<1>3. rank \in [S -> ranks]
  BY <1>1, <1>2
<1>4. ASSUME NEW i \in S, NEW k \in S, i < k
      PROVE  rank[i] # rank[k]
  <2>1. (\A j \in S : j < i => j < k) /\ ~(i < i)
    BY <1>4
  <2>2. Before(i) \in SUBSET Before(k) /\ i \in Before(k) /\ i \notin Before(i)
    BY <1>4, <2>1, Zenon
  <2>3. Cardinality(Before(i)) # Cardinality(Before(k))
    BY <1>2, <2>2, FS_Subset
  <2> QED BY <2>3
<1>5. rank \in Injection(S, ranks)
  <2>1. \A i, k \in S : i # k => i < k \/ k < i
    OBVIOUS
  <2>2. \A i, k \in S : rank[i] = rank[k] => i = k
    BY <1>4, <2>1
  <2> HIDE DEF rank, ranks
  <2> QED BY <1>3, <2>2 DEF Injection, IsInjective
<1>6. IsFiniteSet(ranks) /\ Cardinality(ranks) = Cardinality(S)
  <2> DEFINE last == Cardinality(S) - 1
  <2>1. last \in Int /\ (IF 0 > last THEN 0 ELSE last - 0 + 1) = Cardinality(S)
    BY <1>1
  <2> HIDE DEF last
  <2> QED BY <2>1, FS_Interval
<1>7. rank \in Surjection(S, ranks)
  <2> HIDE DEF rank, ranks
  <2> QED BY <1>5, <1>6, FS_Injection
<1>8. n - 1 \in ranks
  BY <1>1
<1>9. \E i \in S : rank[i] = n - 1
  <2> HIDE DEF rank, ranks
  <2> QED BY <1>7, <1>8 DEF Surjection
<1> QED BY <1>9

(* so a list of the rows at some places holds rows at those places only.    *)
LEMMA OnlyThosePlaces ==
    ASSUME NEW rows, NEW places \in SUBSET Nat, IsFiniteSet(places)
    PROVE  /\ Len(B!InOrder(rows, places)) \in Nat
           /\ \A n \in 1..Len(B!InOrder(rows, places)) :
                \E i \in places : B!InOrder(rows, places)[n] = rows[i]
<1>1. Cardinality(places) \in Nat
  BY FS_CardinalityType
<1>2. Len(B!InOrder(rows, places)) = Cardinality(places)
  BY <1>1, BoardCounts DEF B!InOrder
<1>3. ASSUME NEW n \in 1..Cardinality(places)
      PROVE  \E i \in places : B!InOrder(rows, places)[n] = rows[i]
  <2> DEFINE At(i) == Cardinality({j \in places : j < i}) = n - 1
  <2>1. \E i \in places : At(i)
    BY RanksAreTaken
  <2>2. (CHOOSE i \in places : At(i)) \in places
    <3> HIDE DEF At
    <3> QED BY <2>1
  <2>3. B!InOrder(rows, places)[n] = rows[CHOOSE i \in places : At(i)]
    BY BoardCounts DEF B!InOrder
  <2> QED BY <2>2, <2>3
<1> QED BY <1>1, <1>2, <1>3

-----------------------------------------------------------------------------
(* An answer is the page of the list that was asked for.                    *)
Fits(answer, filters, offset) ==
    /\ answer.offset = offset
    /\ answer.matching \in Nat
    /\ \A i \in DOMAIN answer.items : B!Match(filters, answer.items[i])

Listed(rows) == \E n \in Nat : DOMAIN rows = 1..n

LEMMA PagesFit ==
    ASSUME NEW rows, Listed(rows), NEW filters, NEW offset \in Nat
    PROVE  Fits(B!PageOf(rows, filters, offset), filters, offset)
<1> DEFINE places == {i \in DOMAIN rows : B!Match(filters, rows[i])}
           matching == B!InOrder(rows, places)
           last == IF offset + BoardPage < Len(matching) THEN offset + BoardPage
                   ELSE Len(matching)
           items == SubSeq(matching, offset + 1, last)
<1>1. places \in SUBSET Nat /\ IsFiniteSet(places)
  <2>1. PICK n \in Nat : DOMAIN rows = 1..n
    BY DEF Listed
  <2>2. IsFiniteSet(1..n) /\ places \in SUBSET (1..n) /\ 1..n \in SUBSET Nat
    BY <2>1, FS_Interval
  <2> HIDE DEF places
  <2> QED BY <2>2, FS_Subset
<1>2. /\ Len(matching) \in Nat
      /\ \A n \in 1..Len(matching) : \E i \in places : matching[n] = rows[i]
  <2> HIDE DEF places
  <2> QED BY <1>1, OnlyThosePlaces
<1>3. \A n \in 1..Len(matching) : B!Match(filters, matching[n])
  <2>1. ASSUME NEW n \in 1..Len(matching) PROVE B!Match(filters, matching[n])
    <3>1. PICK i \in places : matching[n] = rows[i]
      BY <1>2
    <3>2. B!Match(filters, rows[i])
      OBVIOUS
    <3> HIDE DEF matching
    <3> QED BY <3>1, <3>2
  <2> QED BY <2>1
<1>4. BoardPage \in Nat
  BY PartsAssumption DEF B!LiveBoardAssumption
<1> HIDE DEF places, matching
<1>5. last \in Int /\ last <= Len(matching)
  BY <1>2, <1>4
<1> HIDE DEF last
<1>6. ASSUME NEW i \in DOMAIN items PROVE B!Match(filters, items[i])
  <2> DEFINE S == {matching[k] : k \in (offset + 1)..last}
  <2>1. /\ items \in Seq(S)
        /\ Len(items) = (IF offset + 1 <= last THEN last - (offset + 1) + 1 ELSE 0)
        /\ \A k \in 1..last - (offset + 1) + 1 : items[k] = matching[offset + 1 + k - 1]
    BY <1>5, SubSeqProperties
  <2>2. i \in 1..Len(items)
    BY <2>1, LenProperties
  <2>3. i \in 1..last - (offset + 1) + 1 /\ offset + 1 + i - 1 \in 1..Len(matching)
    BY <1>2, <1>5, <2>1, <2>2
  <2>4. B!Match(filters, matching[offset + 1 + i - 1])
    BY <1>3, <2>3
  <2> QED BY <2>1, <2>3, <2>4
<1>7. /\ B!PageOf(rows, filters, offset).items = items
      /\ B!PageOf(rows, filters, offset).matching = Len(matching)
      /\ B!PageOf(rows, filters, offset).offset = offset
  BY DEF B!PageOf, matching, places, last
<1> HIDE DEF items
<1> QED BY <1>2, <1>6, <1>7 DEF Fits

-----------------------------------------------------------------------------
(* What was read of the calls is listed; each request has the filters and   *)
(* the place it was made with, and the current one those of the page; and   *)
(* the page shows what they ask for, or waits for it.                       *)
PageShape(p) ==
    /\ p = [filters |-> p.filters, offset |-> p.offset, calls |-> p.calls, error |-> p.error]
    /\ p.offset \in Nat

WhatWasRead ==
    /\ bCached # None =>
         bCached = [rows |-> bCached.rows, age |-> bCached.age] /\ Listed(bCached.rows)
    /\ bReading # None =>
         /\ bReading = [by |-> bReading.by, level |-> bReading.level]
         /\ IsFiniteSet(DOMAIN bReading.level)

RequestShape(r) ==
    /\ r = [current |-> r.current, filters |-> r.filters, offset |-> r.offset, answer |-> r.answer]
    /\ r.current \in BOOLEAN /\ r.offset \in Nat
AnswerFits(r) == r.answer # None => Fits(r.answer, r.filters, r.offset)
OfThePage(r, p) == r.current => r.filters = p.filters /\ r.offset = p.offset

RequestsAreAnswered ==
    \A r \in bFlying : RequestShape(r) /\ AnswerFits(r) /\ OfThePage(r, bPage)

PageIsRight ==
    bPage.calls # None /\ ~bPage.error /\ ~B!Awaited
      => Fits(bPage.calls, bPage.filters, bPage.offset)

BoardInv == PageShape(bPage) /\ WhatWasRead /\ RequestsAreAnswered /\ PageIsRight

(* A page or a request with another value of a field.                       *)
LEMMA PageWith ==
    ASSUME NEW p, PageShape(p), NEW x
    PROVE  /\ [p EXCEPT !.filters = x] =
                [filters |-> x, offset |-> p.offset, calls |-> p.calls, error |-> p.error]
           /\ [p EXCEPT !.offset = x] =
                [filters |-> p.filters, offset |-> x, calls |-> p.calls, error |-> p.error]
           /\ [p EXCEPT !.calls = x] =
                [filters |-> p.filters, offset |-> p.offset, calls |-> x, error |-> p.error]
           /\ [p EXCEPT !.error = x] =
                [filters |-> p.filters, offset |-> p.offset, calls |-> p.calls, error |-> x]
<1>1. PICK a, b, c, d : p = [filters |-> a, offset |-> b, calls |-> c, error |-> d]
  BY DEF PageShape
<1>2. p.filters = a /\ p.offset = b /\ p.calls = c /\ p.error = d
  BY <1>1
<1> QED BY <1>1, <1>2

LEMMA RequestSuperseded ==
    ASSUME NEW r, RequestShape(r), NEW x
    PROVE  [r EXCEPT !.current = x] =
             [current |-> x, filters |-> r.filters, offset |-> r.offset, answer |-> r.answer]
<1>1. PICK a, b, c, d : r = [current |-> a, filters |-> b, offset |-> c, answer |-> d]
  BY DEF RequestShape
<1>2. r.current = a /\ r.filters = b /\ r.offset = c /\ r.answer = d
  BY <1>1
<1> QED BY <1>1, <1>2

LEMMA BoardStart == B!Init => BoardInv
BY DEF B!Init, B!Request, BoardInv, PageShape, WhatWasRead, RequestsAreAnswered,
   RequestShape,
       AnswerFits, OfThePage, PageIsRight, B!Awaited

(* An answer to a request under way.                                        *)
LEMMA AnswersFit ==
    ASSUME BoardInv, NEW r \in bFlying, NEW rows, Listed(rows), B!Answered(r, rows),
           UNCHANGED bPage
    PROVE  RequestsAreAnswered' /\ PageIsRight'
<1> DEFINE a == [r EXCEPT !.answer = B!PageOf(rows, r.filters, r.offset)]
<1>1. RequestShape(r) /\ OfThePage(r, bPage)
  BY DEF BoardInv, RequestsAreAnswered
<1>2. /\ a.current = r.current /\ a.filters = r.filters /\ a.offset = r.offset
      /\ a.answer = B!PageOf(rows, r.filters, r.offset)
      /\ a = [current |-> a.current, filters |-> a.filters, offset |-> a.offset,
              answer |-> a.answer]
  BY <1>1 DEF RequestShape
<1>3. bFlying' = (bFlying \ {r}) \cup {a}
  BY DEF B!Answered
<1> HIDE DEF a
<1>4. RequestShape(a) /\ AnswerFits(a) /\ OfThePage(a, bPage)
  BY <1>1, <1>2, PagesFit DEF RequestShape, AnswerFits, OfThePage
<1>5. RequestsAreAnswered'
  BY <1>3, <1>4 DEF BoardInv, RequestsAreAnswered
<1>6. B!Awaited' = B!Awaited
  BY <1>2, <1>3 DEF B!Awaited
<1> QED BY <1>5, <1>6 DEF BoardInv, PageIsRight

(* A new request, of the page as it is now.                                 *)
LEMMA LoadsAnew ==
    ASSUME BoardInv, NEW p, PageShape(p), NEW rs \in SUBSET bFlying, B!Loads(p, rs),
           UNCHANGED bCached
    PROVE  BoardInv'
<1>1. bPage' = p /\ bFlying' = B!Superseded(rs) \cup {B!Request(p)}
  BY DEF B!Loads
<1>2. RequestsAreAnswered'
  <2>1. ASSUME NEW r \in rs
        PROVE  LET s == [r EXCEPT !.current = FALSE] IN
               RequestShape(s) /\ AnswerFits(s) /\ OfThePage(s, p)
    <3> DEFINE s == [r EXCEPT !.current = FALSE]
    <3>1. RequestShape(r) /\ AnswerFits(r)
      BY DEF BoardInv, RequestsAreAnswered
    <3>a. s = [current |-> FALSE, filters |-> r.filters, offset |-> r.offset, answer |-> r.answer]
      BY <3>1, RequestSuperseded
    <3> HIDE DEF s
    <3>2. /\ s.current = FALSE /\ s.filters = r.filters /\ s.offset = r.offset
          /\ s.answer = r.answer
          /\ s = [current |-> s.current, filters |-> s.filters, offset |-> s.offset,
                  answer |-> s.answer]
      BY <3>a
    <3> QED BY <3>1, <3>2 DEF RequestShape, AnswerFits, OfThePage
  <2>2. /\ RequestShape(B!Request(p)) /\ AnswerFits(B!Request(p))
        /\ OfThePage(B!Request(p), p)
    BY DEF B!Request, RequestShape, AnswerFits, OfThePage, PageShape
  <2> QED BY <1>1, <2>1, <2>2 DEF RequestsAreAnswered, B!Superseded
<1>3. B!Awaited'
  <2>1. B!Request(p) \in bFlying' /\ B!Request(p).current
    BY <1>1 DEF B!Request
  <2> QED BY <2>1 DEF B!Awaited
<1>4. WhatWasRead'
  BY DEF BoardInv, WhatWasRead, B!Loads
<1> QED BY <1>1, <1>2, <1>3, <1>4 DEF BoardInv, PageIsRight, PageShape

(* What the server does.                                                    *)
LEMMA ServerKeeps ==
    BoardInv /\ (B!Reads \/ B!ReadTheRest(TRUE) \/ B!ReadTheRest(FALSE) \/ B!Tick) => BoardInv'
<1> SUFFICES ASSUME BoardInv PROVE
      (B!Reads \/ B!ReadTheRest(TRUE) \/ B!ReadTheRest(FALSE) \/ B!Tick) => BoardInv'
  OBVIOUS
<1>1. ASSUME NEW r \in bFlying, B!ServeCached(r) PROVE BoardInv'
  <2>1. /\ Listed(bCached.rows) /\ B!Answered(r, bCached.rows)
        /\ UNCHANGED <<bCached, bReading, bPage>>
    BY <1>1 DEF B!ServeCached, B!Fresh, BoardInv, WhatWasRead
  <2>2. RequestsAreAnswered' /\ PageIsRight'
    BY <2>1, AnswersFit
  <2> QED BY <2>1, <2>2 DEF BoardInv, WhatWasRead
<1>2. ASSUME NEW r \in bFlying, B!ReadCalls(r) PROVE BoardInv'
  <2>1. /\ bReading'.by = r /\ bReading' = [by |-> bReading'.by, level |-> bReading'.level]
        /\ DOMAIN bReading'.level \in SUBSET BoardCalls
        /\ UNCHANGED <<bCached, bPage, bFlying>>
    BY <1>2 DEF B!ReadCalls, B!Active
  <2>2. IsFiniteSet(DOMAIN bReading'.level)
    BY <2>1, CallsAreFew, FS_Subset
  <2> QED BY <2>1, <2>2 DEF BoardInv, WhatWasRead, RequestsAreAnswered, PageIsRight,
     B!Awaited
<1>3. ASSUME NEW alertsRead \in BOOLEAN, B!ReadTheRest(alertsRead) PROVE BoardInv'
  <2> DEFINE cards == {B!Row(c, alertsRead) : c \in DOMAIN bReading.level}
             rows == B!Sorted(cards)
  <2>1. /\ bReading # None /\ bCached' = [rows |-> rows, age |-> 0]
        /\ bReading' = None /\ UNCHANGED bPage
        /\ (B!Answered(bReading.by, rows) /\ bReading.by \in bFlying) \/ UNCHANGED bFlying
    BY <1>3 DEF B!ReadTheRest
  <2>2. Cardinality(cards) \in Nat
    <3> DEFINE D == DOMAIN bReading.level
               f == [c \in D |-> B!Row(c, alertsRead)]
    <3>1. IsFiniteSet(D)
      BY <2>1 DEF BoardInv, WhatWasRead
    <3>2. f \in Surjection(D, cards)
      BY DEF Surjection
    <3> HIDE DEF f, D, cards
    <3> QED BY <3>1, <3>2, FS_Surjection, FS_CardinalityType
  <2>3. Listed(rows)
    <3>1. DOMAIN rows = 1..Cardinality(cards)
      BY BoardCounts DEF B!Sorted
    <3> HIDE DEF rows, cards
    <3> QED BY <2>2, <3>1 DEF Listed
  <2> HIDE DEF rows
  <2>4. RequestsAreAnswered' /\ PageIsRight'
    <3>1. CASE B!Answered(bReading.by, rows) /\ bReading.by \in bFlying
      BY <2>1, <2>3, <3>1, AnswersFit
    <3>2. CASE UNCHANGED bFlying
      BY <2>1, <3>2 DEF BoardInv, RequestsAreAnswered, PageIsRight, B!Awaited
    <3> QED BY <2>1, <3>1, <3>2
  <2>5. WhatWasRead'
    BY <2>1, <2>3 DEF WhatWasRead
  <2> QED BY <2>1, <2>4, <2>5 DEF BoardInv
<1>4. CASE B!Tick
  <2>1. /\ bCached' = [bCached EXCEPT !.age = @ + 1] /\ bCached # None
        /\ UNCHANGED <<bReading, bPage, bFlying>>
    BY <1>4 DEF B!Tick
  <2>2. bCached = [rows |-> bCached.rows, age |-> bCached.age] /\ Listed(bCached.rows)
    BY <2>1 DEF BoardInv, WhatWasRead
  <2>3. bCached' = [rows |-> bCached'.rows, age |-> bCached'.age] /\ bCached'.rows = bCached.rows
    BY <2>1, <2>2
  <2>4. WhatWasRead'
    BY <2>1, <2>2, <2>3 DEF BoardInv, WhatWasRead
  <2> QED BY <2>1, <2>4 DEF BoardInv, RequestsAreAnswered, PageIsRight, B!Awaited
<1> QED BY <1>1, <1>2, <1>3, <1>4 DEF B!Reads

(* What the page does.                                                      *)
LEMMA LastPageIsOne ==
    ASSUME NEW matching \in Nat
    PROVE  B!LastPage(matching) \in Nat
<1>1. BoardPage \in Nat \ {0}
  BY PartsAssumption DEF B!LiveBoardAssumption
<1>2. CASE matching = 0
  BY <1>2 DEF B!LastPage
<1>3. CASE matching # 0
  <2> DEFINE q == (matching - 1) \div BoardPage
  <2>1. matching - 1 \in Nat
    BY <1>3
  <2>2. q \in Nat
    <3> DEFINE m == matching - 1
    <3> HIDE DEF m
    <3> QED BY <1>1, <2>1, Z3 DEF m
  <2>3. B!LastPage(matching) = q * BoardPage
    BY <1>3 DEF B!LastPage
  <2> HIDE DEF q
  <2> QED BY <1>1, <2>2, <2>3
<1> QED BY <1>2, <1>3

LEMMA PageKeeps ==
    ASSUME BoardInv, B!Poll \/ B!PollAgain \/ B!NextPage \/ B!PreviousPage
                     \/ (\E f \in BoardChoices : B!ChooseFilters(f))
    PROVE  BoardInv'
<1>1. PageShape(bPage) /\ BoardPage \in Nat /\ bPage.offset \in Nat
  BY PartsAssumption DEF BoardInv, PageShape, B!LiveBoardAssumption
<1>2. CASE B!Poll \/ B!PollAgain
  BY <1>1, <1>2, LoadsAnew DEF B!Poll, B!PollAgain
<1>3. ASSUME NEW offset \in Nat, B!GoTo(offset) PROVE BoardInv'
  <2> DEFINE p == [bPage EXCEPT !.offset = offset]
  <2>1. B!Loads(p, bFlying) /\ UNCHANGED bCached
    BY <1>3 DEF B!GoTo
  <2>2. PageShape(p)
    BY <1>1 DEF PageShape
  <2> HIDE DEF p
  <2> QED BY <2>1, <2>2, LoadsAnew
<1>4. CASE B!NextPage
  BY <1>1, <1>3, <1>4 DEF B!NextPage
<1>5. CASE B!PreviousPage
  <2> DEFINE offset == IF bPage.offset > BoardPage THEN bPage.offset - BoardPage ELSE 0
  <2>1. offset \in Nat
    BY <1>1
  <2>2. B!GoTo(offset)
    BY <1>5 DEF B!PreviousPage
  <2> HIDE DEF offset
  <2> QED BY <1>3, <2>1, <2>2
<1>6. ASSUME NEW f \in BoardChoices, B!ChooseFilters(f) PROVE BoardInv'
  <2> DEFINE p == [bPage EXCEPT !.filters = f, !.offset = 0]
  <2>1. B!Loads(p, bFlying) /\ UNCHANGED bCached
    BY <1>6 DEF B!ChooseFilters
  <2>2. PageShape(p)
    <3> DEFINE q == [bPage EXCEPT !.filters = f]
    <3>1. /\ q = [filters |-> f, offset |-> bPage.offset, calls |-> bPage.calls,
                  error |-> bPage.error]
          /\ p = [q EXCEPT !.offset = 0]
      BY <1>1, PageWith
    <3> HIDE DEF q, p
    <3>2. PageShape(q)
      BY <1>1, <3>1 DEF PageShape
    <3>3. p = [filters |-> q.filters, offset |-> 0, calls |-> q.calls, error |-> q.error]
      BY <3>1, <3>2, PageWith
    <3> QED BY <3>3 DEF PageShape
  <2> HIDE DEF p
  <2> QED BY <2>1, <2>2, LoadsAnew
<1> QED BY <1>2, <1>4, <1>5, <1>6

(* An answer comes, or does not.                                            *)
LEMMA AnswersKeep ==
    ASSUME BoardInv, NEW r \in bFlying, B!Arrives(r) \/ B!RequestFails(r)
    PROVE  BoardInv'
<1>1. /\ PageShape(bPage) /\ RequestShape(r) /\ AnswerFits(r) /\ OfThePage(r, bPage)
      /\ r.current \in BOOLEAN
  BY DEF BoardInv, RequestsAreAnswered, RequestShape
<1>2. CASE B!Arrives(r)
  <2> DEFINE shown == [bPage EXCEPT !.calls = r.answer, !.error = FALSE]
             last == [shown EXCEPT !.offset = B!LastPage(r.answer.matching)]
  <2>1. /\ shown = [filters |-> bPage.filters, offset |-> bPage.offset,
                    calls |-> r.answer, error |-> FALSE]
        /\ PageShape(shown)
    <3> DEFINE q == [bPage EXCEPT !.calls = r.answer]
    <3>1. /\ q = [filters |-> bPage.filters, offset |-> bPage.offset, calls |-> r.answer,
                  error |-> bPage.error]
          /\ shown = [q EXCEPT !.error = FALSE]
      BY <1>1, PageWith
    <3> HIDE DEF q, shown
    <3>2. PageShape(q) /\ q.filters = bPage.filters /\ q.offset = bPage.offset
          /\ q.calls = r.answer
      BY <1>1, <3>1 DEF PageShape
    <3>3. shown = [filters |-> q.filters, offset |-> q.offset, calls |-> q.calls, error |-> FALSE]
      BY <3>1, <3>2, PageWith
    <3> QED BY <1>1, <3>2, <3>3 DEF PageShape
  <2>2. r.answer # None /\ Fits(r.answer, r.filters, r.offset) /\ UNCHANGED bCached
    BY <1>1, <1>2 DEF B!Arrives, AnswerFits
  <2>3. CASE ~r.current
    <3>1. bFlying' = bFlying \ {r} /\ UNCHANGED <<bCached, bPage, bReading>>
      BY <1>2, <2>3 DEF B!Arrives
    <3>2. B!Awaited' = B!Awaited
      BY <2>3, <3>1 DEF B!Awaited
    <3> QED BY <3>1, <3>2 DEF BoardInv, WhatWasRead, RequestsAreAnswered, PageIsRight
  <2>4. CASE r.current /\ B!Loads(last, bFlying \ {r})
    <3>1. B!LastPage(r.answer.matching) \in Nat
      BY <2>2, LastPageIsOne DEF Fits
    <3>2. PageShape(last)
      <4>1. last = [filters |-> shown.filters, offset |-> B!LastPage(r.answer.matching),
                    calls |-> shown.calls, error |-> shown.error]
        <5> DEFINE n == B!LastPage(r.answer.matching)
        <5> HIDE DEF shown, n
        <5>1. [shown EXCEPT !.offset = n] =
                [filters |-> shown.filters, offset |-> n, calls |-> shown.calls,
                 error |-> shown.error]
          BY <2>1, PageWith
        <5> QED BY <5>1 DEF n
      <4> HIDE DEF last
      <4> QED BY <3>1, <4>1 DEF PageShape
    <3> HIDE DEF last
    <3> QED BY <2>2, <2>4, <3>2, LoadsAnew
  <2>5. CASE r.current /\ bPage' = shown /\ bFlying' = bFlying \ {r} /\ UNCHANGED bReading
    <3> HIDE DEF shown
    <3>1. /\ bPage'.filters = bPage.filters /\ bPage'.offset = bPage.offset
          /\ bPage'.calls = r.answer /\ PageShape(bPage')
      BY <1>1, <2>1, <2>5 DEF PageShape
    <3>2. Fits(bPage'.calls, bPage'.filters, bPage'.offset)
      BY <1>1, <2>2, <2>5, <3>1 DEF OfThePage
    <3>3. RequestsAreAnswered'
      BY <2>5, <3>1 DEF BoardInv, RequestsAreAnswered, OfThePage
    <3> QED BY <2>2, <2>5, <3>1, <3>2, <3>3 DEF BoardInv, WhatWasRead, PageIsRight
  <2> QED BY <1>2, <2>3, <2>4, <2>5 DEF B!Arrives
<1>3. CASE B!RequestFails(r)
  <2>1. /\ bFlying' = bFlying \ {r} /\ UNCHANGED <<bCached, bReading>>
        /\ bPage' = IF r.current THEN [bPage EXCEPT !.error = TRUE] ELSE bPage
    BY <1>3 DEF B!RequestFails
  <2>2. CASE r.current
    <3>1. bPage' = [filters |-> bPage.filters, offset |-> bPage.offset, calls |-> bPage.calls,
                    error |-> TRUE]
      BY <1>1, <2>1, <2>2 DEF PageShape
    <3>2. /\ bPage'.filters = bPage.filters /\ bPage'.offset = bPage.offset
          /\ bPage'.error = TRUE /\ PageShape(bPage')
      BY <1>1, <3>1 DEF PageShape
    <3>3. RequestsAreAnswered'
      BY <2>1, <3>2 DEF BoardInv, RequestsAreAnswered, OfThePage
    <3> QED BY <2>1, <3>2, <3>3 DEF BoardInv, WhatWasRead, PageIsRight
  <2>3. CASE ~r.current
    <3>1. B!Awaited' = B!Awaited
      BY <2>1, <2>3 DEF B!Awaited
    <3> QED BY <2>1, <2>3, <3>1 DEF BoardInv, WhatWasRead, RequestsAreAnswered, PageIsRight
  <2> QED BY <2>2, <2>3
<1> QED BY <1>2, <1>3

LEMMA BoardStep == BoardInv /\ [B!Next]_bVars => BoardInv'
<1> SUFFICES ASSUME BoardInv, [B!Next]_bVars PROVE BoardInv'
  OBVIOUS
<1>1. CASE UNCHANGED <<bCached, bReading, bPage, bFlying>>
  BY <1>1 DEF BoardInv, WhatWasRead, RequestsAreAnswered, PageIsRight, B!Awaited
<1>2. CASE B!CallChanges
  BY <1>1, <1>2 DEF B!CallChanges, B!CallStarts, B!CallEnds, B!ToneHeard, B!AlertsChange,
     B!LevelChanges, B!Changes
<1>3. CASE B!ServerAndPage
  BY <1>3, ServerKeeps, PageKeeps, AnswersKeep DEF B!ServerAndPage, B!AnswerShown
<1> QED BY <1>1, <1>2, <1>3 DEF B!Next, bVars

(* So the page shows what was chosen.                                       *)
LEMMA BoardShows == BoardInv => B!ShowsTheChosen
BY DEF BoardInv, PageIsRight, Fits, B!ShowsTheChosen

-----------------------------------------------------------------------------
(* The screen that lists the calls (CallBrowser): its filters in the        *)
(* address bar are those chosen, the text aside; the timer is for the text  *)
(* now typed; and without one the text was applied, or the screen is to be  *)
(* drawn for another one.                                                   *)
FiltersShape(f) ==
    f = [text |-> f.text, status |-> f.status, high |-> f.high, resolved |-> f.resolved]
PlaceShape(a) == a = [filters |-> a.filters, offset |-> a.offset] /\ FiltersShape(a.filters)
ScreenShape(b) ==
    /\ b = [address |-> b.address, rendered |-> b.rendered, typed |-> b.typed,
            timer |-> b.timer, reload |-> b.reload, result |-> b.result]
    /\ PlaceShape(b.address)
    /\ b.typed \in Texts
AsChosen(f, g) == f.status = g.status /\ f.high = g.high /\ f.resolved = g.resolved
TimerIsRight(b) ==
    /\ b.timer # None => b.timer = b.typed
    /\ b.timer = None /\ b.rendered.filters.text = b.address.filters.text
         => b.address.filters.text = b.typed

ScreenInv ==
    /\ ScreenShape(cBrowser)
    /\ FiltersShape(cChosen)
    /\ AsChosen(cBrowser.address.filters, cChosen)
    /\ TimerIsRight(cBrowser)

(* What a change of one field makes of filters and of the screen.           *)
LEMMA FiltersWith ==
    ASSUME NEW f, FiltersShape(f), NEW x
    PROVE  /\ [f EXCEPT !.text = x] =
                [text |-> x, status |-> f.status, high |-> f.high, resolved |-> f.resolved]
           /\ [f EXCEPT !.status = x] =
                [text |-> f.text, status |-> x, high |-> f.high, resolved |-> f.resolved]
           /\ [f EXCEPT !.high = x] =
                [text |-> f.text, status |-> f.status, high |-> x, resolved |-> f.resolved]
           /\ [f EXCEPT !.resolved = x] =
                [text |-> f.text, status |-> f.status, high |-> f.high, resolved |-> x]
<1>1. PICK a, b, c, d : f = [text |-> a, status |-> b, high |-> c, resolved |-> d]
  BY DEF FiltersShape
<1>2. f.text = a /\ f.status = b /\ f.high = c /\ f.resolved = d
  BY <1>1
<1> QED BY <1>1, <1>2

LEMMA ScreenWith ==
    ASSUME NEW b, ScreenShape(b), NEW x
    PROVE  /\ [b EXCEPT !.address = x] =
                [address |-> x, rendered |-> b.rendered, typed |-> b.typed,
                 timer |-> b.timer, reload |-> b.reload, result |-> b.result]
           /\ [b EXCEPT !.rendered = x] =
                [address |-> b.address, rendered |-> x, typed |-> b.typed,
                 timer |-> b.timer, reload |-> b.reload, result |-> b.result]
           /\ [b EXCEPT !.typed = x] =
                [address |-> b.address, rendered |-> b.rendered, typed |-> x,
                 timer |-> b.timer, reload |-> b.reload, result |-> b.result]
           /\ [b EXCEPT !.timer = x] =
                [address |-> b.address, rendered |-> b.rendered, typed |-> b.typed,
                 timer |-> x, reload |-> b.reload, result |-> b.result]
           /\ [b EXCEPT !.reload = x] =
                [address |-> b.address, rendered |-> b.rendered, typed |-> b.typed,
                 timer |-> b.timer, reload |-> x, result |-> b.result]
           /\ [b EXCEPT !.result = x] =
                [address |-> b.address, rendered |-> b.rendered, typed |-> b.typed,
                 timer |-> b.timer, reload |-> b.reload, result |-> x]
<1>1. PICK a, r, t, m, n, o : b = [address |-> a, rendered |-> r, typed |-> t,
                                   timer |-> m, reload |-> n, result |-> o]
  BY DEF ScreenShape
<1>2. b.address = a /\ b.rendered = r /\ b.typed = t /\ b.timer = m /\ b.reload = n /\ b.result = o
  BY <1>1
<1> QED BY <1>1, <1>2

LEMMA PlaceWith ==
    ASSUME NEW a, PlaceShape(a), NEW x
    PROVE  [a EXCEPT !.offset = x] = [filters |-> a.filters, offset |-> x]
<1>1. PICK b, c : a = [filters |-> b, offset |-> c]
  BY DEF PlaceShape
<1>2. a.filters = b /\ a.offset = c
  BY <1>1
<1> QED BY <1>1, <1>2

(* A screen of which one field changes.                                     *)
LEMMA Addressed ==
    ASSUME NEW b, ScreenShape(b), NEW a, PlaceShape(a), NEW c, c = [b EXCEPT !.address = a]
    PROVE  /\ ScreenShape(c) /\ c.address = a
           /\ c.rendered = b.rendered /\ c.typed = b.typed /\ c.timer = b.timer
BY ScreenWith DEF ScreenShape

LEMMA Drawn ==
    ASSUME NEW b, ScreenShape(b), NEW x, NEW c, c = [b EXCEPT !.rendered = x]
    PROVE  /\ ScreenShape(c) /\ c.rendered = x
           /\ c.address = b.address /\ c.typed = b.typed /\ c.timer = b.timer
BY ScreenWith DEF ScreenShape

LEMMA Typed ==
    ASSUME NEW b, ScreenShape(b), NEW t \in Texts, NEW c, c = [b EXCEPT !.typed = t]
    PROVE  /\ ScreenShape(c) /\ c.typed = t
           /\ c.address = b.address /\ c.rendered = b.rendered /\ c.timer = b.timer
BY ScreenWith DEF ScreenShape

LEMMA Timed ==
    ASSUME NEW b, ScreenShape(b), NEW x, NEW c, c = [b EXCEPT !.timer = x]
    PROVE  /\ ScreenShape(c) /\ c.timer = x
           /\ c.address = b.address /\ c.rendered = b.rendered /\ c.typed = b.typed
BY ScreenWith DEF ScreenShape

LEMMA Reloaded ==
    ASSUME NEW b, ScreenShape(b), NEW x, NEW c, c = [b EXCEPT !.reload = x]
    PROVE  /\ ScreenShape(c) /\ c.reload = x
           /\ c.address = b.address /\ c.rendered = b.rendered
           /\ c.typed = b.typed /\ c.timer = b.timer
BY ScreenWith DEF ScreenShape

LEMMA Answered ==
    ASSUME NEW b, ScreenShape(b), NEW x, NEW c, c = [b EXCEPT !.result = x]
    PROVE  /\ ScreenShape(c) /\ c.result = x
           /\ c.address = b.address /\ c.rendered = b.rendered
           /\ c.typed = b.typed /\ c.timer = b.timer
BY ScreenWith DEF ScreenShape

LEMMA ScreenStart == ASSUME NEW size, C(size)!BrowserAssumption, C(size)!Init PROVE ScreenInv
<1>1. "" \in Texts /\ None \notin Texts
  BY NoneIsNothing DEF C!BrowserAssumption
<1> QED BY <1>1 DEF C!Init, C!Start, C!NoFilters, ScreenInv, ScreenShape, PlaceShape,
   FiltersShape,
                  AsChosen, TimerIsRight

(* One filter chosen beside the text.                                       *)
LEMMA ChoosingKeeps ==
    ASSUME NEW size, ScreenInv, NEW field \in {"status", "high", "resolved"}, NEW value,
           C(size)!Choose(field, value)
    PROVE  ScreenInv'
<1> DEFINE f == cBrowser.address.filters
           g == [f EXCEPT ![field] = value]
           a == [filters |-> g, offset |-> 0]
<1>1. cBrowser' = [cBrowser EXCEPT !.address = a] /\ cChosen' = [cChosen EXCEPT ![field] = value]
  BY DEF C!Choose, C!WithChange
<1>2. FiltersShape(f) /\ FiltersShape(cChosen) /\ AsChosen(f, cChosen) /\ ScreenShape(cBrowser)
  BY DEF ScreenInv, ScreenShape, PlaceShape
<1>3. FiltersShape(g) /\ g.text = f.text /\ FiltersShape(cChosen') /\ AsChosen(g, cChosen')
  <2> HIDE DEF f
  <2>1. CASE field = "status"
    <3>1. /\ g = [text |-> f.text, status |-> value, high |-> f.high, resolved |-> f.resolved]
          /\ cChosen' = [text |-> cChosen.text, status |-> value, high |-> cChosen.high,
                         resolved |-> cChosen.resolved]
      BY <1>1, <1>2, <2>1, FiltersWith
    <3> HIDE DEF g
    <3> QED BY <1>2, <3>1 DEF FiltersShape, AsChosen
  <2>2. CASE field = "high"
    <3>1. /\ g = [text |-> f.text, status |-> f.status, high |-> value, resolved |-> f.resolved]
          /\ cChosen' = [text |-> cChosen.text, status |-> cChosen.status, high |-> value,
                         resolved |-> cChosen.resolved]
      BY <1>1, <1>2, <2>2, FiltersWith
    <3> HIDE DEF g
    <3> QED BY <1>2, <3>1 DEF FiltersShape, AsChosen
  <2>3. CASE field = "resolved"
    <3>1. /\ g = [text |-> f.text, status |-> f.status, high |-> f.high, resolved |-> value]
          /\ cChosen' = [text |-> cChosen.text, status |-> cChosen.status, high |-> cChosen.high,
                         resolved |-> value]
      BY <1>1, <1>2, <2>3, FiltersWith
    <3> HIDE DEF g
    <3> QED BY <1>2, <3>1 DEF FiltersShape, AsChosen
  <2> QED BY <2>1, <2>2, <2>3
<1> HIDE DEF g
<1>4. PlaceShape(a) /\ a.filters = g
  BY <1>3 DEF PlaceShape
<1> HIDE DEF a
<1>5. /\ ScreenShape(cBrowser')
      /\ cBrowser'.address = a /\ cBrowser'.rendered = cBrowser.rendered
      /\ cBrowser'.typed = cBrowser.typed /\ cBrowser'.timer = cBrowser.timer
  BY <1>1, <1>2, <1>4, Addressed
<1> QED BY <1>3, <1>4, <1>5 DEF ScreenInv, TimerIsRight

(* Text typed, and applied.                                                 *)
LEMMA TypingKeeps ==
    ASSUME NEW size, ScreenInv, NEW text \in Texts, C(size)!Type(text)
    PROVE  ScreenInv'
<1> DEFINE applied == cBrowser.rendered.filters.text
           m == C(size)!TimerFor(text, applied)
           b == [cBrowser EXCEPT !.typed = text]
<1>1. cBrowser' = [b EXCEPT !.timer = m] /\ cChosen' = cChosen
  <2>1. ScreenShape(cBrowser)
    BY DEF ScreenInv
  <2>2. cBrowser' = [cBrowser EXCEPT !.typed = text, !.timer = m] /\ UNCHANGED cChosen
    BY DEF C!Type
  <2> QED BY <2>2
<1>2. ScreenShape(cBrowser) /\ PlaceShape(cBrowser.address)
  BY DEF ScreenInv, ScreenShape
<1>3. /\ ScreenShape(b) /\ b.address = cBrowser.address /\ b.rendered = cBrowser.rendered
      /\ b.typed = text
  BY <1>2, Typed
<1> HIDE DEF b, m, applied
<1>4. /\ ScreenShape(cBrowser') /\ cBrowser'.address = b.address /\ cBrowser'.timer = m
      /\ cBrowser'.rendered = b.rendered /\ cBrowser'.typed = b.typed
  BY <1>1, <1>3, Timed
<1>5. (m # None => m = text) /\ (m = None => text = applied)
  BY NoneIsNothing DEF m, C!TimerFor
<1> QED BY <1>1, <1>3, <1>4, <1>5 DEF ScreenInv, TimerIsRight, applied

LEMMA ApplyingKeeps ==
    ASSUME NEW size, ScreenInv, C(size)!TimerFires
    PROVE  ScreenInv'
<1> DEFINE f == cBrowser.address.filters
           g == [f EXCEPT !.text = cBrowser.timer]
           a == [filters |-> g, offset |-> 0]
           b == [cBrowser EXCEPT !.address = a]
<1>1. /\ cBrowser' = [b EXCEPT !.timer = None] /\ cChosen' = cChosen
      /\ cBrowser.timer # None
  <2>1. /\ cBrowser' = [cBrowser EXCEPT !.address = a, !.timer = None] /\ cBrowser.timer # None
        /\ UNCHANGED cChosen
    BY DEF C!TimerFires, C!WithChange
  <2> QED BY <2>1
<1>2. /\ ScreenShape(cBrowser) /\ FiltersShape(f) /\ AsChosen(f, cChosen)
      /\ cBrowser.timer = cBrowser.typed /\ cBrowser.typed \in Texts
  BY <1>1 DEF ScreenInv, ScreenShape, PlaceShape, TimerIsRight
<1>3. FiltersShape(g) /\ g.text = cBrowser.timer /\ AsChosen(g, cChosen)
  <2>1. g = [text |-> cBrowser.timer, status |-> f.status, high |-> f.high, resolved |-> f.resolved]
    <3> HIDE DEF f
    <3> QED BY <1>2, FiltersWith
  <2> HIDE DEF g, f
  <2> QED BY <1>2, <2>1 DEF FiltersShape, AsChosen
<1> HIDE DEF f, g
<1>4. PlaceShape(a) /\ a.filters = g
  BY <1>3 DEF PlaceShape
<1> HIDE DEF a
<1>5. /\ ScreenShape(b) /\ b.address = a /\ b.rendered = cBrowser.rendered
      /\ b.typed = cBrowser.typed
  BY <1>2, <1>4, Addressed
<1> HIDE DEF b
<1>6. /\ ScreenShape(cBrowser') /\ cBrowser'.address = a /\ cBrowser'.typed = cBrowser.typed
      /\ cBrowser'.timer = None
  BY <1>1, <1>5, Timed
<1> QED BY <1>1, <1>2, <1>3, <1>4, <1>6 DEF ScreenInv, TimerIsRight

(* All filters cleared, and the text with them.                             *)
LEMMA ClearingKeeps ==
    ASSUME NEW size, C(size)!BrowserAssumption, ScreenInv, C(size)!ClearFilters
    PROVE  ScreenInv'
<1> DEFINE blank == ""
           start == C(size)!Start
           applied == cBrowser.rendered.filters.text
           m == IF cBrowser.typed = blank THEN cBrowser.timer ELSE C(size)!TimerFor(blank, applied)
<1>1. /\ ScreenShape(cBrowser) /\ blank \in Texts
      /\ cBrowser.timer # None => cBrowser.timer = cBrowser.typed
      /\ PlaceShape(start) /\ FiltersShape(start.filters) /\ start.filters.text = blank
      /\ cChosen' = start.filters
  BY DEF ScreenInv, TimerIsRight, C!BrowserAssumption, C!Start, C!NoFilters, PlaceShape,
         FiltersShape, C!ClearFilters
<1>2. cBrowser' = [cBrowser EXCEPT !.typed = blank, !.address = start,
                     !.timer = IF cBrowser.typed = blank THEN @
                               ELSE C(size)!TimerFor(blank, applied)]
  BY DEF C!ClearFilters
<1>3. m # None => m = blank
  BY <1>1, NoneIsNothing DEF C!TimerFor
<1> HIDE DEF start, blank, applied
<1>4. PICK b : b = [cBrowser EXCEPT !.typed = blank]
  OBVIOUS
<1>5. /\ ScreenShape(b) /\ b.rendered = cBrowser.rendered /\ b.typed = blank
      /\ b.timer = cBrowser.timer
  BY <1>1, <1>4, Typed
<1>6. PICK d : d = [b EXCEPT !.address = start]
  OBVIOUS
<1>7. /\ ScreenShape(d) /\ d.rendered = b.rendered /\ d.typed = b.typed
      /\ d.address = start /\ d.timer = b.timer
  BY <1>1, <1>5, <1>6, Addressed
<1>8. cBrowser' = [d EXCEPT !.timer = m]
  BY <1>2, <1>4, <1>5, <1>6, <1>7
<1> HIDE DEF m
<1>9. /\ ScreenShape(cBrowser') /\ cBrowser'.rendered = d.rendered
      /\ cBrowser'.typed = d.typed /\ cBrowser'.address = d.address /\ cBrowser'.timer = m
  BY <1>7, <1>8, Timed
<1>10. /\ cBrowser'.typed = blank /\ cBrowser'.address = start
  BY <1>5, <1>7, <1>9
<1> QED BY <1>1, <1>3, <1>9, <1>10 DEF ScreenInv, TimerIsRight, AsChosen

(* The screen drawn again.                                                  *)
LEMMA DrawingKeeps ==
    ASSUME NEW size, ScreenInv, C(size)!Render
    PROVE  ScreenInv'
<1> DEFINE now == cBrowser.rendered.filters.text
           next == cBrowser.address.filters.text
           m == IF now = next THEN cBrowser.timer ELSE C(size)!TimerFor(cBrowser.typed, next)
           b == [cBrowser EXCEPT !.rendered = cBrowser.address]
<1>1. /\ ScreenShape(cBrowser) /\ cBrowser.typed \in Texts
      /\ cBrowser.timer # None => cBrowser.timer = cBrowser.typed
      /\ cBrowser.timer = None /\ now = next => next = cBrowser.typed
  BY DEF ScreenInv, ScreenShape, TimerIsRight
<1>2. /\ ScreenShape(b) /\ b.rendered = cBrowser.address /\ b.address = cBrowser.address
      /\ b.typed = cBrowser.typed /\ b.timer = cBrowser.timer
  BY <1>1, Drawn
<1>3. cBrowser' = [b EXCEPT !.timer = m] /\ cChosen' = cChosen
  <2>1. /\ cBrowser' = [cBrowser EXCEPT !.rendered = cBrowser.address,
                          !.timer = IF now = next THEN @
                                    ELSE C(size)!TimerFor(cBrowser.typed, next)]
        /\ UNCHANGED cChosen
    BY DEF C!Render
  <2> HIDE DEF now, next
  <2> QED BY <1>2, <2>1
<1> HIDE DEF b, m, now, next
<1>4. /\ ScreenShape(cBrowser') /\ cBrowser'.rendered = cBrowser.address
      /\ cBrowser'.address = cBrowser.address
      /\ cBrowser'.typed = cBrowser.typed /\ cBrowser'.timer = m
  BY <1>2, <1>3, Timed
<1>5. /\ m # None => m = cBrowser.typed
      /\ m = None => next = cBrowser.typed
  BY <1>1, NoneIsNothing DEF m, C!TimerFor
<1> QED BY <1>1, <1>3, <1>4, <1>5 DEF ScreenInv, TimerIsRight, next

(* Another page, the same again, and an answer, leave all that as it is.    *)
LEMMA ScreenRests ==
    ASSUME ScreenInv, ScreenShape(cBrowser'), UNCHANGED cChosen,
           cBrowser'.address.filters = cBrowser.address.filters,
           cBrowser'.rendered = cBrowser.rendered,
           cBrowser'.typed = cBrowser.typed, cBrowser'.timer = cBrowser.timer
    PROVE  ScreenInv'
BY DEF ScreenInv, TimerIsRight

LEMMA TurningKeeps ==
    ASSUME NEW size, ScreenInv, NEW offset, C(size)!GoTo(offset)
    PROVE  ScreenInv'
<1> DEFINE a == [cBrowser.address EXCEPT !.offset = offset]
<1>1. cBrowser' = [cBrowser EXCEPT !.address = a] /\ cChosen' = cChosen
  BY DEF C!GoTo
<1>2. ScreenShape(cBrowser) /\ PlaceShape(cBrowser.address)
  BY DEF ScreenInv, ScreenShape
<1>3. PlaceShape(a) /\ a.filters = cBrowser.address.filters
  <2>1. a = [filters |-> cBrowser.address.filters, offset |-> offset]
    BY <1>2, PlaceWith
  <2> HIDE DEF a
  <2> QED BY <1>2, <2>1 DEF PlaceShape
<1> HIDE DEF a
<1>4. /\ ScreenShape(cBrowser') /\ cBrowser'.address = a
      /\ cBrowser'.rendered = cBrowser.rendered
      /\ cBrowser'.typed = cBrowser.typed /\ cBrowser'.timer = cBrowser.timer
  BY <1>1, <1>2, <1>3, Addressed
<1> QED BY <1>1, <1>3, <1>4, ScreenRests

LEMMA RefreshingKeeps ==
    ASSUME NEW size, ScreenInv, C(size)!Refresh
    PROVE  ScreenInv'
<1> DEFINE n == cBrowser.reload + 1
<1>1. cBrowser' = [cBrowser EXCEPT !.reload = n] /\ cChosen' = cChosen
  BY DEF C!Refresh
<1> HIDE DEF n
<1>2. ScreenShape(cBrowser)
  BY DEF ScreenInv
<1> QED BY <1>1, <1>2, Reloaded, ScreenRests

LEMMA AnsweringKeeps ==
    ASSUME NEW size, ScreenInv, NEW r, C(size)!Arrives(r) \/ C(size)!RequestFails(r)
    PROVE  ScreenInv'
<1>1. /\ cBrowser' = cBrowser \/ \E x : cBrowser' = [cBrowser EXCEPT !.result = x]
      /\ cChosen' = cChosen
  BY DEF C!Arrives, C!RequestFails
<1>2. ScreenShape(cBrowser)
  BY DEF ScreenInv
<1>3. CASE cBrowser' = cBrowser
  BY <1>1, <1>2, <1>3, ScreenRests
<1>4. ASSUME NEW x, cBrowser' = [cBrowser EXCEPT !.result = x] PROVE ScreenInv'
  BY <1>1, <1>2, <1>4, Answered, ScreenRests
<1> QED BY <1>1, <1>3, <1>4

LEMMA ScreenStep ==
    ASSUME NEW size, C(size)!BrowserAssumption, ScreenInv, [C(size)!Next]_cVars
    PROVE  ScreenInv'
<1>1. CASE UNCHANGED <<cBrowser, cChosen>>
  BY <1>1 DEF ScreenInv
<1>2. CASE C(size)!CallChanges \/ C(size)!Tick
  BY <1>1, <1>2 DEF C!CallChanges, C!CallStarts, C!CallEnds, C!Escalated, C!ComplaintRaised,
     C!ComplaintMarked, C!Changes, C!Tick
<1>3. CASE C(size)!Person
  <2>1. ASSUME NEW s, C(size)!ToggleStatus(s) PROVE ScreenInv'
    BY <2>1, ChoosingKeeps DEF C!ToggleStatus
  <2>2. ASSUME NEW range, C(size)!ChooseRange(range) PROVE ScreenInv'
    BY <2>2, ChoosingKeeps DEF C!ChooseRange
  <2>3. CASE C(size)!ChooseHigh
    BY <2>3, ChoosingKeeps DEF C!ChooseHigh
  <2>4. CASE C(size)!NextPage \/ C(size)!PreviousPage
    BY <2>4, TurningKeeps DEF C!NextPage, C!PreviousPage
  <2> QED BY <1>3, <2>1, <2>2, <2>3, <2>4, TypingKeeps, ClearingKeeps, RefreshingKeeps
          DEF C!Person
<1>4. CASE C(size)!Serves
  <2>1. ASSUME NEW r, C(size)!Count(r) \/ C(size)!ReadPage(r) PROVE ScreenInv'
    BY <1>1, <2>1 DEF C!Count, C!ReadPage
  <2> QED BY <1>4, <2>1, AnsweringKeeps DEF C!Serves
<1> QED BY <1>1, <1>2, <1>3, <1>4, ApplyingKeeps, DrawingKeeps, AnsweringKeeps DEF C!Next,
   cVars

(* So no choice is lost.                                                    *)
LEMMA ScreenKeepsChoices == ASSUME NEW size, ScreenInv PROVE C(size)!ChoicesAreKept
<1> DEFINE f == cBrowser.address.filters
<1>1. FiltersShape(f) /\ FiltersShape(cChosen) /\ AsChosen(f, cChosen)
  BY DEF ScreenInv, ScreenShape, PlaceShape
<1>2. /\ [f EXCEPT !.text = ""] =
           [text |-> "", status |-> f.status, high |-> f.high, resolved |-> f.resolved]
      /\ [cChosen EXCEPT !.text = ""] = [text |-> "", status |-> cChosen.status,
            high |-> cChosen.high, resolved |-> cChosen.resolved]
  <2> HIDE DEF f
  <2> QED BY <1>1, FiltersWith
<1>3. [f EXCEPT !.text = ""] = [cChosen EXCEPT !.text = ""]
  BY <1>1, <1>2 DEF AsChosen
<1>4. cBrowser.timer = None /\ cBrowser.rendered = cBrowser.address => f.text = cBrowser.typed
  BY DEF ScreenInv, TimerIsRight
<1> QED BY <1>3, <1>4 DEF C!ChoicesAreKept

-----------------------------------------------------------------------------
(* The two stores of calls (CallBrowser): a complaint's changes are at      *)
(* times up to now, and a call whose complaints are all resolved is settled *)
(* since the last of them was.                                              *)
IsMost(m, S) == m \in S /\ S \in SUBSET Nat /\ \A x \in S : x <= m

Marks(now) ==
    {x \in [status : {"open", "resolved"}, updated : Nat, events : SUBSET (0..now)] :
        x.status = "resolved" => \E m \in x.events : IsMost(m, x.events)}

CallShape(size, now, call) ==
    /\ call = [status |-> call.status, high |-> call.high, complaints |-> call.complaints]
    /\ call.complaints \in [size.complaints -> Marks(now) \cup {None}]

RaisedIn(size, call) == {k \in size.complaints : call.complaints[k] # None}
Times(size, call) == {C(size)!ResolvedAt(call.complaints[k]) : k \in RaisedIn(size, call)}
SettledAt(size, call, time) ==
    IF C(size)!AllResolved(call) THEN IsMost(time, Times(size, call)) ELSE time = None

StoreInv(size) ==
    /\ cClock \in Nat
    /\ cStore = [c \in 1..size.calls |-> cStore[c]]
    /\ cSettled = [c \in 1..size.calls |-> cSettled[c]]
    /\ \A c \in 1..size.calls :
         cStore[c] # None =>
           CallShape(size, cClock, cStore[c]) /\ SettledAt(size, cStore[c], cSettled[c])

(* The greatest of some numbers is the one that is.                         *)
LEMMA MostIs ==
    ASSUME NEW size, NEW m, NEW S, IsMost(m, S)
    PROVE  C(size)!Most(S) = m
<1> DEFINE IsIt(x) == x \in S /\ \A y \in S : y <= x
<1>1. IsIt(m)
  BY DEF IsMost
<1>2. ASSUME NEW x, IsIt(x) PROVE x = m
  <2>1. x \in Nat /\ m \in Nat /\ x <= m /\ m <= x
    BY <1>1, <1>2 DEF IsMost
  <2> QED BY <2>1
<1>3. C(size)!Most(S) = CHOOSE x : IsIt(x)
  BY DEF C!Most
<1> HIDE DEF IsIt
<1> QED BY <1>1, <1>2, <1>3

(* When a complaint was resolved is known, and past.                        *)
LEMMA ResolvedInThePast ==
    ASSUME NEW size, NEW now \in Nat, NEW x \in Marks(now), x.status = "resolved"
    PROVE  C(size)!ResolvedAt(x) \in 0..now
<1>1. PICK m \in x.events : IsMost(m, x.events)
  BY DEF Marks
<1>2. x.events # {} /\ m \in 0..now
  BY <1>1 DEF Marks
<1>3. C(size)!Most(x.events) = m
  BY <1>1, MostIs
<1> QED BY <1>2, <1>3 DEF C!ResolvedAt

LEMMA NothingIsNoMark == ASSUME NEW now PROVE None \notin Marks(now)
BY NoneIsNothing DEF Marks

LEMMA StoreStart == ASSUME NEW size, C(size)!Init PROVE StoreInv(size)
<1>1. /\ cStore = [c \in 1..size.calls |-> IF c = 1 THEN C(size)!NewCall ELSE None]
      /\ cClock = 0 /\ cSettled = [c \in 1..size.calls |-> None]
  BY DEF C!Init
<1>2. /\ CallShape(size, 0, C(size)!NewCall)
      /\ SettledAt(size, C(size)!NewCall, None)
  BY DEF C!NewCall, CallShape, SettledAt, C!AllResolved
<1> QED BY <1>1, <1>2 DEF StoreInv

(* A change of one call.                                                    *)
LEMMA ChangeKeeps ==
    ASSUME NEW size, StoreInv(size), NEW c \in 1..size.calls,
           NEW call, CallShape(size, cClock, call),
           C(size)!Changes(c, call),
           C(size)!AllResolved(call) =>
             IsMost(IF cSettled[c] # None THEN cSettled[c] ELSE cClock, Times(size, call))
    PROVE  StoreInv(size)'
<1>1. /\ cStore' = [cStore EXCEPT ![c] = call]
      /\ cSettled' = [cSettled EXCEPT ![c] = IF ~C(size)!AllResolved(call) THEN None
                                            ELSE IF @ # None THEN @ ELSE cClock]
      /\ cClock' = cClock
  BY DEF C!Changes
<1>2. /\ cStore'[c] = call
      /\ cSettled'[c] = IF ~C(size)!AllResolved(call) THEN None
                        ELSE IF cSettled[c] # None THEN cSettled[c] ELSE cClock
      /\ cStore' = [d \in 1..size.calls |-> cStore'[d]]
      /\ cSettled' = [d \in 1..size.calls |-> cSettled'[d]]
      /\ \A d \in 1..size.calls \ {c} : cStore'[d] = cStore[d] /\ cSettled'[d] = cSettled[d]
  BY <1>1 DEF StoreInv
<1>3. SettledAt(size, call, cSettled'[c])
  BY <1>2 DEF SettledAt
<1>4. \A d \in 1..size.calls : cStore'[d] # None =>
        CallShape(size, cClock, cStore'[d]) /\ SettledAt(size, cStore'[d], cSettled'[d])
  BY <1>2, <1>3 DEF StoreInv
<1> QED BY <1>1, <1>2, <1>4 DEF StoreInv

(* A change that leaves the call's complaints alone,                        *)
LEMMA SameComplaints ==
    ASSUME NEW size, StoreInv(size), NEW c \in 1..size.calls, cStore[c] # None, NEW call,
           call = [status |-> call.status, high |-> call.high, complaints |-> call.complaints],
           call.complaints = cStore[c].complaints, C(size)!Changes(c, call)
    PROVE  StoreInv(size)'
<1>1. CallShape(size, cClock, cStore[c]) /\ SettledAt(size, cStore[c], cSettled[c])
  BY DEF StoreInv
<1>2. CallShape(size, cClock, call)
  BY <1>1 DEF CallShape
<1>3. /\ C(size)!AllResolved(call) = C(size)!AllResolved(cStore[c])
      /\ Times(size, call) = Times(size, cStore[c])
  BY DEF C!AllResolved, Times, RaisedIn
<1>4. ASSUME C(size)!AllResolved(call)
      PROVE  IsMost(IF cSettled[c] # None THEN cSettled[c] ELSE cClock, Times(size, call))
  <2>1. IsMost(cSettled[c], Times(size, call))
    BY <1>1, <1>3, <1>4 DEF SettledAt
  <2>2. cSettled[c] # None
    BY <2>1, NoneIsNothing DEF IsMost
  <2> QED BY <2>1, <2>2
<1> QED BY <1>2, <1>4, ChangeKeeps

(* and one that leaves a complaint open.                                    *)
LEMMA OneIsOpen ==
    ASSUME NEW size, NEW call, NEW k \in size.complaints, call.complaints[k] # None,
           call.complaints[k].status # "resolved"
    PROVE  ~C(size)!AllResolved(call)
BY DEF C!AllResolved

(* What a change of one complaint makes of a call.                          *)
With(call, k, x) == [call EXCEPT !.complaints[k] = x]

LEMMA CallWith ==
    ASSUME NEW size, NEW now, NEW call, CallShape(size, now, call), NEW k \in size.complaints,
           NEW x \in Marks(now)
    PROVE  /\ CallShape(size, now, With(call, k, x))
           /\ With(call, k, x).complaints[k] = x
           /\ \A j \in size.complaints \ {k} :
                With(call, k, x).complaints[j] = call.complaints[j]
<1> DEFINE changed == With(call, k, x)
<1>1. PICK s, h, m : call = [status |-> s, high |-> h, complaints |-> m]
  BY DEF CallShape
<1>2. /\ call.status = s /\ call.high = h /\ call.complaints = m
      /\ m \in [size.complaints -> Marks(now) \cup {None}]
  BY <1>1 DEF CallShape
<1>3. PICK n : n = [m EXCEPT ![k] = x]
  OBVIOUS
<1>4. changed = [status |-> s, high |-> h, complaints |-> n]
  BY <1>1, <1>2, <1>3 DEF With
<1>5. n \in [size.complaints -> Marks(now) \cup {None}] /\ n[k] = x
      /\ \A j \in size.complaints \ {k} : n[j] = m[j]
  BY <1>2, <1>3
<1> HIDE DEF changed
<1>6. CallShape(size, now, changed) /\ changed.complaints[k] = x
      /\ \A j \in size.complaints \ {k} : changed.complaints[j] = call.complaints[j]
  BY <1>2, <1>4, <1>5 DEF CallShape
<1> QED BY <1>6 DEF changed

LEMMA RaisingKeeps ==
    ASSUME NEW size, StoreInv(size), NEW c \in 1..size.calls, NEW k \in size.complaints,
           C(size)!ComplaintRaised(c, k)
    PROVE  StoreInv(size)'
<1> DEFINE x == [status |-> "open", updated |-> cClock, events |-> {}]
<1>0. PICK call : call = With(cStore[c], k, x)
  OBVIOUS
<1>1. /\ cStore[c] # None /\ C(size)!Changes(c, call) /\ cClock \in Nat
      /\ CallShape(size, cClock, cStore[c])
  BY <1>0 DEF C!ComplaintRaised, StoreInv, With
<1>2. x \in Marks(cClock) /\ x.status # "resolved"
  BY <1>1 DEF Marks
<1> HIDE DEF x
<1>3. CallShape(size, cClock, call) /\ call.complaints[k] = x
  BY <1>0, <1>1, <1>2, CallWith
<1>4. ~C(size)!AllResolved(call)
  BY <1>2, <1>3, OneIsOpen, NothingIsNoMark
<1> QED BY <1>1, <1>3, <1>4, ChangeKeeps

(* A complaint marked: resolved now, and the last of the call's to be.      *)
LEMMA MarkingKeeps ==
    ASSUME NEW size, StoreInv(size), NEW c \in 1..size.calls, NEW k \in size.complaints,
           C(size)!ComplaintMarked(c, k)
    PROVE  StoreInv(size)'
<1> DEFINE was == cStore[c].complaints[k]
           open == [was EXCEPT !.status = "open", !.updated = cClock]
           done == [status |-> "resolved", updated |-> cClock, events |-> was.events \cup {cClock}]
           x == IF was.status = "resolved" THEN open ELSE done
<1>0. PICK call : call = With(cStore[c], k, x)
  OBVIOUS
<1>1. /\ cStore[c] # None /\ was # None /\ C(size)!Changes(c, call) /\ cClock \in Nat
      /\ CallShape(size, cClock, cStore[c]) /\ SettledAt(size, cStore[c], cSettled[c])
  BY <1>0 DEF C!ComplaintMarked, C!Raised, StoreInv, With
<1>2. was \in Marks(cClock)
  BY <1>1 DEF CallShape
<1>3. open \in Marks(cClock) /\ open.status = "open"
  <2>1. was \in [status : {"open", "resolved"}, updated : Nat, events : SUBSET (0..cClock)]
    BY <1>2 DEF Marks
  <2>2. open \in [status : {"open", "resolved"}, updated : Nat, events : SUBSET (0..cClock)]
        /\ open.status = "open"
    BY <1>1, <2>1
  <2> HIDE DEF open
  <2> QED BY <2>2 DEF Marks
<1>4. done \in Marks(cClock) /\ done.status = "resolved" /\ C(size)!ResolvedAt(done) = cClock
  <2>1. was.events \in SUBSET (0..cClock)
    BY <1>2 DEF Marks
  <2> DEFINE events == was.events \cup {cClock}
  <2>2. IsMost(cClock, events) /\ events \in SUBSET (0..cClock)
    BY <1>1, <2>1 DEF IsMost
  <2>3. done.events = events
    OBVIOUS
  <2> HIDE DEF events
  <2>4. done = [status |-> "resolved", updated |-> cClock, events |-> events]
    BY DEF events
  <2> HIDE DEF done
  <2>5. done \in Marks(cClock)
    BY <1>1, <2>2, <2>4 DEF Marks, IsMost
  <2>6. events # {} /\ C(size)!Most(events) = cClock
    BY <2>2, MostIs DEF IsMost
  <2> QED BY <2>3, <2>4, <2>5, <2>6 DEF C!ResolvedAt
<1> HIDE DEF open, done
<1>5. x \in Marks(cClock)
  BY <1>3, <1>4
<1>6. /\ CallShape(size, cClock, call) /\ call.complaints[k] = x
      /\ \A j \in size.complaints \ {k} : call.complaints[j] = cStore[c].complaints[j]
  <2> HIDE DEF x
  <2> QED BY <1>0, <1>1, <1>5, CallWith
<1>7. CASE was.status = "resolved"
  <2>1. ~C(size)!AllResolved(call)
    BY <1>3, <1>5, <1>6, <1>7, OneIsOpen, NothingIsNoMark
  <2> QED BY <1>1, <1>6, <2>1, ChangeKeeps
<1>8. CASE was.status # "resolved"
  <2>1. cSettled[c] = None
    BY <1>1, <1>8, OneIsOpen DEF SettledAt
  <2>2. ASSUME C(size)!AllResolved(call) PROVE IsMost(cClock, Times(size, call))
    <3>1. ASSUME NEW j \in RaisedIn(size, call)
          PROVE  C(size)!ResolvedAt(call.complaints[j]) \in 0..cClock
      <4>1. call.complaints[j] \in Marks(cClock) /\ call.complaints[j].status = "resolved"
        BY <1>6, <2>2, <3>1 DEF RaisedIn, CallShape, C!AllResolved
      <4> QED BY <1>1, <4>1, ResolvedInThePast
    <3>2. k \in RaisedIn(size, call) /\ C(size)!ResolvedAt(call.complaints[k]) = cClock
      BY <1>4, <1>5, <1>6, <1>8, NothingIsNoMark DEF RaisedIn
    <3>3. Times(size, call) \in SUBSET (0..cClock) /\ cClock \in Times(size, call)
      BY <3>1, <3>2 DEF Times
    <3> QED BY <1>1, <3>3 DEF IsMost
  <2> QED BY <1>1, <1>6, <2>1, <2>2, ChangeKeeps
<1> QED BY <1>7, <1>8

LEMMA StoreStep ==
    ASSUME NEW size, StoreInv(size), [C(size)!Next]_cVars
    PROVE  StoreInv(size)'
<1>1. CASE UNCHANGED <<cStore, cClock, cSettled>>
  BY <1>1 DEF StoreInv
<1>2. ASSUME NEW c \in 1..size.calls, C(size)!CallStarts(c) PROVE StoreInv(size)'
  <2>1. C(size)!Changes(c, C(size)!NewCall)
    BY <1>2 DEF C!CallStarts
  <2>2. /\ CallShape(size, cClock, C(size)!NewCall)
        /\ ~C(size)!AllResolved(C(size)!NewCall)
    BY DEF C!NewCall, CallShape, C!AllResolved
  <2> QED BY <2>1, <2>2, ChangeKeeps
<1>3. ASSUME NEW c \in 1..size.calls, C(size)!CallEnds(c) \/ C(size)!Escalated(c)
      PROVE  StoreInv(size)'
  <2>1. cStore[c] # None /\ CallShape(size, cClock, cStore[c])
    BY <1>3 DEF C!CallEnds, C!Escalated, StoreInv
  <2>2. PICK s, h, m : cStore[c] = [status |-> s, high |-> h, complaints |-> m]
    BY <2>1 DEF CallShape
  <2>3. PICK call : /\ C(size)!Changes(c, call)
                    /\ \/ call = [cStore[c] EXCEPT !.status = "completed"]
                       \/ call = [cStore[c] EXCEPT !.high = TRUE]
    BY <1>3 DEF C!CallEnds, C!Escalated
  <2>4. /\ call = [status |-> call.status, high |-> call.high, complaints |-> call.complaints]
        /\ call.complaints = cStore[c].complaints
    BY <2>2, <2>3
  <2> QED BY <2>1, <2>3, <2>4, SameComplaints
<1>4. CASE C(size)!CallChanges
  BY <1>2, <1>3, <1>4, RaisingKeeps, MarkingKeeps DEF C!CallChanges
<1>5. CASE C(size)!Tick
  <2>1. cClock' = cClock + 1 /\ UNCHANGED <<cStore, cSettled>> /\ cClock \in Nat
    BY <1>5 DEF C!Tick, StoreInv
  <2>2. cClock' \in Nat /\ Marks(cClock) \in SUBSET Marks(cClock')
    <3>1. 0..cClock \in SUBSET (0..cClock') /\ cClock' \in Nat
      BY <2>1
    <3> QED BY <3>1 DEF Marks
  <2>3. \A call : CallShape(size, cClock, call) => CallShape(size, cClock', call)
    BY <2>2 DEF CallShape
  <2> QED BY <2>1, <2>2, <2>3 DEF StoreInv
<1>6. CASE C(size)!Person
  BY <1>1, <1>6 DEF C!Person, C!Type, C!ToggleStatus, C!ChooseRange, C!ChooseHigh, C!Choose,
     C!ClearFilters, C!Refresh, C!NextPage, C!PreviousPage, C!GoTo
<1>7. CASE C(size)!TimerFires \/ C(size)!Render
  BY <1>1, <1>7 DEF C!TimerFires, C!Render
<1>8. CASE C(size)!Serves
  BY <1>1, <1>8 DEF C!Serves, C!Count, C!ReadPage, C!Arrives
<1>9. ASSUME NEW r, C(size)!RequestFails(r) PROVE StoreInv(size)'
  BY <1>1, <1>9 DEF C!RequestFails
<1> QED BY <1>1, <1>4, <1>5, <1>6, <1>7, <1>8, <1>9 DEF C!Next, cVars

(* Both stores find when a call was settled.                                *)
LEMMA BothFindIt ==
    ASSUME NEW size, C(size)!BrowserAssumption, StoreInv(size), NEW c \in 1..size.calls,
           cStore[c] # None
    PROVE  /\ C(size)!ResolvedBySql(c) = cSettled[c]
           /\ C(size)!ResolvedInMemory(c) = cSettled[c]
<1> DEFINE call == cStore[c]
           raised == RaisedIn(size, call)
           records == {call.complaints[k] : k \in raised}
           open == {k \in raised : call.complaints[k].status # "resolved"}
<1>1. CallShape(size, cClock, call) /\ SettledAt(size, call, cSettled[c])
  BY DEF StoreInv
<1>2. C(size)!Raised(c) = raised
  BY DEF C!Raised, RaisedIn
<1>3. IsFiniteSet(open)
  <2>1. IsFiniteSet(size.complaints)
    BY BrowserCounts DEF C!BrowserAssumption
  <2>2. open \in SUBSET size.complaints
    BY DEF RaisedIn
  <2> HIDE DEF open
  <2> QED BY <2>1, <2>2, FS_Subset
<1>4. C(size)!Cardinality(open) # 0 <=> open # {}
  <2> HIDE DEF open
  <2> QED BY <1>3, BrowserCounts, FS_EmptySet
<1>5. C(size)!AllResolved(call) <=> raised # {} /\ open = {}
  BY DEF C!AllResolved, RaisedIn
<1>6. /\ records = {} <=> raised = {}
      /\ (\E r \in records : r.status # "resolved") <=> open # {}
      /\ {C(size)!ResolvedAt(r) : r \in records} = Times(size, call)
      /\ {C(size)!ResolvedAt(call.complaints[k]) : k \in raised} = Times(size, call)
  BY DEF Times
<1>7. C(size)!ResolvedBySql(c) = IF C(size)!AllResolved(call) THEN C(size)!Most(Times(size, call))
                                 ELSE None
  BY <1>2, <1>4, <1>5, <1>6 DEF C!ResolvedBySql
<1>8. C(size)!ResolvedInMemory(c) = IF C(size)!AllResolved(call)
                                    THEN C(size)!Most(Times(size, call)) ELSE None
  BY <1>2, <1>5, <1>6 DEF C!ResolvedInMemory
<1>9. CASE C(size)!AllResolved(call)
  BY <1>1, <1>7, <1>8, <1>9, MostIs DEF SettledAt
<1>10. CASE ~C(size)!AllResolved(call)
  BY <1>1, <1>7, <1>8, <1>10 DEF SettledAt
<1> QED BY <1>9, <1>10

LEMMA StoresSayTheSame ==
    ASSUME NEW size, C(size)!BrowserAssumption, StoreInv(size)
    PROVE  C(size)!StoresAgree
<1> SUFFICES ASSUME NEW c \in C(size)!Created
             PROVE  /\ \A range \in Ranges :
                         LET f == [C(size)!NoFilters EXCEPT !.resolved = range]
                         IN  C(size)!Matches(c, f) = C(size)!Where(c, f)
                    /\ C(size)!ResolvedBySql(c) = cSettled[c]
  BY DEF C!StoresAgree
<1>1. c \in 1..size.calls /\ cStore[c] # None
  BY DEF C!Created
<1>2. C(size)!ResolvedBySql(c) = cSettled[c] /\ C(size)!ResolvedInMemory(c) = cSettled[c]
  BY <1>1, BothFindIt
<1>3. ASSUME NEW range \in Ranges, NEW f, f = [C(size)!NoFilters EXCEPT !.resolved = range]
      PROVE  C(size)!Matches(c, f) = C(size)!Where(c, f)
  <2>1. f.status = {} /\ f.high = FALSE /\ f.text = "" /\ f.resolved = range
    BY <1>3 DEF C!NoFilters
  <2>2. C(size)!Matches(c, f) <=> C(size)!InRange(cSettled[c], range)
    BY <1>2, <2>1 DEF C!Matches
  <2>3. C(size)!Where(c, f) <=> C(size)!InRange(cSettled[c], range)
    BY <1>2, <2>1 DEF C!Where, C!InRange
  <2>4. C(size)!Matches(c, f) \in BOOLEAN /\ C(size)!Where(c, f) \in BOOLEAN
    BY DEF C!Matches, C!Where
  <2> QED BY <2>2, <2>3, <2>4
<1> QED BY <1>2, <1>3

-----------------------------------------------------------------------------
(* The themes (Themes).                                                     *)
Stages == {"rest", "starting", "reading", "asking", "storing", "saving", "remembering",
           "ending", "deciding"}
Candidates == [calls : SUBSET Calls, status : T!Statuses]

(* Who is between reading the theme and writing it, and that it has the     *)
(* lock.                                                                    *)
Holding(p) == tAt[p] \in {"saving", "deciding"}
HolderHasTheLock == \A p \in T!People : Holding(p) => tLock[T!HomeOf(p)] = p

(* What each stage has at hand; what a run read of the theme is stored.     *)
CopyIsCurrent ==
    \A p \in T!People :
        /\ tAt[p] = "asking" => tCopy[p] \in [calls : SUBSET Calls]
        /\ tAt[p] = "remembering" => tCopy[p].calls \subseteq Calls
        /\ tAt[p] = "storing" => tCopy[p] \in [calls : SUBSET Calls, found : SUBSET Calls]
        /\ tAt[p] = "saving" =>
             /\ tCopy[p] \in [calls : SUBSET Calls, found : SUBSET Calls,
                             existing : Candidates \cup {None}]
             /\ tCopy[p].existing = tTheme
        /\ tAt[p] = "deciding" => tCopy[p] \in Candidates

ThemeShape ==
    /\ tCompleted \subseteq Calls
    /\ tTheme \in Candidates \cup {None}
    /\ tLock \in [Instances -> T!People \cup {None}]
    /\ tAt \in [T!People -> Stages]
    /\ tCopy = [p \in T!People |-> tCopy[p]]

ThemesInv == ThemeShape /\ HolderHasTheLock /\ CopyIsCurrent

-----------------------------------------------------------------------------
(* Everybody is served by some instance.                                    *)
LEMMA HomeIsAnInstance ==
    ASSUME NEW p \in T!People
    PROVE  T!HomeOf(p) \in Instances
BY PartsAssumption DEF T!ThemesAssumption, T!HomeOf, T!People, T!Runners, T!Workers

(* Nobody has read anything at the start.                                   *)
LEMMA ThemesStart == T!Init => ThemesInv
BY DEF T!Init, ThemesInv, ThemeShape, HolderHasTheLock, Holding, CopyIsCurrent, Stages

(* With one lock, one at a time is between reading and writing,             *)
LEMMA Alone ==
    ASSUME ThemesInv, NEW p \in T!People, NEW q \in T!People, Holding(p), Holding(q)
    PROVE  p = q
<1>1. T!HomeOf(p) = T!HomeOf(q)
  BY HomeIsAnInstance, OneInstance
<1> QED BY <1>1 DEF ThemesInv, HolderHasTheLock

(* and nobody while the lock is free.                                       *)
LEMMA NobodyHolds ==
    ASSUME ThemesInv, NEW p \in T!People, T!Free(tLock, p), NEW q \in T!People
    PROVE  ~Holding(q)
<1>1. T!HomeOf(p) = T!HomeOf(q)
  BY HomeIsAnInstance, OneInstance
<1> QED BY <1>1, NoneIsNothing DEF ThemesInv, HolderHasTheLock, T!Free

-----------------------------------------------------------------------------
(* A step of p that leaves the theme and its lock alone, and after which p  *)
(* has at hand what its stage needs.                                        *)
LEMMA StepsAside ==
    ASSUME ThemesInv, NEW p \in T!People, NEW stage \in Stages \ {"saving", "deciding"},
           T!Move(p, stage), ~Holding(p), tCompleted' \subseteq Calls, UNCHANGED <<tTheme, tLock>>,
           \A q \in T!People \ {p} : tCopy'[q] = tCopy[q],
           tCopy' = [q \in T!People |-> tCopy'[q]],
           stage = "asking" => tCopy'[p] \in [calls : SUBSET Calls],
           stage = "remembering" => tCopy'[p].calls \subseteq Calls,
           stage = "storing" => tCopy'[p] \in [calls : SUBSET Calls, found : SUBSET Calls]
    PROVE  ThemesInv'
<1>1. tAt'[p] = stage /\ \A q \in T!People \ {p} : tAt'[q] = tAt[q]
  BY DEF T!Move, ThemesInv, ThemeShape
<1>2. tAt' \in [T!People -> Stages]
  BY DEF T!Move, ThemesInv, ThemeShape
<1>3. ThemeShape'
  BY <1>2 DEF ThemesInv, ThemeShape
<1>4. HolderHasTheLock'
  BY <1>1 DEF ThemesInv, HolderHasTheLock, Holding, T!HomeOf
<1>5. CopyIsCurrent'
  <2>1. ASSUME NEW q \in T!People \ {p}
        PROVE  tCopy'[q] = tCopy[q] /\ tAt'[q] = tAt[q] /\ q \in T!People
    BY <1>1
  <2> QED BY <1>1, <2>1 DEF ThemesInv, CopyIsCurrent
<1> QED BY <1>3, <1>4, <1>5 DEF ThemesInv

(* A step that takes the free lock and reads the theme.                     *)
LEMMA TakesGood ==
    ASSUME ThemesInv, NEW p \in T!People, NEW stage \in {"saving", "deciding"},
           T!Move(p, stage), T!Take(tLock, p), NEW c, tCopy' = [tCopy EXCEPT ![p] = c],
           UNCHANGED <<tCompleted, tTheme>>,
           stage = "saving" =>
             c \in [calls : SUBSET Calls, found : SUBSET Calls, existing : {tTheme}],
           stage = "deciding" => c \in Candidates
    PROVE  ThemesInv'
<1>1. tAt'[p] = stage /\ tAt' \in [T!People -> Stages] /\ \A q \in T!People \ {p} : tAt'[q] = tAt[q]
  BY DEF T!Move, ThemesInv, ThemeShape, Stages
<1>2. /\ tCopy'[p] = c /\ tCopy' = [q \in T!People |-> tCopy'[q]]
      /\ \A q \in T!People \ {p} : tCopy'[q] = tCopy[q]
  BY DEF ThemesInv, ThemeShape
<1>3. tLock'[T!HomeOf(p)] = p /\ tLock' \in [Instances -> T!People \cup {None}]
  BY HomeIsAnInstance DEF T!Take, ThemesInv, ThemeShape
<1>4. \A q \in T!People : ~Holding(q)
  BY NobodyHolds DEF T!Take
<1>5. HolderHasTheLock'
  <2>1. \A q \in T!People \ {p} : tAt'[q] \notin {"saving", "deciding"}
    BY <1>1, <1>4 DEF Holding
  <2> QED BY <1>3, <2>1 DEF HolderHasTheLock, Holding, T!HomeOf
<1>6. CopyIsCurrent'
  <2>1. ASSUME NEW q \in T!People \ {p}
        PROVE  /\ tCopy'[q] = tCopy[q] /\ tAt'[q] = tAt[q] /\ q \in T!People
               /\ tAt[q] \notin {"saving", "deciding"}
    BY <1>1, <1>2, <1>4 DEF Holding
  <2>2. stage = "saving" =>
            /\ c \in [calls : SUBSET Calls, found : SUBSET Calls, existing : Candidates \cup {None}]
            /\ c.existing = tTheme
    BY DEF ThemesInv, ThemeShape
  <2> QED BY <1>1, <1>2, <2>1, <2>2 DEF ThemesInv, CopyIsCurrent
<1> QED BY <1>1, <1>2, <1>3, <1>5, <1>6 DEF ThemesInv, ThemeShape

(* A step that writes the theme, or fails to, and gives the lock back.      *)
LEMMA ReleasesGood ==
    ASSUME ThemesInv, NEW p \in T!People, Holding(p), T!Release(tLock, p),
           NEW stage \in {"rest", "remembering", "ending"}, T!Move(p, stage),
           tTheme' \in Candidates \cup {None}, UNCHANGED tCompleted,
           \A q \in T!People \ {p} : tCopy'[q] = tCopy[q],
           tCopy' = [q \in T!People |-> tCopy'[q]],
           stage = "remembering" => tCopy'[p].calls \subseteq Calls
    PROVE  ThemesInv'
<1>1. tAt'[p] = stage /\ tAt' \in [T!People -> Stages] /\ \A q \in T!People \ {p} : tAt'[q] = tAt[q]
  BY DEF T!Move, ThemesInv, ThemeShape, Stages
<1>2. tLock' \in [Instances -> T!People \cup {None}]
  BY DEF T!Release, ThemesInv, ThemeShape
<1>3. \A q \in T!People \ {p} : tAt[q] \notin {"saving", "deciding"}
  BY Alone DEF Holding
<1>4. HolderHasTheLock'
  BY <1>1, <1>3 DEF HolderHasTheLock, Holding
<1>5. CopyIsCurrent'
  <2>1. ASSUME NEW q \in T!People \ {p}
        PROVE  /\ tCopy'[q] = tCopy[q] /\ tAt'[q] = tAt[q] /\ q \in T!People
               /\ tAt[q] \notin {"saving", "deciding"}
    BY <1>1, <1>3
  <2> QED BY <1>1, <2>1 DEF ThemesInv, CopyIsCurrent
<1> QED BY <1>1, <1>2, <1>4, <1>5 DEF ThemesInv, ThemeShape

-----------------------------------------------------------------------------
(* Each step keeps the invariant.                                           *)
LEMMA ThemesStep == ThemesInv /\ [T!Next]_tVars => ThemesInv'
<1> SUFFICES ASSUME ThemesInv, [T!Next]_tVars PROVE ThemesInv'
  OBVIOUS
<1>0. /\ tCompleted \subseteq Calls /\ tTheme \in Candidates \cup {None}
      /\ tCopy = [p \in T!People |-> tCopy[p]]
      /\ T!Runners \subseteq T!People /\ T!Workers \subseteq T!Runners /\ Hands \subseteq T!Runners
      /\ Supervisors \subseteq T!People
  BY DEF ThemesInv, ThemeShape, T!People, T!Runners
<1>1. tCompleted' \subseteq Calls /\ UNCHANGED <<tTheme, tLock, tAt, tCopy>> => ThemesInv'
  BY DEF ThemesInv, ThemeShape, HolderHasTheLock, Holding, CopyIsCurrent
<1>2. ASSUME NEW c \in Calls, T!Completes(c) \/ T!Request(c) PROVE ThemesInv'
  BY <1>0, <1>1, <1>2 DEF T!Completes, T!Request, T!store
<1>3. ASSUME NEW i \in T!Workers, T!Wakes(i) PROVE ThemesInv'
  <2>1. ~Holding(i)
    BY <1>3 DEF T!Wakes, Holding
  <2> QED BY <1>0, <1>3, <2>1, StepsAside DEF T!Wakes, T!store, Stages
<1>4. ASSUME NEW i \in T!Workers, T!StartInBackground(i) PROVE ThemesInv'
  <2>1. ~Holding(i)
    BY <1>4 DEF T!StartInBackground, Holding
  <2>2. PICK stage \in {"reading", "rest"} : T!Move(i, stage)
    BY <1>4 DEF T!StartInBackground
  <2> QED BY <1>0, <1>4, <2>1, <2>2, StepsAside DEF T!StartInBackground, Stages
<1>5. ASSUME NEW h \in Hands, T!StartByHand(h) PROVE ThemesInv'
  <2>1. ~Holding(h)
    BY <1>5 DEF T!StartByHand, Holding
  <2> QED BY <1>0, <1>5, <2>1, StepsAside DEF T!StartByHand, T!store, Stages
<1>6. ASSUME NEW r \in T!Runners, T!Read(r) PROVE ThemesInv'
  <2>1. ~Holding(r)
    BY <1>6 DEF T!Read, Holding
  <2>2. PICK stage \in {"ending", "remembering", "asking"} : T!Move(r, stage)
    BY <1>6 DEF T!Read
  <2>3. /\ tCopy' = [tCopy EXCEPT ![r] = [calls |-> tCompleted]]
        /\ UNCHANGED <<tCompleted, tTheme, tLock>>
    BY <1>6 DEF T!Read, T!store
  <2>4. /\ tCopy'[r] = [calls |-> tCompleted] /\ tCopy' = [p \in T!People |-> tCopy'[p]]
        /\ \A p \in T!People \ {r} : tCopy'[p] = tCopy[p]
    BY <1>0, <2>3
  <2> QED BY <1>0, <2>1, <2>2, <2>3, <2>4, StepsAside DEF Stages
<1>7. ASSUME NEW r \in T!Runners, T!Ask(r) PROVE ThemesInv'
  <2>1. /\ ~Holding(r) /\ tCopy[r] \in [calls : SUBSET Calls]
        /\ UNCHANGED <<tCompleted, tTheme, tLock>>
    BY <1>0, <1>7 DEF T!Ask, Holding, ThemesInv, CopyIsCurrent, T!store
  <2>2. CASE UNCHANGED tCopy /\ (T!Move(r, "remembering") \/ T!Move(r, "ending"))
    <3>1. tCopy[r].calls \subseteq Calls
      BY <2>1
    <3> QED BY <1>0, <2>1, <2>2, <3>1, StepsAside DEF Stages
  <2>3. ASSUME NEW found \in SUBSET tCopy[r].calls,
               tCopy' = [tCopy EXCEPT ![r] = [calls |-> @.calls, found |-> found]],
               T!Move(r, "storing")
        PROVE  ThemesInv'
    <3>1. /\ tCopy'[r] = [calls |-> tCopy[r].calls, found |-> found]
          /\ tCopy' = [p \in T!People |-> tCopy'[p]]
          /\ \A p \in T!People \ {r} : tCopy'[p] = tCopy[p]
      BY <1>0, <2>3
    <3>2. tCopy'[r] \in [calls : SUBSET Calls, found : SUBSET Calls]
      BY <2>1, <3>1
    <3> QED BY <1>0, <2>1, <2>3, <3>1, <3>2, StepsAside DEF Stages
  <2> QED BY <1>7, <2>2, <2>3 DEF T!Ask
<1>8. ASSUME NEW r \in T!Runners, T!Look(r) PROVE ThemesInv'
  <2> DEFINE c == [calls |-> tCopy[r].calls, found |-> tCopy[r].found, existing |-> tTheme]
  <2>1. tCopy[r] \in [calls : SUBSET Calls, found : SUBSET Calls]
    BY <1>0, <1>8 DEF T!Look, ThemesInv, CopyIsCurrent
  <2>2. c \in [calls : SUBSET Calls, found : SUBSET Calls, existing : {tTheme}]
    BY <2>1
  <2>3. /\ T!Take(tLock, r) /\ T!Move(r, "saving") /\ UNCHANGED <<tCompleted, tTheme>>
        /\ tCopy' = [tCopy EXCEPT ![r] = c]
    BY <1>8 DEF T!Look, T!store
  <2> HIDE DEF c
  <2> QED BY <1>0, <2>2, <2>3, TakesGood
<1>9. ASSUME NEW r \in T!Runners, T!Store(r) PROVE ThemesInv'
  <2>1. /\ tCopy[r] \in [calls : SUBSET Calls, found : SUBSET Calls,
                         existing : Candidates \cup {None}]
        /\ r \in T!People /\ Holding(r)
    BY <1>0, <1>9 DEF T!Store, Holding, ThemesInv, CopyIsCurrent
  <2>2. tTheme' \in Candidates \cup {None}
    <3>1. CASE tCopy[r].existing = None
      BY <1>9, <2>1, <3>1 DEF T!Store, Candidates, T!Statuses
    <3>2. CASE tCopy[r].existing \in Candidates
      <4>1. [tCopy[r].existing EXCEPT !.calls = tCopy[r].found] \in Candidates
        BY <2>1, <3>2 DEF Candidates
      <4> QED BY <1>9, <3>1, <4>1 DEF T!Store
    <3> QED BY <2>1, <3>1, <3>2
  <2>3. T!Release(tLock, r) /\ T!Move(r, "remembering") /\ UNCHANGED <<tCompleted, tCopy>>
    BY <1>9 DEF T!Store
  <2>4. tCopy[r].calls \subseteq Calls
    BY <2>1
  <2> QED BY <1>0, <2>1, <2>2, <2>3, <2>4, ReleasesGood
<1>10. ASSUME NEW r \in T!Runners, T!StoreFails(r) PROVE ThemesInv'
  <2>1. Holding(r)
    BY <1>10 DEF T!StoreFails, Holding
  <2> QED BY <1>0, <1>10, <2>1, ReleasesGood DEF T!StoreFails, T!store
<1>11. ASSUME NEW r \in T!Runners, T!Remember(r) PROVE ThemesInv'
  <2>1. ~Holding(r)
    BY <1>11 DEF T!Remember, Holding
  <2> QED BY <1>0, <1>11, <2>1, StepsAside DEF T!Remember, Stages
<1>12. ASSUME NEW r \in T!Runners, T!EndRun(r) PROVE ThemesInv'
  <2>1. ~Holding(r)
    BY <1>12 DEF T!EndRun, Holding
  <2>2. /\ tCopy' = [p \in T!People |-> tCopy'[p]]
        /\ \A p \in T!People \ {r} : tCopy'[p] = tCopy[p]
    BY <1>0, <1>12 DEF T!EndRun
  <2> QED BY <1>0, <1>12, <2>1, <2>2, StepsAside DEF T!EndRun, Stages
<1>13. CASE T!RunLockExpires
  BY <1>0, <1>1, <1>13 DEF T!RunLockExpires
<1>14. ASSUME NEW s \in Supervisors, NEW decision \in T!Statuses, T!OpenReview(s, decision)
       PROVE  ThemesInv'
  <2> DEFINE c == [tTheme EXCEPT !.status = decision]
  <2>1. c \in Candidates
    BY <1>0, <1>14 DEF T!OpenReview, Candidates
  <2>2. /\ T!Take(tLock, s) /\ T!Move(s, "deciding") /\ UNCHANGED <<tCompleted, tTheme>>
        /\ tCopy' = [tCopy EXCEPT ![s] = c]
    BY <1>14 DEF T!OpenReview, T!store
  <2> HIDE DEF c
  <2> QED BY <1>0, <2>1, <2>2, TakesGood
<1>15. ASSUME NEW s \in Supervisors, T!SaveReview(s) PROVE ThemesInv'
  <2>1. Holding(s) /\ tTheme' \in Candidates
    BY <1>0, <1>15 DEF T!SaveReview, Holding, ThemesInv, CopyIsCurrent
  <2>2. /\ tCopy' = [p \in T!People |-> tCopy'[p]]
        /\ \A p \in T!People \ {s} : tCopy'[p] = tCopy[p]
    BY <1>0, <1>15 DEF T!SaveReview
  <2> QED BY <1>0, <1>15, <2>1, <2>2, ReleasesGood DEF T!SaveReview
<1>16. CASE UNCHANGED tVars
  BY <1>0, <1>1, <1>16 DEF tVars
<1> QED BY <1>2, <1>3, <1>4, <1>5, <1>6, <1>7, <1>8, <1>9, <1>10, <1>11, <1>12, <1>13,
           <1>14, <1>15, <1>16 DEF T!Next, T!Run

-----------------------------------------------------------------------------
(* One step does to the theme what DecisionStands says.                     *)
Stands == tTheme # None /\ tTheme'.status # tTheme.status
          => \E s \in Supervisors : tAt[s] = "deciding" /\ tTheme' = tCopy[s]

(* By what is stored being what a run read before it stores.                *)
LEMMA StepsStand == ThemesInv /\ [T!Next]_tVars => Stands
<1> SUFFICES ASSUME ThemesInv, T!Next, tTheme # None PROVE Stands
  BY DEF Stands, tVars
<1>1. CASE tTheme' = tTheme
  BY <1>1 DEF Stands
<1>2. ASSUME NEW r \in T!Runners, T!Store(r) PROVE Stands
  <2>1. tCopy[r].existing = tTheme /\ tTheme \in Candidates
    BY <1>2 DEF T!Store, ThemesInv, CopyIsCurrent, ThemeShape, T!People
  <2>2. tTheme' = [tTheme EXCEPT !.calls = tCopy[r].found]
    BY <1>2, <2>1 DEF T!Store
  <2>3. tTheme'.status = tTheme.status
    BY <2>1, <2>2 DEF Candidates
  <2> QED BY <2>3 DEF Stands
<1>3. ASSUME NEW s \in Supervisors, T!SaveReview(s) PROVE Stands
  BY <1>3 DEF T!SaveReview, Stands
<1>4. \/ tTheme' = tTheme
      \/ \E r \in T!Runners : T!Store(r)
      \/ \E s \in Supervisors : T!SaveReview(s)
  BY DEF T!Next, T!Run, T!store, T!Completes, T!Request, T!Wakes, T!StartInBackground,
     T!StartByHand, T!Read,
         T!Ask, T!Look, T!StoreFails, T!Remember, T!EndRun, T!RunLockExpires, T!OpenReview
<1> QED BY <1>1, <1>2, <1>3, <1>4


-----------------------------------------------------------------------------
(* Live analysis (LiveAnalysis): while none failed to be stored and no two  *)
(* ran at once, one analysis is under way, and what it is about to save     *)
(* keeps the tone that is shown.                                            *)
IsAnalysis(s) == s = [tone |-> s.tone, questions |-> s.questions, estimate |-> s.estimate]

OneAtATime(runs) == \A r, q \in runs : lAt[r] # "rest" /\ lAt[q] # "rest" => r = q

(* An analysis that has made what it will save.                             *)
HasMade(r) == lAt[r] \in {"questions", "showing", "checking", "saving", "refreshed"}
KeepsTheTone(r) == lSnapshot.tone = "found" => lMade[r].tone = "found"

AnalysisInv ==
    LET runs == L!Runs IN
    /\ lAt = [r \in runs |-> lAt[r]]
    /\ lMade = [r \in runs |-> lMade[r]]
    /\ IsAnalysis(lSnapshot) /\ \A r \in runs : IsAnalysis(lMade[r])
    /\ ~lMixed => OneAtATime(runs)
    /\ ~lMixed /\ ~lEnded => \A r \in runs : HasMade(r) => KeepsTheTone(r)

LEMMA AnalysisStart == L!Init => AnalysisInv
BY DEF L!Init, L!Blank, AnalysisInv, IsAnalysis, OneAtATime, HasMade, KeepsTheTone

(* A step of one run that leaves what is shown alone.                       *)
LEMMA OneGoesOn ==
    ASSUME AnalysisInv, NEW r \in L!Runs, NEW stage, L!Move(r, stage),
           NEW m, IsAnalysis(m), lMade' = [lMade EXCEPT ![r] = m], UNCHANGED lSnapshot,
           lMixed => lMixed', lEnded => lEnded',
           lAt[r] # "rest" \/ stage = "rest"
             \/ lMixed' \/ \A q \in L!Runs \ {r} : lAt[q] = "rest",
           lMixed' \/ lEnded' \/ (lSnapshot.tone = "found" => m.tone = "found")
             \/ stage \notin {"questions", "showing", "checking", "saving", "refreshed"}
    PROVE  AnalysisInv'
<1> DEFINE runs == L!Runs
<1>1. lAt' = [lAt EXCEPT ![r] = stage]
  BY DEF L!Move
<1>2. /\ lAt'[r] = stage /\ lMade'[r] = m
      /\ \A q \in runs \ {r} : lAt'[q] = lAt[q] /\ lMade'[q] = lMade[q]
      /\ lAt' = [q \in runs |-> lAt'[q]] /\ lMade' = [q \in runs |-> lMade'[q]]
  BY <1>1 DEF AnalysisInv
<1>3. IsAnalysis(lSnapshot') /\ \A q \in runs : IsAnalysis(lMade'[q])
  BY <1>2 DEF AnalysisInv
<1>4. ~lMixed' => OneAtATime(runs)'
  BY <1>2 DEF AnalysisInv, OneAtATime, L!Runs
<1>5. ASSUME ~lMixed', ~lEnded', NEW q \in runs, HasMade(q)' PROVE KeepsTheTone(q)'
  BY <1>2, <1>5 DEF AnalysisInv, HasMade, KeepsTheTone
<1> QED BY <1>2, <1>3, <1>4, <1>5 DEF AnalysisInv, L!Runs

(* A step of one run that may show what it has made.                        *)
LEMMA OneIsShown ==
    ASSUME AnalysisInv, NEW r \in L!Runs, lAt[r] # "rest", NEW stage,
           L!Move(r, stage), L!SaveSnapshot(lMade[r]), HasMade(r), NEW m, IsAnalysis(m),
           lMade' = [lMade EXCEPT ![r] = m], UNCHANGED lEnded,
           stage = "rest" \/ m = lMade[r]
    PROVE  AnalysisInv'
<1>1. lMixed => lMixed'
  BY DEF L!SaveSnapshot, L!StoreWorks, L!StoreFails
<1>2. CASE UNCHANGED lSnapshot
  <2>1. lMixed' \/ lEnded' \/ (lSnapshot.tone = "found" => m.tone = "found") \/ stage = "rest"
    BY <1>1 DEF AnalysisInv, KeepsTheTone
  <2> QED BY <1>1, <1>2, <2>1, OneGoesOn
<1>3. CASE lSnapshot' = lMade[r] /\ UNCHANGED lMixed
  <2> DEFINE runs == L!Runs
  <2>1. lAt' = [lAt EXCEPT ![r] = stage]
    BY DEF L!Move
  <2>2. /\ lAt'[r] = stage /\ lMade'[r] = m
        /\ \A q \in runs \ {r} : lAt'[q] = lAt[q] /\ lMade'[q] = lMade[q]
        /\ lAt' = [q \in runs |-> lAt'[q]] /\ lMade' = [q \in runs |-> lMade'[q]]
    BY <2>1 DEF AnalysisInv
  <2>3. IsAnalysis(lSnapshot') /\ \A q \in runs : IsAnalysis(lMade'[q])
    BY <1>3, <2>2 DEF AnalysisInv
  <2>4. ~lMixed' => OneAtATime(runs)'
    BY <1>3, <2>2 DEF AnalysisInv, OneAtATime, L!Runs
  <2>5. ASSUME ~lMixed', ~lEnded', NEW q \in runs, HasMade(q)' PROVE KeepsTheTone(q)'
    <3>1. CASE q = r
      BY <1>3, <2>2, <2>5, <3>1 DEF HasMade, KeepsTheTone
    <3>2. CASE q # r
      BY <1>3, <2>2, <2>5, <3>2 DEF AnalysisInv, OneAtATime, HasMade
    <3> QED BY <3>1, <3>2
  <2> QED BY <2>2, <2>3, <2>4, <2>5 DEF AnalysisInv, L!Runs
<1> QED BY <1>2, <1>3 DEF L!SaveSnapshot, L!StoreWorks

(* What is made, with other questions or another estimate, has the same     *)
(* tone.                                                                    *)
LEMMA ToneWith ==
    ASSUME NEW s, IsAnalysis(s), NEW value
    PROVE  /\ IsAnalysis([s EXCEPT !.questions = value])
           /\ IsAnalysis([s EXCEPT !.estimate = value])
           /\ [s EXCEPT !.questions = value].tone = s.tone
           /\ [s EXCEPT !.estimate = value].tone = s.tone
<1>1. PICK t, q, e : s = [tone |-> t, questions |-> q, estimate |-> e]
  BY DEF IsAnalysis
<1>2. /\ [s EXCEPT !.questions = value] = [tone |-> t, questions |-> value, estimate |-> e]
      /\ [s EXCEPT !.estimate = value] = [tone |-> t, questions |-> q, estimate |-> value]
  BY <1>1
<1> QED BY <1>1, <1>2 DEF IsAnalysis

LEMMA BlankIsOne == IsAnalysis(L!Blank)
BY DEF IsAnalysis, L!Blank

(* A run that goes on as it is, or rests.                                   *)
LEMMA OneMoves ==
    ASSUME AnalysisInv, NEW r \in L!Runs, NEW stage, L!Move(r, stage),
           UNCHANGED <<lMade, lSnapshot>>, lMixed => lMixed', lEnded => lEnded',
           stage \notin {"questions", "showing", "checking", "saving", "refreshed"},
           lAt[r] # "rest" \/ lMixed' \/ \A q \in L!Runs \ {r} : lAt[q] = "rest"
    PROVE  AnalysisInv'
<1>1. lMade' = [lMade EXCEPT ![r] = lMade[r]] /\ IsAnalysis(lMade[r])
  BY DEF AnalysisInv
<1> QED BY <1>1, OneGoesOn

LEMMA OneRests ==
    ASSUME AnalysisInv, NEW r \in L!Runs, L!Rest(r),
           UNCHANGED lSnapshot, lMixed => lMixed', lEnded => lEnded'
    PROVE  AnalysisInv'
BY OneGoesOn, BlankIsOne DEF L!Rest

LEMMA AnalyseKeeps ==
    ASSUME AnalysisInv, NEW r \in L!Runs, NEW found,
           NEW tone \in {"unusable", "found"}, L!Analyse(r, found, tone)
    PROVE  AnalysisInv'
<1>1. PICK readable, drafted, stage :
        LET earlier == IF readable THEN lSnapshot ELSE L!Blank
            draft == [tone |-> L!KeepingEarlier(tone, earlier.tone),
                      questions |-> IF drafted = None THEN <<>> ELSE drafted,
                      estimate |-> lSeen[r].heard]
        IN  /\ lMade' = [lMade EXCEPT ![r] = draft]
            /\ L!Move(r, stage)
            /\ IF readable THEN L!StoreWorks ELSE L!StoreFails
  BY DEF L!Analyse
<1> DEFINE earlier == IF readable THEN lSnapshot ELSE L!Blank
           draft == [tone |-> L!KeepingEarlier(tone, earlier.tone),
                     questions |-> IF drafted = None THEN <<>> ELSE drafted,
                     estimate |-> lSeen[r].heard]
<1>2. /\ lMade' = [lMade EXCEPT ![r] = draft] /\ L!Move(r, stage)
      /\ UNCHANGED lSnapshot /\ lAt[r] # "rest"
      /\ lEnded => lEnded'
      /\ lMixed => lMixed'
  BY <1>1 DEF L!Analyse, L!StoreWorks, L!StoreFails, L!call
<1>3. IsAnalysis(draft) /\ draft.tone = L!KeepingEarlier(tone, earlier.tone)
  BY DEF IsAnalysis
<1>4. lMixed' \/ (lSnapshot.tone = "found" => draft.tone = "found")
  BY <1>1, <1>3 DEF L!StoreFails, L!KeepingEarlier
<1> HIDE DEF draft
<1> QED BY <1>2, <1>3, <1>4, OneGoesOn

LEMMA ContinuingKeeps ==
    ASSUME AnalysisInv, NEW r \in L!Runs, L!Continues(r)
    PROVE  AnalysisInv'
<1>0. IsAnalysis(lMade[r]) /\ lMade' = [q \in L!Runs |-> lMade'[q]]
  BY DEF AnalysisInv, L!Continues, L!ShowDrafted, L!Checked, L!AskQuestions,
     L!SaveAnalysis, L!Rest
<1>1. CASE L!ShowDrafted(r)
  <2>1. /\ lAt[r] # "rest" /\ HasMade(r) /\ L!SaveSnapshot(lMade[r]) /\ L!Move(r, "checking")
        /\ lMade' = [lMade EXCEPT ![r] = lMade[r]] /\ UNCHANGED lEnded
    BY <1>1 DEF L!ShowDrafted, HasMade, AnalysisInv, L!call
  <2> QED BY <1>0, <2>1, OneIsShown
<1>2. CASE L!Checked(r) \/ L!AskQuestions(r)
  <2>1. PICK list, stage : /\ lMade' = [lMade EXCEPT ![r].questions = list]
                           /\ L!Move(r, stage)
    BY <1>2 DEF L!Checked, L!AskQuestions
  <2>2. /\ UNCHANGED <<lSnapshot, lMixed, lEnded>> /\ HasMade(r) /\ lAt[r] # "rest"
    BY <1>2 DEF L!Checked, L!AskQuestions, HasMade, L!call
  <2>3. PICK m : m = [lMade[r] EXCEPT !.questions = list]
    OBVIOUS
  <2>4. /\ lMade' = [lMade EXCEPT ![r] = m] /\ IsAnalysis(m) /\ m.tone = lMade[r].tone
    BY <1>0, <2>1, <2>3, ToneWith
  <2>5. lMixed' \/ lEnded' \/ (lSnapshot.tone = "found" => m.tone = "found")
    BY <2>2, <2>4 DEF AnalysisInv, KeepsTheTone
  <2> QED BY <2>1, <2>2, <2>4, <2>5, OneGoesOn
<1>3. CASE L!SaveAnalysis(r)
  <2>1. /\ lAt[r] # "rest" /\ HasMade(r) /\ L!SaveSnapshot(lMade[r]) /\ L!Move(r, "rest")
        /\ lMade' = [lMade EXCEPT ![r] = L!Blank] /\ UNCHANGED lEnded
    BY <1>3 DEF L!SaveAnalysis, HasMade, L!Rest, L!call
  <2> QED BY <2>1, OneIsShown, BlankIsOne
<1> QED BY <1>1, <1>2, <1>3 DEF L!Continues

LEMMA FailingKeeps ==
    ASSUME AnalysisInv, NEW r \in L!Runs, L!AnalysisFails(r)
    PROVE  AnalysisInv'
<1>1. /\ lAt[r] # "rest" /\ UNCHANGED <<lSnapshot, lEnded>>
      /\ \/ L!Move(r, "refreshing") /\ UNCHANGED <<lMade, lMixed>>
         \/ L!Rest(r) /\ lMixed'
  BY DEF L!AnalysisFails, L!call
<1>2. CASE L!Move(r, "refreshing") /\ UNCHANGED <<lMade, lMixed>>
  BY <1>1, <1>2, OneMoves
<1>3. CASE L!Rest(r) /\ lMixed'
  BY <1>1, <1>3, OneRests
<1> QED BY <1>1, <1>2, <1>3

LEMMA LiveKeeps == AnalysisInv /\ L!LiveStep => AnalysisInv'
<1> SUFFICES ASSUME AnalysisInv, L!LiveStep PROVE AnalysisInv'
  OBVIOUS
<1>0. "live" \in L!Runs /\ IsAnalysis(lSnapshot) /\ IsAnalysis(lMade["live"])
      /\ lMade = [r \in L!Runs |-> lMade[r]]
  BY DEF AnalysisInv, L!Runs
<1>1. CASE L!Start
  <2>1. /\ UNCHANGED <<lSnapshot, lEnded, lMade>>
        /\ lMixed => lMixed'
    BY <1>1 DEF L!Start, L!call
  <2>2. CASE UNCHANGED lAt
    BY <2>1, <2>2 DEF AnalysisInv, OneAtATime, HasMade, KeepsTheTone
  <2>3. ASSUME NEW stage \in {"refreshing", "asking"}, L!Move("live", stage) PROVE AnalysisInv'
    <3>1. lMixed' \/ \A q \in L!Runs \ {"live"} : lAt[q] = "rest"
      BY <1>1 DEF L!Start, L!Runs
    <3> QED BY <1>0, <2>1, <2>3, <3>1, OneMoves
  <2> QED BY <1>1, <2>2, <2>3 DEF L!Start
<1>2. CASE L!Discard
  BY <1>0, <1>2, OneRests DEF L!Discard, L!call
<1>3. CASE L!LoadToRefresh
  <2>1. UNCHANGED <<lSnapshot, lMixed, lEnded>> /\ lAt["live"] # "rest"
    BY <1>3 DEF L!LoadToRefresh, L!call
  <2>2. CASE L!Rest("live")
    BY <1>0, <2>1, <2>2, OneRests
  <2>3. CASE /\ lMade' = [lMade EXCEPT !["live"] =
                            [lSnapshot EXCEPT !.estimate = lSeen["live"].heard]]
             /\ L!Move("live", "refreshed")
    <3>1. PICK m : m = [lSnapshot EXCEPT !.estimate = lSeen["live"].heard]
      OBVIOUS
    <3>2. lMade' = [lMade EXCEPT !["live"] = m] /\ IsAnalysis(m) /\ m.tone = lSnapshot.tone
      BY <1>0, <2>3, <3>1, ToneWith
    <3> QED BY <1>0, <2>1, <2>3, <3>2, OneGoesOn
  <2> QED BY <1>3, <2>2, <2>3 DEF L!LoadToRefresh
<1>4. CASE L!SaveRefreshed
  <2>1. /\ lAt["live"] # "rest" /\ HasMade("live") /\ L!SaveSnapshot(lMade["live"])
        /\ L!Move("live", "rest") /\ lMade' = [lMade EXCEPT !["live"] = L!Blank]
        /\ UNCHANGED lEnded
    BY <1>4 DEF L!SaveRefreshed, HasMade, L!Rest, L!call
  <2> QED BY <1>0, <2>1, OneIsShown, BlankIsOne
<1>5. CASE L!Steps("live")
  BY <1>0, <1>5, AnalyseKeeps, FailingKeeps, ContinuingKeeps DEF L!Steps, L!Asks
<1> QED BY <1>1, <1>2, <1>3, <1>4, <1>5 DEF L!LiveStep

LEMMA AnalysisStep == AnalysisInv /\ [L!Next]_lVars => AnalysisInv'
<1> SUFFICES ASSUME AnalysisInv, [L!Next]_lVars PROVE AnalysisInv'
  OBVIOUS
<1>1. ASSUME UNCHANGED <<lAt, lMade, lSnapshot, lMixed>>, lEnded => lEnded' PROVE AnalysisInv'
  BY <1>1 DEF AnalysisInv, OneAtATime, HasMade, KeepsTheTone
<1>2. CASE L!Speak \/ L!HandleQuestion \/ L!EndCall
  BY <1>1, <1>2 DEF L!Speak, L!HandleQuestion, L!EndCall
<1>3. CASE L!ForgetLiveResult
  <2>1. /\ UNCHANGED <<lAt, lMade, lEnded>> /\ lEnded /\ IsAnalysis(lSnapshot')
        /\ lMixed => lMixed'
    BY <1>3, BlankIsOne DEF L!ForgetLiveResult, L!call, L!StoreWorks, L!StoreFails,
       AnalysisInv
  <2> QED BY <2>1 DEF AnalysisInv, OneAtATime
<1>4. ASSUME NEW h \in Enterers, L!EnterByHand(h) PROVE AnalysisInv'
  <2>1. /\ L!Move(h, "asking") /\ UNCHANGED <<lMade, lSnapshot, lEnded>>
        /\ lMixed => lMixed'
        /\ lMixed' \/ \A q \in L!Runs \ {h} : lAt[q] = "rest"
    BY <1>4 DEF L!EnterByHand
  <2> QED BY <2>1, OneMoves DEF L!Runs
<1>5. ASSUME NEW h \in Enterers, L!Steps(h) PROVE AnalysisInv'
  BY <1>5, AnalyseKeeps, FailingKeeps, ContinuingKeeps DEF L!Steps, L!Asks, L!Runs
<1>6. CASE UNCHANGED lVars
  BY <1>1, <1>6 DEF lVars
<1> QED BY <1>2, <1>3, <1>4, <1>5, <1>6, LiveKeeps DEF L!Next

(* What is saved keeps the tone found.                                      *)
LEMMA SavingKeepsTheTone ==
    ASSUME AnalysisInv, NEW r \in L!Runs, HasMade(r), L!SaveSnapshot(lMade[r])
    PROVE  L!ToneStands
BY DEF L!SaveSnapshot, L!StoreWorks, L!StoreFails, AnalysisInv, KeepsTheTone, L!ToneStands

LEMMA ToneStep == AnalysisInv /\ [L!Next]_lVars => L!ToneStands
<1> SUFFICES ASSUME AnalysisInv, L!Next PROVE L!ToneStands
  BY DEF lVars, L!ToneStands
<1>1. CASE UNCHANGED lSnapshot
  BY <1>1 DEF L!ToneStands
<1>2. CASE L!ForgetLiveResult
  BY <1>2 DEF L!ForgetLiveResult, L!ToneStands
<1>3. ASSUME NEW r \in L!Runs, L!ShowDrafted(r) \/ L!SaveAnalysis(r) PROVE L!ToneStands
  BY <1>3, SavingKeepsTheTone DEF L!ShowDrafted, L!SaveAnalysis, HasMade
<1>4. CASE L!SaveRefreshed
  BY <1>4, SavingKeepsTheTone DEF L!SaveRefreshed, HasMade, L!Runs
<1>5. ASSUME NEW r \in L!Runs, L!Steps(r) PROVE L!ToneStands
  BY <1>1, <1>3, <1>5 DEF L!Steps, L!Asks, L!Analyse, L!AnalysisFails, L!Continues,
     L!Checked,
     L!AskQuestions
<1> QED BY <1>1, <1>2, <1>4, <1>5 DEF L!Next, L!LiveStep, L!Speak, L!HandleQuestion,
   L!EndCall,
       L!EnterByHand, L!Start, L!Discard, L!LoadToRefresh, L!Runs
-----------------------------------------------------------------------------
(* The parts together: each keeps what it needs, the one that moves by its  *)
(* steps and the rest by standing still.                                    *)
BackOfficeInv ==
    /\ ThemesInv /\ BoardInv /\ AnalysisInv
    /\ part = "browser" => ScreenInv /\ StoreInv(Screen)
    /\ part = "listing" => StoreInv(Listing)

LEMMA EachMovesOrRests ==
    ASSUME [Next]_vars
    PROVE  /\ [T!Next]_tVars /\ [B!Next]_bVars
           /\ [L!Next]_lVars
           /\ part = "browser" => [C(Screen)!Next]_cVars
           /\ part = "listing" => [C(Listing)!Next]_cVars
           /\ part' = part
<1>1. CASE UNCHANGED vars
  BY <1>1 DEF vars
<1>2. CASE Next
  BY <1>2 DEF Next, Themes, Prices, Board, Browser, Archive, Analysis
<1> QED BY <1>1, <1>2

LEMMA BackOfficeStart == Init => BackOfficeInv
<1> SUFFICES ASSUME Init PROVE BackOfficeInv
  OBVIOUS
<1>1. T!Init /\ B!Init /\ L!Init
  BY DEF Init
<1>2. ThemesInv /\ BoardInv /\ AnalysisInv
  BY <1>1, ThemesStart, BoardStart, AnalysisStart
<1>3. ASSUME part = "browser" PROVE ScreenInv /\ StoreInv(Screen)
  <2>1. C(Screen)!Init /\ C(Screen)!BrowserAssumption
    BY <1>3, PartsAssumption DEF Init
  <2> QED BY <2>1, ScreenStart, StoreStart
<1>4. ASSUME part = "listing" PROVE StoreInv(Listing)
  <2>1. C(Listing)!Init
    BY <1>4 DEF Init
  <2> QED BY <2>1, StoreStart
<1> QED BY <1>2, <1>3, <1>4 DEF BackOfficeInv

LEMMA BackOfficeStep == BackOfficeInv /\ [Next]_vars => BackOfficeInv'
<1> SUFFICES ASSUME BackOfficeInv, [Next]_vars PROVE BackOfficeInv'
  OBVIOUS
<1>1. ThemesInv'
  BY EachMovesOrRests, ThemesStep DEF BackOfficeInv
<1>2. BoardInv'
  BY EachMovesOrRests, BoardStep DEF BackOfficeInv
<1>3. AnalysisInv'
  BY EachMovesOrRests, AnalysisStep DEF BackOfficeInv
<1>4. ASSUME part' = "browser" PROVE ScreenInv' /\ StoreInv(Screen)'
  <2>1. C(Screen)!BrowserAssumption /\ ScreenInv /\ StoreInv(Screen) /\ [C(Screen)!Next]_cVars
    BY <1>4, EachMovesOrRests, PartsAssumption DEF BackOfficeInv
  <2> QED BY <2>1, ScreenStep, StoreStep
<1>5. ASSUME part' = "listing" PROVE StoreInv(Listing)'
  <2>1. StoreInv(Listing) /\ [C(Listing)!Next]_cVars
    BY <1>5, EachMovesOrRests DEF BackOfficeInv
  <2> QED BY <2>1, StoreStep
<1> QED BY <1>1, <1>2, <1>3, <1>4, <1>5 DEF BackOfficeInv

(* The live board shows no calls but those of the filters chosen            *)
(* (live_monitoring.py, useLiveCalls.ts), the list of calls keeps each      *)
(* filter chosen (CallBrowser.tsx), and the store in memory and PostgreSQL  *)
(* find the same calls, by the moment the last open complaint of a call was *)
(* resolved (call_listing.py, call_listing_query.py).                       *)
THEOREM ListsStand == Spec => []ListsAreTheChosen
<1>1. Spec => []BackOfficeInv
  BY BackOfficeStart, BackOfficeStep, PTL DEF Spec
<1>2. BackOfficeInv => ListsAreTheChosen
  <2> SUFFICES ASSUME BackOfficeInv PROVE ListsAreTheChosen
    OBVIOUS
  <2>1. part = "board" => B!ShowsTheChosen
    BY BoardShows DEF BackOfficeInv
  <2>2. ASSUME part = "browser" PROVE C(Screen)!ChoicesAreKept /\ C(Screen)!StoresAgree
    <3>1. C(Screen)!BrowserAssumption /\ ScreenInv /\ StoreInv(Screen)
      BY <2>2, PartsAssumption DEF BackOfficeInv
    <3> QED BY <3>1, ScreenKeepsChoices, StoresSayTheSame
  <2>3. ASSUME part = "listing" PROVE C(Listing)!StoresAgree
    <3>1. C(Listing)!BrowserAssumption /\ StoreInv(Listing)
      BY <2>3, PartsAssumption DEF BackOfficeInv
    <3> QED BY <3>1, StoresSayTheSame
  <2> QED BY <2>1, <2>2, <2>3 DEF ListsAreTheChosen
<1> QED BY <1>1, <1>2, PTL

(* On one instance no run of discovery, of the executor or of a person,     *)
(* takes back what a supervisor decided of a theme while the run was under  *)
(* way (emerging_complaint_service.py, _store and review); and no unusable  *)
(* answer, refresh of the estimate or line entered by hand takes back the   *)
(* tone found of a call (call_workflow_service.py).                         *)
THEOREM DecisionsStand == Spec => DecisionStands
<1>1. Spec => []BackOfficeInv
  BY BackOfficeStart, BackOfficeStep, PTL DEF Spec
<1>2. BackOfficeInv /\ [Next]_vars => [Stands]_(T!vars) /\ [L!ToneStands]_lVars
  BY EachMovesOrRests, StepsStand, ToneStep DEF BackOfficeInv
<1>3. Spec => [][Stands]_(T!vars) /\ [][L!ToneStands]_lVars
  BY <1>1, <1>2, PTL DEF Spec
<1> QED BY <1>3 DEF DecisionStands, T!DecisionStands, Stands
=============================================================================
