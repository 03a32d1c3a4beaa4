-------------------------------- MODULE Estimates --------------------------------
(***************************************************************************)
(* What a call will cost: the rows a supervisor keeps are built into rules *)
(* (price_list.py), the services and the vehicle model a call names are    *)
(* found in them (detection.py, pricing_config.py), and each is priced,    *)
(* less those another already includes (estimation_service.py,             *)
(* service_estimate.py).  A model is the sequence of its words; amounts are*)
(* in paise; quantities and durations, which are checked and carried as    *)
(* prices and labour are, are left out, and keywords are the services they *)
(* mean.                                                                   *)
(***************************************************************************)
EXTENDS Integers, Sequences, SequencesExt, FiniteSets, FiniteSetsExt, Functions

CONSTANTS
    RowChoices, MaxRows,    \* the rows a list is made of
    Replies,                \* the services a detector may name, in order
    Vehicles,               \* what the CRM calls the vehicle; << >>: nothing
    LabourRate, LabourGst, DefaultGst,
    None

VARIABLES rows, reply, vehicle, said, estimate

vars == <<rows, reply, vehicle, said, estimate>>

AllModels == << >>

-----------------------------------------------------------------------------
(* build_pricing_config                                                     *)

\* What is wrong with a row (of its service and model there is no doubt).
PartIsWrong(row) ==
    IF row.part = None THEN row.price # None
    ELSE row.price = None \/ row.price < 0 \/ (row.gst # None /\ row.gst \notin 0..100)

RowIsWrong(row) == row.service = None \/ PartIsWrong(row) \/ (row.labour # None /\ row.labour <= 0)

Group(list, row) == SelectSeq(list, LAMBDA r : r.service = row.service /\ r.model = row.model)
LabourOf(group) == {r.labour : r \in ToSet(group)} \ {None}

Builds(list) ==
    /\ list # << >>
    /\ \A r \in ToSet(list) : ~RowIsWrong(r) /\ Cardinality(LabourOf(Group(list, r))) = 1

ServicesOf(list) == {r.service : r \in ToSet(list)}

\* Covered: what the service includes on any of its rows, if it is sold.
CoveredBy(list, s) ==
    (UNION {r.includes : r \in {q \in ToSet(list) : q.service = s}} \cap ServicesOf(list)) \ {s}

Part(row) == [price |-> row.price, gst |-> IF row.gst = None THEN DefaultGst ELSE row.gst]

Rule(list, row) ==
    LET group == Group(list, row)
        withPart == SelectSeq(group, LAMBDA r : r.part # None)
    IN  [service |-> row.service, model |-> row.model,
         parts |-> [n \in DOMAIN withPart |-> Part(withPart[n])],
         labour |-> CHOOSE h \in LabourOf(group) : TRUE,
         covers |-> CoveredBy(list, row.service)]

\* One rule for each service and model, in the order of their first rows.
Rules(list) ==
    LET Leads(n) == \A o \in 1..n-1 :
                      <<list[o].service, list[o].model>> # <<list[n].service, list[n].model>>
        leaders == SetToSortSeq({n \in DOMAIN list : Leads(n)}, <)
    IN  [k \in DOMAIN leaders |-> Rule(list, list[leaders[k]])]

-----------------------------------------------------------------------------
(* PricingConfig                                                            *)

Models(rules) == {r.model : r \in ToSet(rules)} \ {AllModels}

IsNamedIn(model, words) == \E i, j \in DOMAIN words : SubSeq(words, i, j) = model

(* match_vehicle_model, and mentioned_vehicle_model for the words of a     *)
(* line: the longest model of the list that is named in them.              *)
Matched(rules, words) ==
    LET named == {m \in Models(rules) : IsNamedIn(m, words)}
    IN  IF named = {} THEN AllModels
        ELSE CHOOSE m \in named : \A o \in named : Len(o) <= Len(m)

(* price_for: the model's own rule, else the one for all models.            *)
PriceFor(rules, s, words) ==
    LET of(m) == SelectSeq(rules, LAMBDA r : r.service = s /\ r.model = m)
        own == of(Matched(rules, words))
    IN  IF own # << >> THEN own[1]
        ELSE IF of(AllModels) # << >> THEN of(AllModels)[1] ELSE None

-----------------------------------------------------------------------------
(* EstimationService.estimate_call                                          *)

\* detect: the services of the list a detector named, each once.
Detected(rules, names) ==
    LET known == SelectSeq(names, LAMBDA s : \E r \in ToSet(rules) : r.service = s)
        firsts == {n \in DOMAIN known : known[n] \notin {known[o] : o \in 1..n-1}}
    IN  [k \in DOMAIN SetToSortSeq(firsts, <) |-> known[SetToSortSeq(firsts, <)[k]]]

Priced(rules, names, words) ==
    LET found == Detected(rules, names)
        prices == [n \in DOMAIN found |-> PriceFor(rules, found[n], words)]
    IN  SelectSeq(prices, LAMBDA p : p # None)

\* The vehicle of the CRM, or the model the call named last.
About(rules, crm, line) == IF crm # << >> THEN crm ELSE Matched(rules, line)

\* Mutant: a service is left out only for one named before it.
ChargedInOrder(priced) ==
    LET Before(n) == {priced[k] : k \in 1..n-1}
        kept == {n \in DOMAIN priced : \A p \in Before(n) : priced[n].service \notin p.covers}
    IN  [k \in DOMAIN SetToSortSeq(kept, <) |-> priced[SetToSortSeq(kept, <)[k]]]

Charged(priced) ==
    LET covered == UNION {p.covers : p \in ToSet(priced)}
    IN  SelectSeq(priced, LAMBDA p : p.service \notin covered)

\* Mutant: GST cut off, not rounded.
GstCut(amount, percent) == (amount * percent) \div 100

(* gst_on, to the paisa, half up                                            *)
GstOn(amount, percent) == (amount * percent + 50) \div 100

Total(services) ==
    LET Cost(p) ==
          p.labour * LabourRate + GstOn(p.labour * LabourRate, LabourGst)
          + FoldLeft(LAMBDA sum, part : sum + part.price + GstOn(part.price, part.gst), 0, p.parts)
    IN  FoldLeft(LAMBDA sum, p : sum + Cost(p), 0, services)

Estimate(list, names, crm, line) ==
    LET rules == Rules(list)
        model == About(rules, crm, line)
        services == Charged(Priced(rules, names, model))
    IN  IF services = << >> THEN None
        ELSE [services |-> services, model |-> model, total |-> Total(services)]

-----------------------------------------------------------------------------
Lists == UNION {[1..n -> RowChoices] : n \in 1..MaxRows}

Init ==
    /\ rows \in Lists
    /\ reply \in Replies
    /\ vehicle \in Vehicles
    /\ said \in Vehicles /\ (vehicle # << >> => said = << >>)
    /\ estimate = None

(* A list that does not build is not saved; a call is priced with one that  *)
(* does.                                                                    *)
PriceCall ==
    /\ estimate = None
    /\ Builds(rows)
    /\ estimate' = Estimate(rows, reply, vehicle, said)
    /\ estimate' # None
    /\ UNCHANGED <<rows, reply, vehicle, said>>

Next == PriceCall
Spec == Init /\ [][Next]_vars

-----------------------------------------------------------------------------
Asked == {s \in ToSet(reply) : PriceFor(Rules(rows), s, About(Rules(rows), vehicle, said)) # None}
Includes == [s \in ServicesOf(rows) |-> CoveredBy(rows, s)]

Included(S) == UNION {Includes[s] : s \in S}

\* What the services of S include, directly or through what those include.
Under(S) ==
    FoldSet(LAMBDA n, below : below \cup Included(below), Included(S), 1..Cardinality(ServicesOf(rows)))
NoneIncludesItself == \A s \in ServicesOf(rows) : s \notin Under({s})

ChargedFor == {p.service : p \in ToSet(estimate.services)}

(* "Other services this one already includes (charged once)": every service*)
(* a call needs that has a price is charged once, by itself or in another  *)
(* that includes it, while none includes itself through others.            *)
EachIsCharged ==
    Builds(rows) /\ Asked # {} =>
        LET e == Estimate(rows, reply, vehicle, said)
            charged == {p.service : p \in ToSet(e.services)}
        IN  /\ e # None
            /\ Asked \subseteq charged \cup Under(charged)

ChargedOnce ==
    Builds(rows) /\ NoneIncludesItself =>
        /\ EachIsCharged
        /\ estimate # None =>
             /\ Len(estimate.services) = Cardinality(ChargedFor)
             /\ ChargedFor \cap Included(ChargedFor) = {}

(* What is charged is what the rows say, found without rules: each part on *)
(* a row of the service for the longest model named, or where it has none  *)
(* for that model its rows for all; and tax is rounded by half a paisa a   *)
(* line at most.                                                           *)
LinesOf(s) ==
    LET named == {r.model : r \in ToSet(rows)} \ {AllModels}
        fits == {m \in named : IsNamedIn(m, estimate.model)}
        own == {n \in DOMAIN rows : rows[n].service = s /\ rows[n].model \in fits
                                    /\ \A m \in fits : Len(m) <= Len(rows[n].model)}
    IN  IF own # {} THEN own ELSE {n \in DOMAIN rows : rows[n].service = s /\ rows[n].model = AllModels}

PartsOf(s) == {n \in LinesOf(s) : rows[n].part # None}
HoursOf(s) == Max({rows[n].labour : n \in {k \in LinesOf(s) : rows[k].labour # None}})
GstOf(n) == IF rows[n].gst = None THEN DefaultGst ELSE rows[n].gst

TotalIsFair ==
    estimate # None =>
        LET lines == Cardinality(ChargedFor) + MapThenSumSet(LAMBDA s : Cardinality(PartsOf(s)), ChargedFor)
            exact == MapThenSumSet(LAMBDA s :
                         HoursOf(s) * LabourRate * (100 + LabourGst)
                         + MapThenSumSet(LAMBDA n : rows[n].price * (100 + GstOf(n)), PartsOf(s)),
                       ChargedFor)
        IN  100 * estimate.total - exact \in (-50 * lines)..(50 * lines)
=============================================================================
