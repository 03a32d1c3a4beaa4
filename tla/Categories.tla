------------------------------- MODULE Categories -------------------------------
(***************************************************************************)
(* The complaint categories: the built-in ones, every theme a supervisor   *)
(* accepted and those an administrator added, under the names and with the *)
(* retirements an administrator decided (complaint_category_catalog.py,    *)
(* complaint_category_admin.py, EmergingComplaintService.review).  One     *)
(* instance; what a category means is left out, its names and its use are  *)
(* not.                                                                    *)
(***************************************************************************)
EXTENDS Naturals, FiniteSets

CONSTANTS
    Names,          \* folded: two names that differ in case are one
    Themes, AdminKeys,
    Other,          \* the built-in category, and its name
    Deciders,       \* requests of administrators and supervisors
    Readers,        \* threads that look a category up
    MaxDecisions, MaxFailures,
    None

CategoriesAssumption == Other \in Names /\ {MaxDecisions, MaxFailures} \subseteq Nat

VARIABLES
    accepted,   \* of each theme: the name it is accepted as, or None
    managed,    \* of each key: the administrator's row, or None
    held,       \* the catalog: the entries it answers with,
    fresh,      \* whether loaded_at is set and recent,
    hasRead,
    refreshing, \* and who has _refresh_lock
    at, copy,
    decisions, failures

stored == <<accepted, managed>>
catalog == <<held, fresh, hasRead, refreshing>>
vars == <<stored, catalog, at, copy, decisions, failures>>

Keys == Themes \cup AdminKeys \cup {Other}
Rows == [name : Names, former : SUBSET Names, retired : BOOLEAN]
Entries == [key : Keys, name : Names, former : SUBSET Names, retired : BOOLEAN]
Threads == Deciders \cup Readers

Entry(key, row) == [key |-> key, name |-> row.name, former |-> row.former, retired |-> row.retired]
Named(n) == [name |-> n, former |-> {}, retired |-> FALSE]

(* _read: the entries there are for these rows and these accepted themes.   *)
EntriesOf(rows, themes) ==
    { Entry(Other, [Named(Other) EXCEPT !.retired = rows[Other] # None /\ rows[Other].retired]) }
    \cup { Entry(t, IF rows[t] = None THEN Named(themes[t]) ELSE rows[t]) :
             t \in {u \in Themes : themes[u] # None} }
    \cup { Entry(k, rows[k]) : k \in {a \in AdminKeys : rows[a] # None} }

(* conflicting_name, of the category of key                                 *)
Taken(n, key) ==
    \E e \in EntriesOf(managed, accepted) : e.key # key /\ n \in {e.name} \cup e.former

Init ==
    /\ accepted = [t \in Themes |-> None]
    /\ managed = [k \in Keys |-> None]
    /\ held = EntriesOf(managed, accepted)
    /\ fresh = FALSE
    /\ hasRead = FALSE
    /\ refreshing = None
    /\ at = [x \in Threads |-> "rest"]
    /\ copy = [x \in Threads |-> None]
    /\ decisions = 0
    /\ failures = 0

Move(x, stage) == at' = [at EXCEPT ![x] = stage]
Failure == failures < MaxFailures /\ failures' = failures + 1

-----------------------------------------------------------------------------
(* What a request may ask for, checked against the repositories: the row it *)
(* changes, or the theme it reviews.                                        *)
Decide(d, decision) ==
    /\ at[d] = "rest"
    /\ decisions < MaxDecisions
    /\ decisions' = decisions + 1
    /\ copy' = [copy EXCEPT ![d] = decision]
    /\ Move(d, "saving")
    /\ UNCHANGED <<stored, catalog, failures>>

(* review: accepting takes a free name; rejecting or reopening an accepted *)
(* theme takes it away.                                                    *)
Accept(d, t, n) ==
    /\ accepted[t] = None
    /\ ~Taken(n, t)
    /\ Decide(d, [theme |-> t, name |-> n])

Withdraw(d, t) ==
    /\ accepted[t] # None
    /\ Decide(d, [theme |-> t, name |-> None])

(* add                                                                      *)
Add(d, k, n) ==
    /\ managed[k] = None
    /\ ~Taken(n, k)
    /\ Decide(d, [key |-> k, entry |-> Entry(k, Named(n)), fields |-> {}])

(* rename: a name it goes back to is no longer a former one.                *)
Rename(d, e, n) ==
    /\ e.key # Other
    /\ n # e.name
    /\ ~Taken(n, e.key)
    /\ Decide(d, [key |-> e.key, fields |-> {"name", "former"},
                  entry |-> [e EXCEPT !.name = n, !.former = (@ \cup {e.name}) \ {n}]])

(* retire, restore; the last resort for a complaint stays in use.           *)
Retire(d, e, retired) ==
    /\ e.key # Other
    /\ e.retired # retired
    /\ Decide(d, [key |-> e.key, fields |-> {"retired"}, entry |-> [e EXCEPT !.retired = retired]])

(* describe: no more here than that the row it makes pins the name.         *)
Describe(d, e) ==
    /\ e.key # Other
    /\ managed[e.key] = None
    /\ Decide(d, [key |-> e.key, fields |-> {}, entry |-> e])

(* _save: a row there is changes in the fields asked for only.              *)
Merged(key, entry, fields) ==
    LET row == IF managed[key] = None THEN entry ELSE managed[key]
    IN  [f \in {"name", "former", "retired"} |-> IF f \in fields THEN entry[f] ELSE row[f]]

Save(d) ==
    /\ at[d] = "saving"
    /\ IF "theme" \in DOMAIN copy[d]
       THEN accepted' = [accepted EXCEPT ![copy[d].theme] = copy[d].name] /\ UNCHANGED managed
       ELSE /\ managed' = [managed EXCEPT ![copy[d].key] =
                             Merged(copy[d].key, copy[d].entry, copy[d].fields)]
            /\ UNCHANGED accepted
    /\ copy' = [copy EXCEPT ![d] = None]
    /\ Move(d, "announcing")
    /\ UNCHANGED <<catalog, decisions, failures>>

(* invalidate                                                               *)
Announce(d) ==
    /\ at[d] = "announcing"
    /\ fresh' = FALSE
    /\ Move(d, "rest")
    /\ UNCHANGED <<stored, held, hasRead, refreshing, copy, decisions, failures>>

-----------------------------------------------------------------------------
(* _refresh_if_stale: stale entries are read again by one thread; before   *)
(* the first read the others wait for it, later they answer with what is   *)
(* held.                                                                   *)
Refresh(r) ==
    /\ at[r] = "rest"
    /\ ~fresh
    /\ refreshing = None
    /\ refreshing' = r
    /\ fresh' = TRUE
    /\ Move(r, "reading")
    /\ UNCHANGED <<stored, held, hasRead, copy, decisions, failures>>

ReadManaged(r) ==
    /\ at[r] = "reading"
    /\ copy' = [copy EXCEPT ![r] = managed]
    /\ Move(r, "reading themes")
    /\ UNCHANGED <<stored, catalog, decisions, failures>>

\* Mutant: stamped when the entries are held, not before they are read.
HoldAndStamp(r) ==
    /\ at[r] = "reading themes"
    /\ held' = EntriesOf(copy[r], accepted)
    /\ hasRead' = TRUE
    /\ fresh' = TRUE
    /\ refreshing' = None
    /\ copy' = [copy EXCEPT ![r] = None]
    /\ Move(r, "rest")
    /\ UNCHANGED <<stored, decisions, failures>>

Hold(r) ==
    /\ at[r] = "reading themes"
    /\ held' = EntriesOf(copy[r], accepted)
    /\ hasRead' = TRUE
    /\ refreshing' = None
    /\ copy' = [copy EXCEPT ![r] = None]
    /\ Move(r, "rest")
    /\ UNCHANGED <<stored, fresh, decisions, failures>>

(* A read that fails leaves what is held, until the cache has aged.         *)
ReadFails(r) ==
    /\ at[r] \in {"reading", "reading themes"}
    /\ Failure
    /\ refreshing' = None
    /\ copy' = [copy EXCEPT ![r] = None]
    /\ Move(r, "rest")
    /\ UNCHANGED <<stored, held, fresh, hasRead, decisions>>

CacheAges ==
    /\ fresh
    /\ fresh' = FALSE
    /\ UNCHANGED <<stored, held, hasRead, refreshing, at, copy, decisions, failures>>

Next ==
    \/ \E d \in Deciders :
         \/ \E t \in Themes : Withdraw(d, t) \/ \E n \in Names : Accept(d, t, n)
         \/ \E k \in AdminKeys, n \in Names : Add(d, k, n)
         \/ \E e \in EntriesOf(managed, accepted) :
              \/ \E n \in Names : Rename(d, e, n)
              \/ \E retired \in BOOLEAN : Retire(d, e, retired)
              \/ Describe(d, e)
         \/ Save(d) \/ Announce(d)
    \/ \E r \in Readers : Refresh(r) \/ ReadManaged(r) \/ Hold(r) \/ ReadFails(r)
    \/ CacheAges

Spec == Init /\ [][Next]_vars

-----------------------------------------------------------------------------
TypeOK ==
    /\ accepted \in [Themes -> Names \cup {None}]
    /\ \A k \in Keys : managed[k] = None \/ managed[k] \in Rows
    /\ held \subseteq Entries
    /\ {fresh, hasRead} \subseteq BOOLEAN
    /\ refreshing \in Readers \cup {None}
    /\ at \in [Threads -> {"rest", "saving", "announcing", "reading", "reading themes"}]
    /\ decisions \in 0..MaxDecisions /\ failures \in 0..MaxFailures

(* A change is seen at once on its instance: while no read fails, entries  *)
(* that are not due to be read again are those stored, also when the change*)
(* was made and announced during a read that had begun before it.          *)
ChangesShowAtOnce ==
    failures = 0 /\ fresh /\ refreshing = None /\ (\A d \in Deciders : at[d] # "announcing")
    => held = EntriesOf(managed, accepted)

(* conflicting_name: no category gets a name that another has "or had      *)
(* before, so old complaints are never counted under another category".    *)
NamesAreDistinct ==
    \A e, f \in EntriesOf(managed, accepted) :
        e.key # f.key => ({e.name} \cup e.former) \cap ({f.name} \cup f.former) = {}
=============================================================================
