------------------------------- MODULE PriceList --------------------------------
(***************************************************************************)
(* The versions of the price list, and the one each instance of the API    *)
(* prices calls with (price_list_service.py, price_list_repository.py).    *)
(* What a list says is in Estimates; here a list is one of Lists, of which *)
(* those in Valid build.                                                   *)
(***************************************************************************)
EXTENDS Naturals, FiniteSets, FiniteSetsExt

CONSTANTS
    Instances,
    Lists, Valid,
    Sample,         \* the built-in list
    Readers,        \* threads that price a call
    Editors,        \* requests that save or restore
    On,             \* the instance of each
    KeptVersions, MaxVersions, MaxFailures,
    None

PriceListAssumption ==
    /\ Sample \in Valid /\ Valid \subseteq Lists
    /\ On \in [Readers \cup Editors -> Instances]
    /\ KeptVersions \in Nat \ {0} /\ MaxVersions \in Nat /\ MaxFailures \in Nat

VARIABLES
    versions,   \* price_list_versions: of each version number kept, its list
    last,       \* the number given out last
    cached,     \* of each instance: _cached, or None
    fresh,      \* and whether it was read cache_seconds ago or less
    at, copy,
    failures

vars == <<versions, last, cached, fresh, at, copy, failures>>

Threads == Readers \cup Editors

(* get_active: the newest version, or the sample before there is one.       *)
Active == IF versions = << >> THEN Sample ELSE versions[Max(DOMAIN versions)]

Init ==
    /\ versions = << >>
    /\ last = 0
    /\ cached = [i \in Instances |-> None]
    /\ fresh = [i \in Instances |-> FALSE]
    /\ at = [x \in Threads |-> "rest"]
    /\ copy = [x \in Threads |-> None]
    /\ failures = 0

Move(x, stage) == at' = [at EXCEPT ![x] = stage]
Failure == failures < MaxFailures /\ failures' = failures + 1

-----------------------------------------------------------------------------
\* Mutant: a list once read is read no more.
PriceOnce(r) ==
    /\ at[r] = "rest"
    /\ cached[On[r]] = None
    /\ Move(r, "reading")
    /\ UNCHANGED <<versions, last, cached, fresh, copy, failures>>

(* pricing(), where the cache does not answer                               *)
Price(r) ==
    /\ at[r] = "rest"
    /\ cached[On[r]] = None \/ ~fresh[On[r]]
    /\ Move(r, "reading")
    /\ UNCHANGED <<versions, last, cached, fresh, copy, failures>>

(* current()                                                                *)
Read(r) ==
    /\ at[r] = "reading"
    /\ copy' = [copy EXCEPT ![r] = Active]
    /\ Move(r, "keeping")
    /\ UNCHANGED <<versions, last, cached, fresh, failures>>

Keep(r) ==
    /\ at[r] = "keeping"
    /\ cached' = [cached EXCEPT ![On[r]] = copy[r]]
    /\ fresh' = [fresh EXCEPT ![On[r]] = TRUE]
    /\ copy' = [copy EXCEPT ![r] = None]
    /\ Move(r, "rest")
    /\ UNCHANGED <<versions, last, failures>>

(* Where the database cannot be read the last list is kept a while longer.  *)
ReadFails(r) ==
    /\ at[r] = "reading"
    /\ Failure
    /\ fresh' = [fresh EXCEPT ![On[r]] = cached[On[r]] # None]
    /\ Move(r, "rest")
    /\ UNCHANGED <<versions, last, cached, copy>>

CacheAges(i) ==
    /\ fresh[i]
    /\ fresh' = [fresh EXCEPT ![i] = FALSE]
    /\ UNCHANGED <<versions, last, cached, at, copy, failures>>

(* save: a list that does not build is refused.                             *)
Save(e, l) ==
    /\ at[e] = "rest"
    /\ l \in Valid
    /\ copy' = [copy EXCEPT ![e] = l]
    /\ Move(e, "adding")
    /\ UNCHANGED <<versions, last, cached, fresh, failures>>

(* restore: the list of an old version, saved as a new one.                 *)
Restore(e, v) ==
    /\ v \in DOMAIN versions
    /\ Save(e, versions[v])

(* add: a new version, and of the old ones the newest are kept.             *)
Kept(numbers) == {n \in numbers : Cardinality({m \in numbers : m > n}) < KeptVersions}

Add(e) ==
    /\ at[e] = "adding"
    /\ last < MaxVersions
    /\ last' = last + 1
    /\ versions' = [n \in Kept(DOMAIN versions \cup {last + 1}) |->
                      IF n = last + 1 THEN copy[e] ELSE versions[n]]
    /\ Move(e, "using")
    /\ UNCHANGED <<cached, fresh, copy, failures>>

AddFails(e) ==
    /\ at[e] = "adding"
    /\ Failure
    /\ copy' = [copy EXCEPT ![e] = None]
    /\ Move(e, "rest")
    /\ UNCHANGED <<versions, last, cached, fresh>>

(* _use                                                                     *)
Use(e) ==
    /\ at[e] = "using"
    /\ cached' = [cached EXCEPT ![On[e]] = copy[e]]
    /\ fresh' = [fresh EXCEPT ![On[e]] = TRUE]
    /\ copy' = [copy EXCEPT ![e] = None]
    /\ Move(e, "rest")
    /\ UNCHANGED <<versions, last, failures>>

Next ==
    \/ \E r \in Readers : Price(r) \/ Read(r) \/ Keep(r) \/ ReadFails(r)
    \/ \E i \in Instances : CacheAges(i)
    \/ \E e \in Editors :
         \/ \E l \in Lists : Save(e, l)
         \/ \E v \in DOMAIN versions : Restore(e, v)
         \/ Add(e) \/ AddFails(e) \/ Use(e)

Spec == Init /\ [][Next]_vars

(* Calls go on being priced, time passes, and a request goes on.            *)
Fairness ==
    /\ \A r \in Readers : WF_vars(Price(r) \/ Read(r) \/ Keep(r))
    /\ \A i \in Instances : WF_vars(CacheAges(i))
    /\ \A e \in Editors : WF_vars(Add(e) \/ Use(e))

FairSpec == Spec /\ Fairness

-----------------------------------------------------------------------------
TypeOK ==
    /\ DOMAIN versions \subseteq 1..last /\ last \in 0..MaxVersions
    /\ \A n \in DOMAIN versions : versions[n] \in Valid
    /\ cached \in [Instances -> Valid \cup {None}]
    /\ fresh \in [Instances -> BOOLEAN]
    /\ at \in [Threads -> {"rest", "reading", "keeping", "adding", "using"}]
    /\ copy \in [Threads -> Valid \cup {None}]
    /\ failures \in 0..MaxFailures

(* Every instance comes to price with the list that is active, whoever     *)
(* saved it where, and whatever was read or put to use late.               *)
LatestPrices == \A i \in Instances : cached[i] \in {None, Active}
PricesCatchUp == <>[]LatestPrices

(* pricing(): "a save on this instance is used at once".                    *)
SaveIsUsedAtOnce ==
    \A i \in Instances :
        (\A e \in Editors : at[e] # "using") /\ (\A e \in Editors : On[e] = i) /\ versions # << >>
        => cached[i] = Active
=============================================================================
