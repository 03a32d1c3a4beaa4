--------------------------------- MODULE Staff ---------------------------------
(***************************************************************************)
(* The users and the service centres, as administrators change them, whose *)
(* numbers decide whom a phone call rings (user_management_service.py,     *)
(* location_service.py).  Each service checks and writes under a lock of   *)
(* its own, which is its process's.                                        *)
(***************************************************************************)
EXTENDS Naturals, FiniteSets

CONSTANTS
    UserIds, LocationIds, Numbers,
    Requests,       \* requests of administrators
    Instances, On,  \* API instances, and the one each request reaches
    None

StaffAssumption == On \in [Requests -> Instances]

VARIABLES
    users,      \* of each user: the row, or None
    locations,  \* of each location: the row, or None
    userLock,   \* of each instance: who holds UserManagementService._lock
    locationLock,   \* and LocationService._lock
    writing     \* of each request: the row it has checked and will save, or None

rows == <<users, locations>>
locks == <<userLock, locationLock>>
vars == <<rows, locks, writing>>

Users == [admin : BOOLEAN, active : BOOLEAN, target : Numbers \cup {None}]
Locations == [number : Numbers, active : BOOLEAN]

(* bootstrap_admin: one user, who administers.                              *)
Init ==
    /\ \E u \in UserIds :
         users = [v \in UserIds |-> IF v = u THEN [admin |-> TRUE, active |-> TRUE,
                                                   target |-> None]
                                    ELSE None]
    /\ locations = [l \in LocationIds |-> None]
    /\ userLock = [i \in Instances |-> None]
    /\ locationLock = [i \in Instances |-> None]
    /\ writing = [r \in Requests |-> None]

ActiveAdmins == {u \in UserIds : users[u] # None /\ users[u].admin /\ users[u].active}

\* Mutant: a user who is deactivated gives the target up.
FreeOfActive(n, u) ==
    n # None => /\ \A v \in UserIds \ {u} : users[v] # None /\ users[v].active => users[v].target # n
                /\ \A l \in LocationIds : locations[l] # None => locations[l].number # n

(* _free_dial_target and _free_number: by no other of its kind, and by none *)
(* of the other kind.                                                       *)
FreeTarget(n, u) ==
    n # None => /\ \A v \in UserIds \ {u} : users[v] # None => users[v].target # n
                /\ \A l \in LocationIds : locations[l] # None => locations[l].number # n
FreeNumber(n, l) ==
    /\ \A m \in LocationIds \ {l} : locations[m] # None => locations[m].number # n
    /\ \A u \in UserIds : users[u] # None => users[u].target # n

-----------------------------------------------------------------------------
WritesUser(r) == writing[r] # None /\ writing[r].kind = "user"
WritesLocation(r) == writing[r] # None /\ writing[r].kind = "location"

(* create_user                                                              *)
CreateUser(r, u, row) ==
    /\ writing[r] = None
    /\ userLock[On[r]] = None
    /\ users[u] = None
    /\ row.active
    /\ FreeTarget(row.target, u)
    /\ writing' = [writing EXCEPT ![r] = [kind |-> "user", id |-> u, row |-> row]]
    /\ userLock' = [userLock EXCEPT ![On[r]] = r]
    /\ UNCHANGED <<rows, locationLock>>

\* Mutant: it is enough that nobody loses their own role.
LosesNever(u, row) == FALSE

LosesAdmin(u, row) == u \in ActiveAdmins /\ ~(row.admin /\ row.active)

(* update_user, by an administrator as the request was let in: nobody loses *)
(* their own role, and the last active administrator keeps it.              *)
Admitted(r, acting) ==
    /\ writing[r] = None
    /\ acting \in ActiveAdmins
    /\ writing' = [writing EXCEPT ![r] = [kind |-> "admitted", by |-> acting]]
    /\ UNCHANGED <<rows, locks>>

UpdateUser(r, u, row) ==
    /\ writing[r] # None
    /\ writing[r].kind = "admitted"
    /\ userLock[On[r]] = None
    /\ users[u] # None
    /\ u = writing[r].by => row.admin /\ row.active
    /\ LosesAdmin(u, row) => Cardinality(ActiveAdmins) > 1
    /\ row.target # users[u].target => FreeTarget(row.target, u)
    /\ writing' = [writing EXCEPT ![r] = [kind |-> "user", id |-> u, row |-> row]]
    /\ userLock' = [userLock EXCEPT ![On[r]] = r]
    /\ UNCHANGED <<rows, locationLock>>

SaveUser(r) ==
    /\ WritesUser(r)
    /\ users' = [users EXCEPT ![writing[r].id] = writing[r].row]
    /\ writing' = [writing EXCEPT ![r] = None]
    /\ userLock' = [userLock EXCEPT ![On[r]] = None]
    /\ UNCHANGED <<locations, locationLock>>

(* create_location and update_location                                      *)
ChangeLocation(r, l, row) ==
    /\ writing[r] = None
    /\ locationLock[On[r]] = None
    /\ locations[l] = None => row.active
    /\ \/ FreeNumber(row.number, l)
       \/ locations[l] # None /\ row.number = locations[l].number
    /\ writing' = [writing EXCEPT ![r] = [kind |-> "location", id |-> l, row |-> row]]
    /\ locationLock' = [locationLock EXCEPT ![On[r]] = r]
    /\ UNCHANGED <<rows, userLock>>

SaveLocation(r) ==
    /\ WritesLocation(r)
    /\ locations' = [locations EXCEPT ![writing[r].id] = writing[r].row]
    /\ writing' = [writing EXCEPT ![r] = None]
    /\ locationLock' = [locationLock EXCEPT ![On[r]] = None]
    /\ UNCHANGED <<users, userLock>>

(* What the users page and the locations page of an administrator ask for.  *)
UserRequest(r) ==
    \/ \E u \in UserIds, row \in Users : CreateUser(r, u, row) \/ UpdateUser(r, u, row)
    \/ \E u \in UserIds : Admitted(r, u)
    \/ SaveUser(r)
LocationRequest(r) ==
    \/ \E l \in LocationIds, row \in Locations : ChangeLocation(r, l, row)
    \/ SaveLocation(r)

Next == \E r \in Requests : UserRequest(r) \/ LocationRequest(r)

Spec == Init /\ [][Next]_vars

-----------------------------------------------------------------------------
TypeOK ==
    /\ users \in [UserIds -> Users \cup {None}]
    /\ locations \in [LocationIds -> Locations \cup {None}]
    /\ userLock \in [Instances -> Requests \cup {None}]
    /\ locationLock \in [Instances -> Requests \cup {None}]
    /\ DOMAIN writing = Requests

(* "It never lets the last active admin be demoted or deactivated": also    *)
(* when two administrators, both let in, act on each other at once.         *)
AnAdminRemains == ActiveAdmins # {}

(* "The answering executive is known by it": no two users have one target.  *)
TargetsAreDistinct ==
    \A u, v \in UserIds :
        u # v /\ users[u] # None /\ users[v] # None /\ users[u].target # None
        => users[u].target # users[v].target

(* "A call to this number would be sent on to itself": no user is rung on a *)
(* number that customers dial.                                              *)
NoNumberRingsItself ==
    \A u \in UserIds, l \in LocationIds :
        users[u] # None /\ locations[l] # None /\ users[u].target # None
        => users[u].target # locations[l].number
=============================================================================
