------------------------------ MODULE CustomerLink ------------------------------
(***************************************************************************)
(* Who one call is with: the caller's number, the customer the CRM has for *)
(* it and the vehicle chosen, read and linked by requests that each ask the*)
(* CRM between reading the link and writing it (call_customer_service.py), *)
(* and the CRM read from a file that changes (crm/json_file_directory.py). *)
(* The lock of the service makes each of its sections one step.            *)
(***************************************************************************)
EXTENDS Naturals, FiniteSets

CONSTANTS
    Numbers, Customers,
    Vehicles,       \* of each customer: the vehicles
    Contents,       \* of the CRM's file: the number of each customer, None without one
    Askers,         \* requests that look the customer up
    Identifiers,    \* requests that set the number by hand
    Choosers,       \* requests that choose a vehicle
    MaxEdits,       \* changes of the CRM's file
    None

Requests == Askers \cup Identifiers \cup Choosers

LinkAssumption ==
    /\ Contents \subseteq [Customers -> Numbers \cup {None}]
    /\ \A c, d \in Customers : c # d => Vehicles[c] \cap Vehicles[d] = {}

VARIABLES
    file,       \* the CRM's file: one of its contents, None while half-written
    edits,      \* its stamp
    stamp,      \* the stamp of the file as last read
    unreadable, \* the stamp of a file that could not be read, or None
    data,       \* the numbers as last read
    link,       \* CallCustomerLink
    at,         \* the step each request is at
    read,       \* of each request: the link it read
    found,      \* of each request: the customer it found, or None
    chosen,     \* requests that have made their choice of a vehicle
    matches,    \* every number and customer the CRM has matched
    strayed     \* a choice has put the customer of one number to another

directory == <<file, edits, stamp, unreadable, data>>
history == <<matches, strayed>>
vars == <<directory, link, at, read, found, chosen, history>>

Links == [number : Numbers \cup {None}, customer : Customers \cup {None},
          vehicle : (UNION {Vehicles[c] : c \in Customers}) \cup {None},
          registration : (UNION {Vehicles[c] : c \in Customers}) \cup {None}]
NoLink == [number |-> None, customer |-> None, vehicle |-> None, registration |-> None]

Init ==
    /\ file \in Contents
    /\ edits = 0 /\ stamp = 0 /\ unreadable = None
    /\ data = file
    /\ \E n \in Numbers \cup {None} : link = [NoLink EXCEPT !.number = n]
    /\ at = [r \in Requests |-> "start"]
    /\ read = [r \in Requests |-> NoLink]
    /\ found = [r \in Requests |-> None]
    /\ chosen = {} /\ matches = {} /\ strayed = FALSE

-----------------------------------------------------------------------------
(* The directory                                                            *)

Edit(content) ==
    /\ edits < MaxEdits
    /\ file' = content
    /\ edits' = edits + 1
    /\ UNCHANGED <<stamp, unreadable, data, link, at, read, found, chosen, history>>

\* Mutant: after a file that cannot be read, no other is tried.
CheckOnce ==
    /\ edits # stamp
    /\ unreadable = None
    /\ IF file = None
       THEN unreadable' = edits /\ UNCHANGED <<stamp, data>>
       ELSE stamp' = edits /\ data' = file /\ UNCHANGED unreadable
    /\ UNCHANGED <<file, edits, link, at, read, found, chosen, history>>

(* _current, once RELOAD_CHECK_SECONDS have passed: a file that cannot be   *)
(* read leaves what was read before.                                        *)
Check ==
    /\ edits \notin {stamp, unreadable}
    /\ IF file = None
       THEN unreadable' = edits /\ UNCHANGED <<stamp, data>>
       ELSE stamp' = edits /\ unreadable' = None /\ data' = file
    /\ UNCHANGED <<file, edits, link, at, read, found, chosen, history>>

(* by_phone: nobody is matched by a number that several customers share.    *)
ByPhone(n) ==
    LET those == {c \in Customers : data[c] = n}
    IN  IF Cardinality(those) = 1 THEN CHOOSE c \in those : TRUE ELSE None

Known(c) == c # None /\ data[c] # None
VehiclesOf(c) == IF Known(c) THEN Vehicles[c] ELSE {}

-----------------------------------------------------------------------------
(* The service                                                              *)

Move(r, stage) == at' = [at EXCEPT ![r] = stage]

(* get: the link, and then the CRM                                          *)
Read(r) ==
    /\ at[r] = IF r \in Identifiers \cup chosen THEN "changed" ELSE "start"
    /\ read' = [read EXCEPT ![r] = link]
    /\ Move(r, "asking")
    /\ UNCHANGED <<directory, link, found, chosen, history>>

(* _find_customer: the one remembered on the call, or by the number.        *)
Find(r) ==
    /\ at[r] = "asking"
    /\ LET n == read[r].number
           c == IF Known(read[r].customer) THEN read[r].customer
                ELSE IF n = None THEN None ELSE ByPhone(n)
       IN  /\ found' = [found EXCEPT ![r] = c]
           /\ matches' = IF c \in {None, read[r].customer} THEN matches
                         ELSE matches \cup {<<n, c>>}
           /\ Move(r, IF c = None THEN "answered" ELSE "found")
    /\ UNCHANGED <<directory, link, read, chosen, strayed>>

(* CrmUnavailableError                                                      *)
Unavailable(r) ==
    /\ at[r] = "asking"
    /\ Move(r, "answered")
    /\ UNCHANGED <<directory, link, read, found, chosen, history>>

(* _selected_vehicle                                                        *)
SelectedVehicle(l, vehicles) ==
    IF l.vehicle \in vehicles THEN l.vehicle
    ELSE IF Cardinality(vehicles) = 1 THEN CHOOSE v \in vehicles : TRUE ELSE None

Snapshot(l, r) ==
    [l EXCEPT !.customer = found[r],
              !.registration = SelectedVehicle(read[r], VehiclesOf(found[r]))]

\* Mutant: the snapshot is stored whatever has become of the number.
StoreAnyway(r) ==
    /\ at[r] = "found"
    /\ link' = Snapshot(link, r)
    /\ Move(r, "answered")
    /\ UNCHANGED <<directory, read, found, chosen, history>>

(* _store_snapshot: not when the number was changed while the CRM was      *)
(* asked.                                                                  *)
Store(r) ==
    /\ at[r] = "found"
    /\ link' = IF Snapshot(read[r], r) = read[r] \/ link.number # read[r].number
               THEN link ELSE Snapshot(link, r)
    /\ Move(r, "answered")
    /\ UNCHANGED <<directory, read, found, chosen, history>>

Answered(r) ==
    /\ at[r] = "answered" /\ r \notin Choosers \ chosen
    /\ Move(r, "done")
    /\ read' = [read EXCEPT ![r] = NoLink]
    /\ found' = [found EXCEPT ![r] = None]
    /\ UNCHANGED <<directory, link, chosen, history>>

(* identify: the number first, and no customer.                             *)
Identify(r, n) ==
    /\ r \in Identifiers
    /\ at[r] = "start"
    /\ link' = [NoLink EXCEPT !.number = n]
    /\ Move(r, "changed")
    /\ UNCHANGED <<directory, read, found, chosen, history>>

(* select_vehicle: refused for a customer unknown, or a vehicle not theirs; *)
(* otherwise the link gets the customer its own get has found, whatever has *)
(* become of the number, and is read once more.                             *)
RefuseChoice(r) ==
    /\ at[r] = "answered" /\ r \in Choosers \ chosen
    /\ Move(r, "done")
    /\ read' = [read EXCEPT ![r] = NoLink]
    /\ found' = [found EXCEPT ![r] = None]
    /\ UNCHANGED <<directory, link, chosen, history>>

Choose(r) ==
    /\ at[r] = "answered" /\ r \in Choosers \ chosen
    /\ \/ /\ found[r] = None
          /\ link' = [NoLink EXCEPT !.number = link.number]
       \/ /\ found[r] # None
          /\ \E v \in Vehicles[found[r]] \cup {None} :
                link' = [link EXCEPT !.customer = found[r], !.vehicle = v]
    /\ strayed' = (strayed \/ (found[r] # None /\ link.number # read[r].number))
    /\ chosen' = chosen \cup {r}
    /\ Move(r, "changed")
    /\ found' = [found EXCEPT ![r] = None]
    /\ UNCHANGED <<directory, read, matches>>

Next ==
    \/ \E content \in Contents \cup {None} : Edit(content)
    \/ Check
    \/ \E r \in Requests : \/ Read(r) \/ Find(r) \/ Unavailable(r) \/ Store(r) \/ Answered(r)
                           \/ RefuseChoice(r) \/ Choose(r)
                           \/ \E n \in Numbers : Identify(r, n)

Spec == Init /\ [][Next]_vars

(* Requests keep coming, and each looks at the file's stamp first.          *)
Fairness == WF_vars(Check)

FairSpec == Spec /\ Fairness

-----------------------------------------------------------------------------
TypeOK ==
    /\ file \in Contents \cup {None} /\ data \in Contents
    /\ {edits, stamp} \subseteq 0..MaxEdits /\ unreadable \in 0..MaxEdits \cup {None}
    /\ link \in Links
    /\ at \in [Requests -> {"start", "changed", "asking", "found", "answered", "done"}]
    /\ read \in [Requests -> Links]
    /\ found \in [Requests -> Customers \cup {None}]
    /\ chosen \subseteq Choosers

(* "This customer belongs to the old number.  Storing them would undo the  *)
(* change, and they would then stick": the customer linked to the call is  *)
(* one the CRM has had for the number the call has now, however lookups,   *)
(* choices and changes of the number overlap and whatever the CRM's file   *)
(* becomes, but for a choice of a vehicle during which the number changed, *)
(* which is not looked at.                                                 *)
CustomerIsTheNumbers ==
    link.customer # None /\ ~strayed => <<link.number, link.customer>> \in matches

(* "An edit needs no restart": once the file can be read, it is what the    *)
(* directory answers from, also after it was caught half-written.           *)
DirectoryFollows == <>[](file # None => data = file)
=============================================================================
