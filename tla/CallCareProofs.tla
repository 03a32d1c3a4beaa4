---------------------------- MODULE CallCareProofs -----------------------------
(***************************************************************************)
(* What holds of a call's surroundings (MCCallCare) for any number of       *)
(* requests, users, calls and workers, on the one instance of the API that  *)
(* the harness has.  One section proves the invariant of one part from its  *)
(* own Init and Next; the theorems at the end put the parts together.       *)
(***************************************************************************)
EXTENDS MCCallCare, FiniteSetTheorems, TLAPS

(* Only the chosen part moves, and the choice stays.                        *)
LEMMA PartsStandStill ==
    ASSUME [Next]_vars
    PROVE  /\ part' = part
           /\ (UNCHANGED cVars) \/ (part = "complaints" /\ C!Next)
           /\ (UNCHANGED eVars) \/ (part = "escalation" /\ E!Next)
           /\ (UNCHANGED vVars) \/ (part = "switching" /\ V!Next)
           /\ (UNCHANGED sVars) \/ (part = "staff" /\ S!Next)
           /\ (UNCHANGED wVars) \/ (part = "setup" /\ W!Next)
           /\ (UNCHANGED fVars) \/ (part = "effect" /\ F!Next)
           /\ (UNCHANGED rVars) \/ (part = "reports" /\ R!Next)
           /\ (UNCHANGED pVars) \/ (part = "estimates" /\ P!Next)
           /\ (UNCHANGED tVars) \/ (part = "sheet" /\ T!Next)
BY DEF Next, vars

-----------------------------------------------------------------------------
(* The staff (Staff)                                                        *)

Pending ==
    [kind : {"admitted"}, by : UserIds]
    \cup [kind : {"user"}, id : UserIds, row : S!Users]
    \cup [kind : {"location"}, id : LocationIds, row : S!Locations]

(* Whoever has checked a user holds the one lock of users until it is saved.*)
SaverHasTheLock == \A r \in Requests : S!WritesUser(r) => sUserLock[SOn[r]] = r

(* What was checked still holds: saving the row leaves another              *)
(* administrator, and nobody else has its number.                           *)
CheckStillHolds ==
    \A r \in Requests : S!WritesUser(r) =>
        /\ S!LosesAdmin(sWriting[r].id, sWriting[r].row) =>
             \E v \in S!ActiveAdmins : v # sWriting[r].id
        /\ sWriting[r].row.target # None =>
             \A v \in UserIds \ {sWriting[r].id} :
                 sUsers[v] # None => sUsers[v].target # sWriting[r].row.target

StaffInv ==
    /\ S!TypeOK
    /\ sWriting \in [Requests -> Pending \cup {None}]
    /\ SaverHasTheLock
    /\ CheckStillHolds
    /\ S!AnAdminRemains
    /\ S!TargetsAreDistinct

(* At the start there is one user, who administers.                         *)
LEMMA StaffStarts == S!Init => StaffInv
<1> SUFFICES ASSUME S!Init PROVE StaffInv
  OBVIOUS
<1>1. PICK u \in UserIds :
        sUsers = [v \in UserIds |-> IF v = u THEN [admin |-> TRUE, active |-> TRUE,
                                                   target |-> None]
                                    ELSE None]
  BY DEF S!Init
<1>2. S!TypeOK /\ sWriting \in [Requests -> Pending \cup {None}]
  <2>1. [admin |-> TRUE, active |-> TRUE, target |-> None] \in S!Users
    BY DEF S!Users
  <2> QED BY <1>1, <2>1 DEF S!Init, S!TypeOK
<1>3. \A r \in Requests : ~S!WritesUser(r)
  BY DEF S!Init, S!WritesUser
<1>4. S!AnAdminRemains
  <2>1. u \in S!ActiveAdmins
    <3>1. [admin |-> TRUE, active |-> TRUE, target |-> None] \in S!Users
      BY DEF S!Users
    <3> QED BY <1>1, <3>1, NoneIsNothing DEF S!ActiveAdmins
  <2> QED BY <2>1 DEF S!AnAdminRemains
<1>5. S!TargetsAreDistinct
  BY <1>1 DEF S!TargetsAreDistinct
<1> QED BY <1>2, <1>3, <1>4, <1>5 DEF StaffInv, SaverHasTheLock, CheckStillHolds

(* While the lock is free no user is being written, and otherwise one is.   *)
LEMMA OneUserIsWritten ==
    ASSUME StaffInv, NEW r \in Requests, NEW q \in Requests, S!WritesUser(q)
    PROVE  /\ sUserLock[SOn[r]] # None
           /\ S!WritesUser(r) => r = q
<1>1. SOn[r] = SOn[q]
  BY DEF SOn
<1> QED BY <1>1, NoneIsNothing DEF StaffInv, SaverHasTheLock

(* Two administrators are not one.                                          *)
LEMMA AnotherAdmin ==
    ASSUME NEW u, S!Cardinality(S!ActiveAdmins) > 1
    PROVE  \E v \in S!ActiveAdmins : v # u
<1>1. Cardinality(S!ActiveAdmins) > 1
  BY DEF S!Cardinality, Cardinality
<1>2. CASE S!ActiveAdmins = {}
  BY <1>1, <1>2, FS_EmptySet
<1>3. CASE S!ActiveAdmins = {u}
  BY <1>1, <1>3, FS_Singleton
<1> QED BY <1>2, <1>3

(* A request that has checked a user, and holds the lock for it.            *)
LEMMA ChecksUserGood ==
    ASSUME StaffInv, NEW r \in Requests, NEW u \in UserIds, NEW row \in S!Users,
           sUserLock[SOn[r]] = None,
           S!LosesAdmin(u, row) => \E v \in S!ActiveAdmins : v # u,
           row.target # None =>
             \A v \in UserIds \ {u} : sUsers[v] # None => sUsers[v].target # row.target,
           sWriting' = [sWriting EXCEPT ![r] = [kind |-> "user", id |-> u, row |-> row]],
           sUserLock' = [sUserLock EXCEPT ![SOn[r]] = r],
           UNCHANGED <<sUsers, sLocations, sLocationLock>>
    PROVE  StaffInv'
<1>1. SOn \in [Requests -> Instances]
  BY PartsAssumption DEF S!StaffAssumption
<1>2. \A q \in Requests : ~S!WritesUser(q)
  BY OneUserIsWritten
<1>3. S!TypeOK'
  BY <1>1 DEF StaffInv, S!TypeOK
<1>4. (sWriting \in [Requests -> Pending \cup {None}])'
  BY DEF StaffInv, Pending
<1>5. \A q \in Requests : S!WritesUser(q)' => q = r
  BY <1>2 DEF StaffInv, S!WritesUser
<1>6. SaverHasTheLock'
  BY <1>1, <1>5 DEF SaverHasTheLock, StaffInv, S!TypeOK
<1>7. sWriting'[r].id = u /\ sWriting'[r].row = row
  BY DEF StaffInv
<1>8. S!ActiveAdmins' = S!ActiveAdmins
  BY DEF S!ActiveAdmins
<1>9. CheckStillHolds'
  BY <1>5, <1>7, <1>8 DEF CheckStillHolds, S!LosesAdmin
<1>10. S!AnAdminRemains' /\ S!TargetsAreDistinct'
  BY <1>8 DEF StaffInv, S!AnAdminRemains, S!TargetsAreDistinct
<1> QED BY <1>3, <1>4, <1>6, <1>9, <1>10 DEF StaffInv

(* A step that writes no user, and begins and ends no writing of one.       *)
LEMMA OtherStaffStepsGood ==
    ASSUME StaffInv, S!TypeOK', (sWriting \in [Requests -> Pending \cup {None}])',
           \A r \in Requests : S!WritesUser(r)' => S!WritesUser(r) /\ sWriting'[r] = sWriting[r],
           UNCHANGED <<sUsers, sUserLock>>
    PROVE  StaffInv'
<1>1. S!ActiveAdmins' = S!ActiveAdmins
  BY DEF S!ActiveAdmins
<1>2. SaverHasTheLock'
  BY DEF StaffInv, SaverHasTheLock
<1>3. CheckStillHolds'
  BY <1>1 DEF StaffInv, CheckStillHolds, S!LosesAdmin
<1> QED BY <1>1, <1>2, <1>3 DEF StaffInv, S!AnAdminRemains, S!TargetsAreDistinct

(* The row that is saved is that of its check.                              *)
LEMMA SaveUserGood ==
    ASSUME StaffInv, NEW r \in Requests, S!SaveUser(r)
    PROVE  StaffInv'
<1>1. SOn \in [Requests -> Instances]
  BY PartsAssumption DEF S!StaffAssumption
<1>2. S!WritesUser(r) /\ sWriting[r] \in [kind : {"user"}, id : UserIds, row : S!Users]
  BY DEF S!SaveUser, S!WritesUser, StaffInv, Pending
<1> DEFINE u == sWriting[r].id
           row == sWriting[r].row
<1>3. u \in UserIds /\ row \in S!Users /\ row # None
  BY <1>2, NoneIsNothing
<1>4. sUsers \in [UserIds -> S!Users \cup {None}] /\ sUsers' = [sUsers EXCEPT ![u] = row]
  BY DEF S!SaveUser, StaffInv, S!TypeOK
<1> HIDE DEF u, row
<1>5. S!TypeOK'
  BY <1>1, <1>3, <1>4 DEF S!SaveUser, StaffInv, S!TypeOK
<1>6. (sWriting \in [Requests -> Pending \cup {None}])'
  BY DEF S!SaveUser, StaffInv
<1>7. \A q \in Requests : ~S!WritesUser(q)'
  <2>1. \A q \in Requests : S!WritesUser(q) => q = r
    BY <1>2, OneUserIsWritten
  <2> QED BY <2>1 DEF S!SaveUser, StaffInv, S!WritesUser
<1>8. S!AnAdminRemains'
  <2>1. CASE S!LosesAdmin(u, row)
    <3>1. PICK v \in S!ActiveAdmins : v # u
      BY <1>2, <2>1 DEF StaffInv, CheckStillHolds, u, row
    <3>2. v \in UserIds /\ sUsers'[v] = sUsers[v]
      BY <1>4, <3>1 DEF S!ActiveAdmins
    <3>3. v \in S!ActiveAdmins'
      BY <3>1, <3>2 DEF S!ActiveAdmins
    <3> QED BY <3>3 DEF S!AnAdminRemains
  <2>2. CASE ~S!LosesAdmin(u, row)
    <3>1. PICK v \in S!ActiveAdmins : TRUE
      BY DEF StaffInv, S!AnAdminRemains
    <3>2. CASE v = u
      <4>1. row.admin /\ row.active
        BY <2>2, <3>2 DEF S!LosesAdmin
      <4>2. u \in S!ActiveAdmins'
        BY <1>3, <1>4, <4>1 DEF S!ActiveAdmins
      <4> QED BY <4>2 DEF S!AnAdminRemains
    <3>3. CASE v # u
      <4>1. v \in UserIds /\ sUsers'[v] = sUsers[v]
        BY <1>4, <3>3 DEF S!ActiveAdmins
      <4>2. v \in S!ActiveAdmins'
        BY <4>1 DEF S!ActiveAdmins
      <4> QED BY <4>2 DEF S!AnAdminRemains
    <3> QED BY <3>2, <3>3
  <2> QED BY <2>1, <2>2
<1>9. S!TargetsAreDistinct'
  <2>1. row.target # None =>
          \A v \in UserIds \ {u} : sUsers[v] # None => sUsers[v].target # row.target
    BY <1>2 DEF StaffInv, CheckStillHolds, u, row
  <2>2. sUsers'[u] = row /\ \A v \in UserIds \ {u} : sUsers'[v] = sUsers[v]
    BY <1>3, <1>4
  <2> QED BY <2>1, <2>2 DEF StaffInv, S!TargetsAreDistinct
<1> QED BY <1>5, <1>6, <1>7, <1>8, <1>9 DEF StaffInv, SaverHasTheLock, CheckStillHolds

(* Every step of the staff keeps the invariant.                             *)
LEMMA StaffSteps == StaffInv /\ S!Next => StaffInv'
<1> SUFFICES ASSUME StaffInv, NEW r \in Requests,
                    \/ \E u \in UserIds, row \in S!Users :
                         S!CreateUser(r, u, row) \/ S!UpdateUser(r, u, row)
                    \/ \E u \in UserIds : S!Admitted(r, u)
                    \/ \E l \in LocationIds, row \in S!Locations : S!ChangeLocation(r, l, row)
                    \/ S!SaveUser(r)
                    \/ S!SaveLocation(r)
             PROVE  StaffInv'
  BY DEF S!Next, S!UserRequest, S!LocationRequest
<1>0. SOn \in [Requests -> Instances]
  BY PartsAssumption DEF S!StaffAssumption
<1>1. ASSUME NEW u \in UserIds, NEW row \in S!Users, S!CreateUser(r, u, row) PROVE StaffInv'
  <2>1. u \notin S!ActiveAdmins
    BY <1>1 DEF S!CreateUser, S!ActiveAdmins
  <2> QED BY <1>1, <2>1, ChecksUserGood DEF S!CreateUser, S!rows, S!FreeTarget, S!LosesAdmin
<1>2. ASSUME NEW u \in UserIds, NEW row \in S!Users, S!UpdateUser(r, u, row) PROVE StaffInv'
  <2>1. S!LosesAdmin(u, row) => \E v \in S!ActiveAdmins : v # u
    BY <1>2, AnotherAdmin DEF S!UpdateUser
  <2>2. row.target # None =>
          \A v \in UserIds \ {u} : sUsers[v] # None => sUsers[v].target # row.target
    BY <1>2 DEF S!UpdateUser, S!FreeTarget, StaffInv, S!TargetsAreDistinct
  <2> QED BY <1>2, <2>1, <2>2, ChecksUserGood DEF S!UpdateUser, S!rows
<1>3. ASSUME NEW u \in UserIds, S!Admitted(r, u) PROVE StaffInv'
  <2>1. S!TypeOK'
    BY <1>3 DEF S!Admitted, S!rows, S!locks, StaffInv, S!TypeOK
  <2>2. (sWriting \in [Requests -> Pending \cup {None}])'
    BY <1>3 DEF S!Admitted, StaffInv, Pending
  <2>3. \A q \in Requests : S!WritesUser(q)' => S!WritesUser(q) /\ sWriting'[q] = sWriting[q]
    BY <1>3 DEF S!Admitted, StaffInv, S!WritesUser
  <2> QED BY <1>3, <2>1, <2>2, <2>3, OtherStaffStepsGood DEF S!Admitted, S!rows, S!locks
<1>4. ASSUME NEW l \in LocationIds, NEW row \in S!Locations, S!ChangeLocation(r, l, row)
      PROVE  StaffInv'
  <2>1. S!TypeOK'
    BY <1>0, <1>4 DEF S!ChangeLocation, S!rows, StaffInv, S!TypeOK
  <2>2. (sWriting \in [Requests -> Pending \cup {None}])'
    BY <1>4 DEF S!ChangeLocation, StaffInv, Pending
  <2>3. \A q \in Requests : S!WritesUser(q)' => S!WritesUser(q) /\ sWriting'[q] = sWriting[q]
    BY <1>4 DEF S!ChangeLocation, StaffInv, S!WritesUser
  <2> QED BY <1>4, <2>1, <2>2, <2>3, OtherStaffStepsGood DEF S!ChangeLocation, S!rows
<1>5. ASSUME S!SaveLocation(r) PROVE StaffInv'
  <2>1. sWriting[r] \in [kind : {"location"}, id : LocationIds, row : S!Locations]
    BY <1>5 DEF S!SaveLocation, S!WritesLocation, StaffInv, Pending
  <2>2. S!TypeOK'
    BY <1>0, <1>5, <2>1 DEF S!SaveLocation, StaffInv, S!TypeOK
  <2>3. (sWriting \in [Requests -> Pending \cup {None}])'
    BY <1>5 DEF S!SaveLocation, StaffInv
  <2>4. \A q \in Requests : S!WritesUser(q)' => S!WritesUser(q) /\ sWriting'[q] = sWriting[q]
    BY <1>5 DEF S!SaveLocation, StaffInv, S!WritesUser
  <2> QED BY <1>5, <2>2, <2>3, <2>4, OtherStaffStepsGood DEF S!SaveLocation
<1> QED BY <1>1, <1>2, <1>3, <1>4, <1>5, SaveUserGood

-----------------------------------------------------------------------------
(* The start of a phone call (CallSetup), whose webhooks are answered one   *)
(* at a time.                                                               *)

OneAtATime == \A h, k \in Hooks : h \in W!Working /\ k \in W!Working => h = k

(* Nothing is mapped until a webhook has started a call, and what is mapped *)
(* is what it has started.                                                  *)
MappedOnce ==
    \A h \in Hooks :
        /\ wAt[h] \in {"starting", "mapping"} => wMapping = None
        /\ wAt[h] = "recording" => wOwn[h] = wMapping

SetupInv == W!TypeOK /\ OneAtATime /\ MappedOnce /\ W!AnswersAgree

(* Before a webhook comes nothing is started or mapped.                     *)
LEMMA SetupStarts == W!Init => SetupInv
<1> SUFFICES ASSUME W!Init PROVE SetupInv
  OBVIOUS
<1>1. W!TypeOK
  BY PartsAssumption DEF W!Init, W!TypeOK, W!SetupAssumption, W!CallIds
<1> QED BY <1>1 DEF W!Init, SetupInv, OneAtATime, MappedOnce, W!Working, W!AnswersAgree

(* Whoever rings, a call's customer is one of the two numbers and its       *)
(* executive is known or none.                                              *)
LEMMA RouteIsKnown ==
    ASSUME W!TypeOK
    PROVE  /\ W!Route.outbound \in BOOLEAN
           /\ W!Route.executive \in Executives \cup {None}
           /\ W!Route.customer \in PhoneNumbers
<1>1. CASE W!Caller(wFrom) # {} /\ wTo \notin CentreNumbers
  <2>1. (CHOOSE e \in W!Caller(wFrom) : TRUE) \in Executives
    BY <1>1 DEF W!Caller
  <2> QED BY <1>1, <2>1 DEF W!Route, W!TypeOK
<1>2. CASE ~(W!Caller(wFrom) # {} /\ wTo \notin CentreNumbers)
  BY <1>2 DEF W!Route, W!TypeOK
<1> QED BY <1>1, <1>2

CallRows == [outbound : BOOLEAN, executive : Executives \cup {None},
             customer : PhoneNumbers \cup {None}]

(* Noting who is on it leaves a row a row.                                  *)
LEMMA NotedRow ==
    ASSUME NEW r \in CallRows
    PROVE  /\ \A n \in PhoneNumbers : [r EXCEPT !.customer = n] \in CallRows
           /\ \A e \in Executives : [r EXCEPT !.executive = e] \in CallRows
BY DEF CallRows

(* A call that is there stays, whatever is noted of it.                     *)
LEMMA SetupTypesStay == W!TypeOK /\ W!Next => W!TypeOK'
<1> SUFFICES ASSUME W!TypeOK, W!Next PROVE W!TypeOK'
  OBVIOUS
<1>0. wCalls \in Seq(CallRows)
  BY DEF W!TypeOK, CallRows
<1>1. ASSUME NEW h \in Hooks, W!Arrives(h) PROVE W!TypeOK'
  BY <1>1 DEF W!Arrives, W!Move, W!phone, W!TypeOK, W!CallIds
<1>2. ASSUME NEW h \in Hooks, W!StartCall(h) PROVE W!TypeOK'
  <2> DEFINE row == [outbound |-> W!Route.outbound, executive |-> W!Route.executive,
                     customer |-> None]
  <2>1. row \in CallRows
    BY RouteIsKnown DEF CallRows
  <2> HIDE DEF row
  <2>2. wCalls' = Append(wCalls, row)
    BY <1>2 DEF W!StartCall, row
  <2>3. wCalls' \in Seq(CallRows) /\ DOMAIN wCalls' = DOMAIN wCalls \cup {Len(wCalls) + 1}
    BY <1>0, <2>1, <2>2
  <2> QED BY <1>2, <2>3 DEF W!StartCall, W!Move, W!phone, W!TypeOK, W!CallIds, CallRows
<1>3. ASSUME NEW h \in Hooks, W!SaveMapping(h) PROVE W!TypeOK'
  BY <1>3 DEF W!SaveMapping, W!Move, W!phone, W!TypeOK, W!CallIds
<1>4. ASSUME NEW h \in Hooks, W!Reply(h) PROVE W!TypeOK'
  <2> DEFINE i == wOwn[h]
             row == [wCalls[i] EXCEPT !.customer = W!Route.customer]
  <2>1. wCalls' = wCalls \/ wCalls' = [wCalls EXCEPT ![i] = row]
    BY <1>4 DEF W!Reply
  <2>2. i \in DOMAIN wCalls => row \in CallRows
    <3>1. i \in DOMAIN wCalls => wCalls[i] \in CallRows
      BY <1>0
    <3> QED BY <3>1, RouteIsKnown, NotedRow
  <2> HIDE DEF i, row
  <2>3. wCalls' \in Seq(CallRows) /\ DOMAIN wCalls' = DOMAIN wCalls
    BY <1>0, <2>1, <2>2
  <2> QED BY <1>4, <2>3 DEF W!Reply, W!Move, W!phone, W!TypeOK, W!CallIds, CallRows
<1>5. ASSUME NEW h \in Hooks, W!Fails(h) PROVE W!TypeOK'
  BY <1>5, PartsAssumption DEF W!Fails, W!Move, W!phone, W!TypeOK, W!CallIds,
     W!SetupAssumption
<1>6. ASSUME NEW e \in Executives, W!ExecutiveAnswered(e) PROVE W!TypeOK'
  <2> DEFINE i == wMapping
             row == [wCalls[i] EXCEPT !.executive = e]
  <2>1. wCalls' = wCalls \/ wCalls' = [wCalls EXCEPT ![i] = row]
    BY <1>6 DEF W!ExecutiveAnswered
  <2>2. i \in DOMAIN wCalls => row \in CallRows
    <3>1. i \in DOMAIN wCalls => wCalls[i] \in CallRows
      BY <1>0
    <3> QED BY <3>1, NotedRow
  <2> HIDE DEF i, row
  <2>3. wCalls' \in Seq(CallRows) /\ DOMAIN wCalls' = DOMAIN wCalls
    BY <1>0, <2>1, <2>2
  <2> QED BY <1>6, <2>3 DEF W!ExecutiveAnswered, W!phone, W!TypeOK, W!CallIds, CallRows
<1> QED BY <1>1, <1>2, <1>3, <1>4, <1>5, <1>6 DEF W!Next

(* With one webhook at a time, each that starts a call maps it before the   *)
(* next one looks.                                                          *)
LEMMA SetupSteps == ~Overlapping /\ SetupInv /\ W!Next => SetupInv'
<1> SUFFICES ASSUME ~Overlapping, SetupInv, W!Next PROVE SetupInv'
  OBVIOUS
<1> USE DEF SetupInv, OneAtATime, MappedOnce, W!Working, W!AnswersAgree, W!TypeOK
<1>0. W!TypeOK'
  BY SetupTypesStay
<1>1. ASSUME NEW h \in Hooks, W!Arrives(h) PROVE SetupInv'
  BY <1>0, <1>1 DEF W!Arrives, W!Move
<1>2. ASSUME NEW h \in Hooks, W!StartCall(h) PROVE SetupInv'
  BY <1>0, <1>2 DEF W!StartCall, W!Move
<1>3. ASSUME NEW h \in Hooks, W!SaveMapping(h) PROVE SetupInv'
  BY <1>0, <1>3 DEF W!SaveMapping, W!Move
<1>4. ASSUME NEW h \in Hooks, W!Reply(h) PROVE SetupInv'
  BY <1>0, <1>4 DEF W!Reply, W!Move
<1>5. ASSUME NEW h \in Hooks, W!Fails(h) PROVE SetupInv'
  BY <1>0, <1>5 DEF W!Fails, W!Move
<1>6. ASSUME NEW e \in Executives, W!ExecutiveAnswered(e) PROVE SetupInv'
  BY <1>0, <1>6 DEF W!ExecutiveAnswered
<1> QED BY <1>1, <1>2, <1>3, <1>4, <1>5, <1>6 DEF W!Next

-----------------------------------------------------------------------------
(* The complaints of a call (Complaints)                                    *)

HoldsRecords(w) == cAt[w] \in {"reading", "writing", "amending", "settling"}

(* Whoever works on the records has the lock, and each works at its own.    *)
HasTheLock(w) ==
    /\ HoldsRecords(w) => cLock[COn[w]] = w
    /\ cAt[w] \in {"asking", "checking", "saving", "tracking", "reading", "writing"} =>
         w \in C!Analyses
    /\ cAt[w] \in {"reading", "writing"} => cTodo[w] \subseteq C!Raised(cFound[w])
    /\ cAt[w] = "amending" => w \in Viewers \cup {"final"}
    /\ cAt[w] = "settling" => w \in People
    /\ cAt[w] \in {"closing", "closed"} => w = "final"
WorkersHaveTheLock == \A w \in C!Clients : HasTheLock(w)

(* What it has read and is about to write is what is stored.                *)
CopyIsCurrent(w) ==
    /\ ~HoldsRecords(w) => cCopy[w] = [c \in Categories |-> None]
    /\ cAt[w] = "writing" =>
         /\ cTodo[w] # {}
         /\ cCopy[w][C!Current(w)] = cRecords[C!Current(w)]
         /\ \/ cRecords[C!Current(w)] = None
            \/ C!StepsTo(cRecords[C!Current(w)].status, cFound[w][C!Current(w)]) # <<>>
    /\ cAt[w] = "amending" =>
         \A c \in cTodo[w] : cRecords[c] # None /\ cCopy[w][c] = cRecords[c]
    /\ cAt[w] = "settling" =>
         \A c \in Categories : cCopy[w][c] # None => cCopy[w][c] = cRecords[c]
CopiesAreCurrent == \A w \in C!Clients : CopyIsCurrent(w)

(* The history's latest event is the status.                                *)
HistorySaysSo == \A c \in Categories : cRecords[c] # None => cTold[c] = cRecords[c].status

RecordsInv == C!TypeOK /\ WorkersHaveTheLock /\ CopiesAreCurrent /\ HistorySaysSo

(* The final analysis comes after the end.  Unless something was missed,    *)
(* what an analysis tracks is in the coverage, which is what the final one  *)
(* tracks, and once it has, each complaint of the coverage has a record.    *)
FinalIsLast == cAt["final"] # "rest" => cEnded

FoundIsCovered ==
    ~cMissed =>
        /\ \A w \in C!Analyses : cAt[w] \in {"tracking", "reading", "writing"} =>
             C!Raised(cFound[w]) \subseteq C!Raised(cCoverage)
        /\ cAt["final"] \in {"tracking", "reading", "writing"} =>
             C!Raised(cCoverage) \subseteq C!Raised(cFound["final"])

CoverageHasRecords ==
    ~cMissed =>
        /\ cAt["final"] \in {"reading", "writing"} =>
             \A c \in C!Raised(cCoverage) \ cTodo["final"] : cRecords[c] # None
        /\ cAt["final"] \in {"closing", "amending", "closed"} =>
             \A c \in C!Raised(cCoverage) : cRecords[c] # None

(* The close-out has yet to come to whatever is open and not flagged.       *)
CloseOutIsUnderWay ==
    cAt["final"] = "amending" =>
        \A c \in Categories \ cTodo["final"] :
            cRecords[c] # None /\ C!Open(cRecords[c]) => cRecords[c].flagged

CloseOutInv ==
    /\ RecordsInv
    /\ FinalIsLast /\ FoundIsCovered /\ CoverageHasRecords
    /\ CloseOutIsUnderWay
    /\ C!OpenComplaintsAreFlagged

-----------------------------------------------------------------------------
(* The only step in call order that a call takes a complaint is the one     *)
(* from detected to probed: what a person has settled, or nobody has found, *)
(* has none.                                                                *)
LEMMA StepsOfACall ==
    ASSUME NEW current \in C!Statuses, NEW target \in {"detected", "probed"}
    PROVE  IF current = "detected" /\ target = "probed"
           THEN C!StepsTo(current, target) # <<>> /\ Head(C!StepsTo(current, target)) = "probed"
           ELSE C!StepsTo(current, target) = <<>>
<1> USE DEF C!InCallOrder, C!Manual
<1>1. C!Range(C!InCallOrder) = {"detected", "probed", "covered"}
  BY DEF C!Range
<1>2. CASE current = target \/ current \notin {"detected", "probed", "covered"}
  BY <1>1, <1>2 DEF C!StepsTo
<1>3. CASE current # target /\ current \in {"detected", "probed", "covered"}
  <2> DEFINE place(s) == CHOOSE i \in DOMAIN C!InCallOrder : C!InCallOrder[i] = s
  <2>1. place("detected") = 1 /\ place("probed") = 2 /\ place("covered") = 3
    OBVIOUS
  <2>2. C!StepsTo(current, target) =
          SubSeq(C!InCallOrder, place(current) + 1, place(target))
    BY <1>1, <1>3 DEF C!StepsTo
  <2> HIDE DEF place
  <2>3. Len(SubSeq(C!InCallOrder, 2, 2)) = 1 /\ Head(SubSeq(C!InCallOrder, 2, 2)) = "probed"
    OBVIOUS
  <2>4. SubSeq(C!InCallOrder, 3, 1) = <<>> /\ SubSeq(C!InCallOrder, 4, 1) = <<>>
    OBVIOUS
  <2>5. SubSeq(C!InCallOrder, 4, 2) = <<>>
    OBVIOUS
  <2>6. CASE current = "detected"
    BY <1>3, <2>1, <2>2, <2>3, <2>6
  <2>7. CASE current = "probed"
    BY <1>3, <2>1, <2>2, <2>4, <2>7
  <2>8. CASE current = "covered"
    BY <1>3, <2>1, <2>2, <2>4, <2>5, <2>8
  <2> QED BY <1>3, <2>6, <2>7, <2>8
<1> QED BY <1>2, <1>3

(* One client at a time works on the records, and none while the lock is    *)
(* free.                                                                    *)
LEMMA OneWorker ==
    ASSUME RecordsInv, NEW w \in C!Clients, NEW v \in C!Clients
    PROVE  /\ HoldsRecords(w) /\ HoldsRecords(v) => w = v
           /\ cLock[COn[w]] = None => ~HoldsRecords(v)
<1>1. COn[w] = COn[v]
  BY DEF COn, C!Clients, C!Analyses
<1> QED BY <1>1, NoneIsNothing DEF RecordsInv, WorkersHaveTheLock, HasTheLock

(* Before the first analysis there is nothing to flag.                      *)
LEMMA ComplaintsStart == C!Init => CloseOutInv
<1> SUFFICES ASSUME C!Init PROVE CloseOutInv
  OBVIOUS
<1>1. C!TypeOK
  BY DEF C!Init, C!TypeOK, C!Coverages, C!CoverageStatuses, C!Stages
<1>2. WorkersHaveTheLock /\ CopiesAreCurrent /\ HistorySaysSo
  BY DEF C!Init, WorkersHaveTheLock, HasTheLock, CopiesAreCurrent, CopyIsCurrent,
         HistorySaysSo, HoldsRecords
<1>3. "final" \in C!Clients
  BY DEF C!Clients, C!Analyses
<1>4. FinalIsLast /\ FoundIsCovered /\ CoverageHasRecords
  BY <1>3 DEF C!Init, FinalIsLast, FoundIsCovered, CoverageHasRecords, C!Analyses, C!Clients
<1>5. CloseOutIsUnderWay /\ C!OpenComplaintsAreFlagged
  BY <1>3 DEF C!Init, CloseOutIsUnderWay, C!OpenComplaintsAreFlagged
<1> QED BY <1>1, <1>2, <1>4, <1>5 DEF CloseOutInv, RecordsInv

(* The complaint an analysis works on is one it has found.                  *)
LEMMA CurrentIsFound ==
    ASSUME RecordsInv, NEW w \in C!Clients, cAt[w] \in {"reading", "writing"}, cTodo[w] # {}
    PROVE  /\ w \in C!Analyses /\ w \in C!Clients
           /\ C!Current(w) \in cTodo[w] /\ C!Current(w) \in Categories
           /\ cFound[w][C!Current(w)] \in {"detected", "probed"}
<1>1. w \in C!Analyses /\ cTodo[w] \subseteq C!Raised(cFound[w])
  BY DEF RecordsInv, WorkersHaveTheLock, HasTheLock
<1>2. C!Current(w) \in cTodo[w]
  BY DEF C!Current
<1>3. cFound[w] \in C!Coverages
  BY <1>1 DEF RecordsInv, C!TypeOK
<1> QED BY <1>1, <1>2, <1>3 DEF C!Raised, C!Coverages, C!CoverageStatuses

(* What is written of a complaint is a record, whoever writes it.           *)
LEMMA WrittenBySync ==
    ASSUME RecordsInv, NEW w \in C!Analyses, C!SyncWrite(w)
    PROVE  \E c \in Categories, r \in C!Records :
             /\ c = C!Current(w) /\ c \in C!Raised(cFound[w])
             /\ C!Write(c, r, TRUE)
             /\ cRecords[c] # None =>
                  /\ cRecords[c].status \notin C!Manual /\ C!Open(cRecords[c])
                  /\ r.status \notin C!Manual /\ C!Open(r)
                  /\ r.flagged = cRecords[c].flagged
<1> DEFINE c == C!Current(w)
<1>1. w \in C!Clients
  BY DEF C!Clients
<1>2. cAt[w] = "writing" /\ cTodo[w] # {}
  BY <1>1 DEF C!SyncWrite, RecordsInv, CopiesAreCurrent, CopyIsCurrent
<1>3. c \in Categories /\ cFound[w][c] \in {"detected", "probed"}
  BY <1>1, <1>2, CurrentIsFound
<1>4. cCopy[w][c] = cRecords[c]
  BY <1>1, <1>2 DEF RecordsInv, CopiesAreCurrent, CopyIsCurrent
<1>5. c \in C!Raised(cFound[w])
  BY <1>3 DEF C!Raised
<1>6. CASE cRecords[c] = None
  <2> DEFINE r == [status |-> cFound[w][c], flagged |-> FALSE, linked |-> FALSE]
  <2>1. r \in C!Records
    BY <1>3 DEF C!Records, C!Statuses
  <2>2. C!Write(c, r, TRUE)
    BY <1>4, <1>6 DEF C!SyncWrite
  <2> QED BY <1>3, <1>5, <1>6, <2>1, <2>2
<1>7. CASE cRecords[c] # None
  <2>1. cRecords[c] \in C!Records
    BY <1>3, <1>7 DEF RecordsInv, C!TypeOK
  <2>2. C!StepsTo(cRecords[c].status, cFound[w][c]) # <<>>
    BY <1>1, <1>2, <1>7 DEF RecordsInv, CopiesAreCurrent, CopyIsCurrent
  <2>3. /\ cRecords[c].status = "detected"
        /\ Head(C!StepsTo(cRecords[c].status, cFound[w][c])) = "probed"
    BY <1>3, <2>1, <2>2, StepsOfACall DEF C!Records
  <2> DEFINE r == [cRecords[c] EXCEPT !.status = "probed"]
  <2>4. r \in C!Records /\ r.status = "probed" /\ r.flagged = cRecords[c].flagged
    BY <2>1 DEF C!Records, C!Statuses
  <2>5. C!Write(c, r, TRUE)
    BY <1>4, <1>7, <2>3 DEF C!SyncWrite
  <2> QED BY <1>3, <1>5, <2>3, <2>4, <2>5 DEF C!Manual, C!Open
<1> QED BY <1>6, <1>7

(* Amending a record changes its flag and its link, never its status.       *)
LEMMA WrittenByAmend ==
    ASSUME RecordsInv, NEW w \in {"final"} \cup Viewers, C!Amend(w)
    PROVE  \E c \in Categories, r \in C!Records, event \in BOOLEAN :
             /\ c = C!Current(w) /\ c \in cTodo[w]
             /\ C!Write(c, r, event)
             /\ cRecords[c] # None
             /\ r.status = cRecords[c].status
             /\ r.flagged = (cRecords[c].flagged \/ (w = "final" /\ C!Open(cRecords[c])))
<1> DEFINE c == C!Current(w)
           r == C!Changed(w, cRecords[c])
<1>1. w \in C!Clients /\ cAt[w] = "amending" /\ cTodo[w] # {}
  BY DEF C!Clients, C!Analyses, C!Amend
<1>2. c \in cTodo[w] /\ c \in Categories
  BY <1>1 DEF C!Current, RecordsInv, C!TypeOK
<1>3. cCopy[w][c] = cRecords[c] /\ cRecords[c] # None
  BY <1>1, <1>2 DEF RecordsInv, CopiesAreCurrent, CopyIsCurrent
<1>4. cRecords[c] \in C!Records
  BY <1>2, <1>3 DEF RecordsInv, C!TypeOK
<1>5. /\ r \in C!Records /\ r.status = cRecords[c].status
      /\ r.flagged = (cRecords[c].flagged \/ (w = "final" /\ C!Open(cRecords[c])))
  BY <1>4 DEF C!Changed, C!Records
<1>6. C!Write(c, r, r.flagged # cRecords[c].flagged)
  BY <1>3 DEF C!Amend
<1> HIDE DEF c, r
<1> QED BY <1>2, <1>3, <1>5, <1>6 DEF c

(* A person settles a record that is open, and resolving it clears its      *)
(* flag.                                                                    *)
LEMMA WrittenBySettle ==
    ASSUME RecordsInv, NEW p \in People, NEW c \in Categories, NEW status \in C!Manual,
           C!Settle(p, c, status)
    PROVE  \E r \in C!Records :
             /\ C!Write(c, r, TRUE)
             /\ cRecords[c] # None /\ C!Open(cRecords[c])
             /\ r.status = status
             /\ r.flagged = (cRecords[c].flagged /\ C!Open(r))
             /\ cRecords[c].status \in C!Manual => r.status = "resolved"
<1> DEFINE r == [cRecords[c] EXCEPT !.status = status, !.flagged = @ /\ status # "resolved"]
<1>1. p \in C!Clients /\ cAt[p] = "settling"
  BY DEF C!Clients, C!Settle
<1>2. cRecords[c] # None /\ cCopy[p][c] = cRecords[c]
  BY <1>1 DEF C!Settle, RecordsInv, CopiesAreCurrent, CopyIsCurrent
<1>3. cRecords[c] \in C!Records
  BY <1>2 DEF RecordsInv, C!TypeOK
<1>4. status \in C!AllowedNext[cRecords[c].status]
  BY <1>2 DEF C!Settle
<1>5. /\ cRecords[c].status # "resolved"
      /\ cRecords[c].status = "unresolved" => status = "resolved"
  BY <1>3, <1>4 DEF C!AllowedNext, C!Manual, C!Records, C!Statuses
<1>6. /\ r \in C!Records
      /\ r.status = status
      /\ r.flagged = (cRecords[c].flagged /\ status # "resolved")
  BY <1>3 DEF C!Records, C!Manual, C!Statuses
<1>7. C!Write(c, r, TRUE)
  BY <1>2 DEF C!Settle
<1> HIDE DEF r
<1> QED BY <1>2, <1>5, <1>6, <1>7 DEF C!Open, C!Manual

(* Writing a record of a complaint leaves the records and their history     *)
(* what they are.                                                           *)
LEMMA WriteKeepsTypes ==
    ASSUME C!TypeOK, NEW c \in Categories, NEW r \in C!Records, NEW event \in BOOLEAN,
           C!Write(c, r, event)
    PROVE  /\ cRecords' \in [Categories -> C!Records \cup {None}]
           /\ cTold' \in [Categories -> C!Statuses \cup {None}]
BY DEF C!Write, C!TypeOK, C!Records

(* Every step keeps the records, copies and stages in their types.          *)
LEMMA ComplaintTypesStay == RecordsInv /\ C!Next => C!TypeOK'
<1> SUFFICES ASSUME RecordsInv, C!Next PROVE C!TypeOK'
  OBVIOUS
<1> USE DEF C!Move, C!stored, C!Lock, C!Unlock, C!Forget, C!Clear, C!TypeOK, C!Stages,
            C!Clients, C!Analyses
<1>0. /\ C!TypeOK /\ COn \in [C!Clients -> Instances]
      /\ [c \in Categories |-> None] \in [Categories -> C!Records \cup {None}]
      /\ [c \in Categories |-> "none"] \in C!Coverages
  BY PartsAssumption DEF RecordsInv, C!ComplaintsAssumption, C!Coverages, C!CoverageStatuses
<1>1. CASE C!End
  BY <1>0, <1>1 DEF C!End
<1>2. CASE C!Check
  <2>1. cAt' \in [C!Clients -> C!Stages]
    <3>1. cAt \in [C!Clients -> C!Stages] /\ {"rest", "saving"} \subseteq C!Stages
      BY <1>0
    <3>2. \E stage \in {"rest", "saving"} : cAt' = [cAt EXCEPT !["live"] = stage]
      BY <1>2 DEF C!Check, C!Move
    <3> QED BY <3>1, <3>2
  <2>2. cFound' \in [C!Analyses -> C!Coverages]
    BY <1>0, <1>2 DEF C!Check
  <2>3. cCopy' \in [C!Clients -> [Categories -> C!Records \cup {None}]]
    BY <1>0, <1>2 DEF C!Check
  <2> QED BY <1>0, <1>2, <2>1, <2>2, <2>3 DEF C!Check
<1>3. ASSUME NEW w \in C!Analyses, C!Begin(w) PROVE C!TypeOK'
  BY <1>0, <1>3 DEF C!Begin
<1>4. ASSUME NEW w \in C!Analyses, C!Answer(w) PROVE C!TypeOK'
  <2>1. PICK detected \in SUBSET Categories : \E probed \in SUBSET detected :
          cFound' = [cFound EXCEPT ![w] = C!Applied(cFound[w], detected, probed)]
    BY <1>4 DEF C!Answer
  <2>2. PICK probed \in SUBSET detected :
          cFound' = [cFound EXCEPT ![w] = C!Applied(cFound[w], detected, probed)]
    BY <2>1
  <2>3. C!Applied(cFound[w], detected, probed) \in C!Coverages
    BY <1>0 DEF C!Applied, C!Coverages, C!CoverageStatuses
  <2>4. cFound' \in [C!Analyses -> C!Coverages]
    BY <1>0, <2>2, <2>3
  <2> QED BY <1>0, <1>4, <2>4 DEF C!Answer
<1>5. ASSUME NEW w \in C!Analyses, C!NoAnswer(w) PROVE C!TypeOK'
  BY <1>0, <1>5 DEF C!NoAnswer
<1>6. ASSUME NEW w \in C!Analyses, C!SaveCoverage(w) PROVE C!TypeOK'
  BY <1>0, <1>6 DEF C!SaveCoverage
<1>7. ASSUME NEW w \in C!Analyses, C!Track(w) PROVE C!TypeOK'
  BY <1>0, <1>7 DEF C!Track, C!Raised
<1>8. ASSUME NEW w \in C!Analyses, C!Read(w) PROVE C!TypeOK'
  <2> DEFINE c == C!Current(w)
  <2>1. c \in Categories
    BY <1>8, CurrentIsFound DEF C!Read
  <2>2. cCopy' = [cCopy EXCEPT ![w] = [cCopy[w] EXCEPT ![c] = cRecords[c]]]
    BY <1>0, <1>8 DEF C!Read
  <2> HIDE DEF c
  <2>3. cCopy' \in [C!Clients -> [Categories -> C!Records \cup {None}]]
    BY <1>0, <2>1, <2>2
  <2>4. cAt' \in [C!Clients -> C!Stages]
    BY <1>0, <1>8 DEF C!Read
  <2>5. cTodo' \in [C!Clients -> SUBSET Categories]
    <3>1. cTodo' = cTodo \/ cTodo' = [cTodo EXCEPT ![w] = cTodo[w] \ {c}]
      BY <1>8 DEF C!Read, c
    <3>2. cTodo[w] \ {c} \in SUBSET Categories
      BY <1>0
    <3> HIDE DEF C!TypeOK, C!Stages
    <3>3. cTodo \in [C!Clients -> SUBSET Categories]
      BY <1>0 DEF C!TypeOK
    <3> QED BY <3>1, <3>2, <3>3
  <2> QED BY <1>0, <1>8, <2>3, <2>4, <2>5 DEF C!Read
<1>9. ASSUME NEW w \in C!Analyses, C!SyncWrite(w) PROVE C!TypeOK'
  BY <1>0, <1>9, WrittenBySync, WriteKeepsTypes DEF C!SyncWrite
<1>10. ASSUME NEW w \in C!Analyses, C!Synced(w) PROVE C!TypeOK'
  BY <1>0, <1>10 DEF C!Synced, C!AfterSync
<1>11. ASSUME NEW w \in C!Analyses, C!TrackingFails(w) PROVE C!TypeOK'
  BY <1>0, <1>11 DEF C!TrackingFails, C!AfterSync
<1>12. ASSUME NEW w \in {"final"} \cup Viewers, C!List(w) PROVE C!TypeOK'
  BY <1>0, <1>12 DEF C!List
<1>13. ASSUME NEW w \in {"final"} \cup Viewers, C!Amend(w) PROVE C!TypeOK'
  BY <1>0, <1>13, WrittenByAmend, WriteKeepsTypes DEF C!Amend
<1>14. ASSUME NEW w \in {"final"} \cup Viewers, C!Amended(w) PROVE C!TypeOK'
  BY <1>0, <1>14 DEF C!Amended
<1>15. ASSUME NEW p \in People, NEW c \in Categories, C!Choose(p, c) PROVE C!TypeOK'
  BY <1>0, <1>15 DEF C!Choose
<1>16. ASSUME NEW p \in People, NEW c \in Categories, NEW status \in C!Manual,
              C!Settle(p, c, status)
       PROVE  C!TypeOK'
  BY <1>0, <1>16, WrittenBySettle, WriteKeepsTypes DEF C!Settle
<1> QED BY <1>1, <1>2, <1>3, <1>4, <1>5, <1>6, <1>7, <1>8, <1>9, <1>10, <1>11, <1>12, <1>13,
           <1>14, <1>15, <1>16 DEF C!Next, C!Attaches, C!Marks

(* Who reads or writes records has taken the lock, and gives it up when     *)
(* done.                                                                    *)
LEMMA WorkersStay == RecordsInv /\ C!Next => WorkersHaveTheLock'
<1> SUFFICES ASSUME RecordsInv, C!Next, NEW v \in C!Clients PROVE HasTheLock(v)'
  BY DEF WorkersHaveTheLock
<1> USE DEF C!Move, C!stored, C!Lock, C!Unlock, C!Forget, C!Clear, C!TypeOK,
            C!Clients, C!Analyses, C!Raised, HoldsRecords, HasTheLock
<1>0. /\ C!TypeOK /\ (\A w \in C!Clients : HasTheLock(w)) /\ COn \in [C!Clients -> Instances]
      /\ \A w \in C!Clients : COn[w] = COn[v] /\ w # None
  BY PartsAssumption, NoneIsNothing DEF RecordsInv, C!ComplaintsAssumption, COn,
     WorkersHaveTheLock
<1>1. CASE C!End
  BY <1>0, <1>1 DEF C!End
<1>2. CASE C!Check
  BY <1>0, <1>2 DEF C!Check
<1>3. ASSUME NEW w \in C!Analyses, C!Begin(w) PROVE HasTheLock(v)'
  BY <1>0, <1>3 DEF C!Begin
<1>4. ASSUME NEW w \in C!Analyses, C!Answer(w) PROVE HasTheLock(v)'
  BY <1>0, <1>4 DEF C!Answer
<1>5. ASSUME NEW w \in C!Analyses, C!NoAnswer(w) PROVE HasTheLock(v)'
  BY <1>0, <1>5 DEF C!NoAnswer
<1>6. ASSUME NEW w \in C!Analyses, C!SaveCoverage(w) PROVE HasTheLock(v)'
  BY <1>0, <1>6 DEF C!SaveCoverage
<1>7. ASSUME NEW w \in C!Analyses, C!Track(w) PROVE HasTheLock(v)'
  BY <1>0, <1>7 DEF C!Track
<1>8. ASSUME NEW w \in C!Analyses, C!Read(w) PROVE HasTheLock(v)'
  BY <1>0, <1>8 DEF C!Read
<1>9. ASSUME NEW w \in C!Analyses, C!SyncWrite(w) PROVE HasTheLock(v)'
  BY <1>0, <1>9 DEF C!SyncWrite
<1>10. ASSUME NEW w \in C!Analyses, C!Synced(w) PROVE HasTheLock(v)'
  BY <1>0, <1>10 DEF C!Synced, C!AfterSync
<1>11. ASSUME NEW w \in C!Analyses, C!TrackingFails(w) PROVE HasTheLock(v)'
  BY <1>0, <1>11 DEF C!TrackingFails, C!AfterSync
<1>12. ASSUME NEW w \in {"final"} \cup Viewers, C!List(w) PROVE HasTheLock(v)'
  BY <1>0, <1>12 DEF C!List
<1>13. ASSUME NEW w \in {"final"} \cup Viewers, C!Amend(w) PROVE HasTheLock(v)'
  BY <1>0, <1>13 DEF C!Amend
<1>14. ASSUME NEW w \in {"final"} \cup Viewers, C!Amended(w) PROVE HasTheLock(v)'
  BY <1>0, <1>14 DEF C!Amended
<1>15. ASSUME NEW p \in People, NEW c \in Categories, C!Choose(p, c) PROVE HasTheLock(v)'
  BY <1>0, <1>15 DEF C!Choose
<1>16. ASSUME NEW p \in People, NEW c \in Categories, NEW status \in C!Manual,
              C!Settle(p, c, status)
       PROVE  HasTheLock(v)'
  BY <1>0, <1>16 DEF C!Settle
<1> QED BY <1>1, <1>2, <1>3, <1>4, <1>5, <1>6, <1>7, <1>8, <1>9, <1>10, <1>11, <1>12, <1>13,
           <1>14, <1>15, <1>16 DEF C!Next, C!Attaches, C!Marks

(* A copy stays current while its holder has the lock: nobody else writes.  *)
LEMMA CopiesStay == RecordsInv /\ C!Next => CopiesAreCurrent'
<1> SUFFICES ASSUME RecordsInv, C!Next, NEW v \in C!Clients PROVE CopyIsCurrent(v)'
  BY DEF CopiesAreCurrent
<1> USE DEF C!Move, C!stored, C!Lock, C!Unlock, C!Forget, C!Clear, C!TypeOK,
            C!Clients, C!Analyses, HoldsRecords, CopyIsCurrent, C!Current, C!Write
<1>0. /\ C!TypeOK /\ CopyIsCurrent(v)
      /\ \A w \in C!Clients : /\ HoldsRecords(w) /\ HoldsRecords(v) => w = v
                              /\ cLock[COn[w]] = None => ~HoldsRecords(v)
  BY OneWorker DEF RecordsInv, CopiesAreCurrent
<1>1. CASE C!End
  BY <1>0, <1>1 DEF C!End
<1>2. CASE C!Check
  <2>0. v \in C!Analyses \/ cAt[v] # "writing"
    BY DEF RecordsInv, WorkersHaveTheLock, HasTheLock
  <2>1. CASE cEnded /\ v = "live"
    BY <1>0, <1>2, <2>1 DEF C!Check
  <2>3. CASE cEnded /\ v # "live"
    BY <1>0, <1>2, <2>0, <2>3 DEF C!Check
  <2>2. CASE ~cEnded
    BY <1>0, <1>2, <2>2 DEF C!Check
  <2> QED BY <2>1, <2>2, <2>3
<1>3. ASSUME NEW w \in C!Analyses, C!Begin(w) PROVE CopyIsCurrent(v)'
  BY <1>0, <1>3 DEF C!Begin
<1>4. ASSUME NEW w \in C!Analyses, C!Answer(w) PROVE CopyIsCurrent(v)'
  BY <1>0, <1>4 DEF C!Answer
<1>5. ASSUME NEW w \in C!Analyses, C!NoAnswer(w) PROVE CopyIsCurrent(v)'
  BY <1>0, <1>5 DEF C!NoAnswer
<1>6. ASSUME NEW w \in C!Analyses, C!SaveCoverage(w) PROVE CopyIsCurrent(v)'
  BY <1>0, <1>6 DEF C!SaveCoverage
<1>7. ASSUME NEW w \in C!Analyses, C!Track(w) PROVE CopyIsCurrent(v)'
  BY <1>0, <1>7 DEF C!Track
<1>8. ASSUME NEW w \in C!Analyses, C!Read(w) PROVE CopyIsCurrent(v)'
  <2> DEFINE c == C!Current(w)
  <2>1. c \in Categories /\ w \in C!Clients
    BY <1>8, CurrentIsFound DEF C!Read
  <2>2. CASE v # w
    BY <1>0, <1>8, <2>1, <2>2 DEF C!Read
  <2>3. CASE v = w /\ cAt' = cAt
    BY <1>0, <1>8, <2>3 DEF C!Read
  <2>4. CASE v = w /\ cAt' # cAt
    <3>1. /\ cAt'[v] = "writing" /\ cTodo' = cTodo /\ cTodo[v] # {}
          /\ cRecords[c] = None \/ C!StepsTo(cRecords[c].status, cFound[w][c]) # <<>>
      BY <1>0, <1>8, <2>4 DEF C!Read
    <3>2. cCopy'[v][c] = cRecords[c] /\ UNCHANGED <<cRecords, cFound>>
      BY <1>0, <1>8, <2>1, <2>4 DEF C!Read
    <3>3. C!Current(v)' = c
      BY <2>4, <3>1
    <3> HIDE DEF c
    <3> QED BY <2>4, <3>1, <3>2, <3>3
  <2> QED BY <2>2, <2>3, <2>4
<1>9. ASSUME NEW w \in C!Analyses, C!SyncWrite(w) PROVE CopyIsCurrent(v)'
  BY <1>0, <1>9 DEF C!SyncWrite
<1>10. ASSUME NEW w \in C!Analyses, C!Synced(w) PROVE CopyIsCurrent(v)'
  BY <1>0, <1>10 DEF C!Synced, C!AfterSync
<1>11. ASSUME NEW w \in C!Analyses, C!TrackingFails(w) PROVE CopyIsCurrent(v)'
  BY <1>0, <1>11 DEF C!TrackingFails, C!AfterSync
<1>12. ASSUME NEW w \in {"final"} \cup Viewers, C!List(w) PROVE CopyIsCurrent(v)'
  BY <1>0, <1>12 DEF C!List
<1>13. ASSUME NEW w \in {"final"} \cup Viewers, C!Amend(w) PROVE CopyIsCurrent(v)'
  BY <1>0, <1>13 DEF C!Amend
<1>14. ASSUME NEW w \in {"final"} \cup Viewers, C!Amended(w) PROVE CopyIsCurrent(v)'
  BY <1>0, <1>14 DEF C!Amended
<1>15. ASSUME NEW p \in People, NEW c \in Categories, C!Choose(p, c) PROVE CopyIsCurrent(v)'
  BY <1>0, <1>15 DEF C!Choose
<1>16. ASSUME NEW p \in People, NEW c \in Categories, NEW status \in C!Manual,
              C!Settle(p, c, status)
       PROVE  CopyIsCurrent(v)'
  BY <1>0, <1>16 DEF C!Settle
<1> QED BY <1>1, <1>2, <1>3, <1>4, <1>5, <1>6, <1>7, <1>8, <1>9, <1>10, <1>11, <1>12, <1>13,
           <1>14, <1>15, <1>16 DEF C!Next, C!Attaches, C!Marks

(* Whatever changes a status tells the history of it.                       *)
LEMMA HistoryStays == RecordsInv /\ C!Next => HistorySaysSo'
<1> SUFFICES ASSUME RecordsInv, C!Next PROVE HistorySaysSo'
  OBVIOUS
<1>0. C!TypeOK /\ HistorySaysSo
  BY DEF RecordsInv
<1>1. UNCHANGED C!stored => HistorySaysSo'
  BY <1>0 DEF C!stored, HistorySaysSo
<1>2. ASSUME NEW w \in C!Analyses, C!SyncWrite(w) PROVE HistorySaysSo'
  BY <1>0, <1>2, WrittenBySync DEF C!Write, HistorySaysSo, C!TypeOK
<1>3. ASSUME NEW w \in {"final"} \cup Viewers, C!Amend(w) PROVE HistorySaysSo'
  BY <1>0, <1>3, WrittenByAmend DEF C!Write, HistorySaysSo, C!TypeOK
<1>4. ASSUME NEW p \in People, NEW c \in Categories, NEW status \in C!Manual,
             C!Settle(p, c, status)
      PROVE  HistorySaysSo'
  BY <1>0, <1>4, WrittenBySettle DEF C!Write, HistorySaysSo, C!TypeOK
<1> QED BY <1>1, <1>2, <1>3, <1>4
        DEF C!Next, C!Attaches, C!Marks,
            C!End, C!Check, C!Begin, C!Answer, C!NoAnswer, C!SaveCoverage, C!Track,
            C!Read, C!Synced, C!TrackingFails, C!List, C!Amended, C!Choose

(* One step of the call, or of a person, does to what was settled what      *)
(* HandledIsLeftAlone says.                                                 *)
LeavesHandledAlone ==
    \A c \in Categories :
        C!Settled(c) => /\ cRecords'[c].status \in {cRecords[c].status, "resolved"}
                        /\ cTold'[c] = cRecords'[c].status

(* The call's own steps leave settled records alone: only a person resolves *)
(* them.                                                                    *)
LEMMA HandledStays == RecordsInv /\ C!Next => LeavesHandledAlone
<1> SUFFICES ASSUME RecordsInv, C!Next PROVE LeavesHandledAlone
  OBVIOUS
<1> USE DEF LeavesHandledAlone, C!Settled
<1>0. C!TypeOK /\ HistorySaysSo
  BY DEF RecordsInv
<1>1. UNCHANGED C!stored => LeavesHandledAlone
  BY <1>0 DEF C!stored, HistorySaysSo
<1>2. ASSUME NEW w \in C!Analyses, C!SyncWrite(w) PROVE LeavesHandledAlone
  BY <1>0, <1>2, WrittenBySync DEF C!Write, HistorySaysSo, C!TypeOK
<1>3. ASSUME NEW w \in {"final"} \cup Viewers, C!Amend(w) PROVE LeavesHandledAlone
  BY <1>0, <1>3, WrittenByAmend DEF C!Write, HistorySaysSo, C!TypeOK
<1>4. ASSUME NEW p \in People, NEW c \in Categories, NEW status \in C!Manual,
             C!Settle(p, c, status)
      PROVE  LeavesHandledAlone
  BY <1>0, <1>4, WrittenBySettle DEF C!Write, HistorySaysSo, C!TypeOK
<1> QED BY <1>1, <1>2, <1>3, <1>4
        DEF C!Next, C!Attaches, C!Marks,
            C!End, C!Check, C!Begin, C!Answer, C!NoAnswer, C!SaveCoverage, C!Track,
            C!Read, C!Synced, C!TrackingFails, C!List, C!Amended, C!Choose

(* The four together.                                                       *)
LEMMA RecordsInvStays == RecordsInv /\ C!Next => RecordsInv'
BY ComplaintTypesStay, WorkersStay, CopiesStay, HistoryStays DEF RecordsInv

(* No other analysis begins once the call has ended.                        *)
LEMMA FinalStaysLast == RecordsInv /\ FinalIsLast /\ C!Next => FinalIsLast'
<1> SUFFICES ASSUME RecordsInv, FinalIsLast, C!Next PROVE FinalIsLast'
  OBVIOUS
<1> USE DEF C!Move, C!TypeOK, FinalIsLast
<1>0. /\ C!TypeOK /\ "final" \in C!Analyses /\ C!Analyses \subseteq C!Clients
      /\ "final" \notin People \cup Viewers
  BY PartsAssumption DEF RecordsInv, C!ComplaintsAssumption, C!Analyses, C!Clients
<1>1. CASE C!End
  BY <1>0, <1>1 DEF C!End
<1>2. CASE C!Check
  BY <1>0, <1>2 DEF C!Check
<1>3. ASSUME NEW w \in C!Analyses, C!Begin(w) PROVE FinalIsLast'
  BY <1>0, <1>3 DEF C!Begin
<1>4. ASSUME NEW w \in C!Analyses, C!Answer(w) PROVE FinalIsLast'
  BY <1>0, <1>4 DEF C!Answer
<1>5. ASSUME NEW w \in C!Analyses, C!NoAnswer(w) PROVE FinalIsLast'
  BY <1>0, <1>5 DEF C!NoAnswer
<1>6. ASSUME NEW w \in C!Analyses, C!SaveCoverage(w) PROVE FinalIsLast'
  BY <1>0, <1>6 DEF C!SaveCoverage
<1>7. ASSUME NEW w \in C!Analyses, C!Track(w) PROVE FinalIsLast'
  BY <1>0, <1>7 DEF C!Track
<1>8. ASSUME NEW w \in C!Analyses, C!Read(w) PROVE FinalIsLast'
  BY <1>0, <1>8 DEF C!Read
<1>9. ASSUME NEW w \in C!Analyses, C!SyncWrite(w) PROVE FinalIsLast'
  BY <1>0, <1>9 DEF C!SyncWrite
<1>10. ASSUME NEW w \in C!Analyses, C!Synced(w) PROVE FinalIsLast'
  BY <1>0, <1>10 DEF C!Synced, C!AfterSync
<1>11. ASSUME NEW w \in C!Analyses, C!TrackingFails(w) PROVE FinalIsLast'
  BY <1>0, <1>11 DEF C!TrackingFails, C!AfterSync
<1>12. ASSUME NEW w \in {"final"} \cup Viewers, C!List(w) PROVE FinalIsLast'
  BY <1>0, <1>12 DEF C!List
<1>13. ASSUME NEW w \in {"final"} \cup Viewers, C!Amend(w) PROVE FinalIsLast'
  BY <1>0, <1>13 DEF C!Amend
<1>14. ASSUME NEW w \in {"final"} \cup Viewers, C!Amended(w) PROVE FinalIsLast'
  BY <1>0, <1>14 DEF C!Amended
<1>15. ASSUME NEW p \in People, NEW c \in Categories, C!Choose(p, c) PROVE FinalIsLast'
  BY <1>0, <1>15 DEF C!Choose
<1>16. ASSUME NEW p \in People, NEW c \in Categories, NEW status \in C!Manual,
              C!Settle(p, c, status)
       PROVE  FinalIsLast'
  BY <1>0, <1>16 DEF C!Settle
<1> QED BY <1>1, <1>2, <1>3, <1>4, <1>5, <1>6, <1>7, <1>8, <1>9, <1>10, <1>11, <1>12, <1>13,
           <1>14, <1>15, <1>16 DEF C!Next, C!Attaches, C!Marks

(* What an analysis found is in the coverage it saved, unless another saved *)
(* over it.                                                                 *)
LEMMA FoundStaysCovered == RecordsInv /\ FinalIsLast /\ FoundIsCovered /\ C!Next => FoundIsCovered'
<1> SUFFICES ASSUME RecordsInv, FinalIsLast, FoundIsCovered, C!Next PROVE FoundIsCovered'
  OBVIOUS
<1> USE DEF C!Move, C!TypeOK, C!Forget, C!Clear, FinalIsLast, FoundIsCovered
<1>0. /\ C!TypeOK /\ "final" \in C!Analyses /\ C!Analyses \subseteq C!Clients
      /\ "final" \notin People \cup Viewers
  BY PartsAssumption DEF RecordsInv, C!ComplaintsAssumption, C!Analyses, C!Clients
<1>1. CASE C!End
  BY <1>0, <1>1 DEF C!End
<1>2. CASE C!Check
  BY <1>0, <1>2 DEF C!Check
<1>3. ASSUME NEW w \in C!Analyses, C!Begin(w) PROVE FoundIsCovered'
  BY <1>0, <1>3 DEF C!Begin
<1>4. ASSUME NEW w \in C!Analyses, C!Answer(w) PROVE FoundIsCovered'
  BY <1>0, <1>4 DEF C!Answer
<1>5. ASSUME NEW w \in C!Analyses, C!NoAnswer(w) PROVE FoundIsCovered'
  BY <1>0, <1>5 DEF C!NoAnswer
<1>6. ASSUME NEW w \in C!Analyses, C!SaveCoverage(w) PROVE FoundIsCovered'
  BY <1>0, <1>6 DEF C!SaveCoverage
<1>7. ASSUME NEW w \in C!Analyses, C!Track(w) PROVE FoundIsCovered'
  BY <1>0, <1>7 DEF C!Track
<1>8. ASSUME NEW w \in C!Analyses, C!Read(w) PROVE FoundIsCovered'
  BY <1>0, <1>8 DEF C!Read
<1>9. ASSUME NEW w \in C!Analyses, C!SyncWrite(w) PROVE FoundIsCovered'
  BY <1>0, <1>9 DEF C!SyncWrite
<1>10. ASSUME NEW w \in C!Analyses, C!Synced(w) PROVE FoundIsCovered'
  BY <1>0, <1>10 DEF C!Synced, C!AfterSync
<1>11. ASSUME NEW w \in C!Analyses, C!TrackingFails(w) PROVE FoundIsCovered'
  BY <1>0, <1>11 DEF C!TrackingFails, C!AfterSync
<1>12. ASSUME NEW w \in {"final"} \cup Viewers, C!List(w) PROVE FoundIsCovered'
  BY <1>0, <1>12 DEF C!List
<1>13. ASSUME NEW w \in {"final"} \cup Viewers, C!Amend(w) PROVE FoundIsCovered'
  BY <1>0, <1>13 DEF C!Amend
<1>14. ASSUME NEW w \in {"final"} \cup Viewers, C!Amended(w) PROVE FoundIsCovered'
  BY <1>0, <1>14 DEF C!Amended
<1>15. ASSUME NEW p \in People, NEW c \in Categories, C!Choose(p, c) PROVE FoundIsCovered'
  BY <1>0, <1>15 DEF C!Choose
<1>16. ASSUME NEW p \in People, NEW c \in Categories, NEW status \in C!Manual,
              C!Settle(p, c, status)
       PROVE  FoundIsCovered'
  BY <1>0, <1>16 DEF C!Settle
<1> QED BY <1>1, <1>2, <1>3, <1>4, <1>5, <1>6, <1>7, <1>8, <1>9, <1>10, <1>11, <1>12, <1>13,
           <1>14, <1>15, <1>16 DEF C!Next, C!Attaches, C!Marks

(* A record that is there stays, and until the final analysis is through    *)
(* nobody else works on the records.                                        *)
LEMMA CoverageStaysRecorded ==
    CloseOutInv /\ C!Next => CoverageHasRecords'
<1> SUFFICES ASSUME CloseOutInv, C!Next PROVE CoverageHasRecords'
  OBVIOUS
<1> RecordsInv /\ FinalIsLast /\ FoundIsCovered /\ CoverageHasRecords
  BY DEF CloseOutInv
<1> USE DEF C!Move, C!TypeOK, C!stored, C!Lock, FinalIsLast, FoundIsCovered,
   CoverageHasRecords,
            HoldsRecords
<1>0. /\ C!TypeOK /\ "final" \in C!Analyses /\ C!Analyses \subseteq C!Clients
      /\ People \cup Viewers \subseteq C!Clients /\ "final" \notin People \cup Viewers
      /\ \A w \in C!Clients : /\ HoldsRecords(w) /\ HoldsRecords("final") => w = "final"
                              /\ cLock[COn[w]] = None => ~HoldsRecords("final")
      /\ \A f : C!Raised(f) \subseteq Categories
  BY PartsAssumption, OneWorker
     DEF RecordsInv, C!ComplaintsAssumption, C!Analyses, C!Clients, C!Raised
<1>1. CASE C!End
  BY <1>0, <1>1 DEF C!End
<1>2. CASE C!Check
  BY <1>0, <1>2 DEF C!Check
<1>3. ASSUME NEW w \in C!Analyses, C!Begin(w) PROVE CoverageHasRecords'
  BY <1>0, <1>3 DEF C!Begin
<1>4. ASSUME NEW w \in C!Analyses, C!Answer(w) PROVE CoverageHasRecords'
  BY <1>0, <1>4 DEF C!Answer
<1>5. ASSUME NEW w \in C!Analyses, C!NoAnswer(w) PROVE CoverageHasRecords'
  BY <1>0, <1>5 DEF C!NoAnswer
<1>6. ASSUME NEW w \in C!Analyses, C!SaveCoverage(w) PROVE CoverageHasRecords'
  BY <1>0, <1>6 DEF C!SaveCoverage
<1>7. ASSUME NEW w \in C!Analyses, C!Track(w) PROVE CoverageHasRecords'
  BY <1>0, <1>7 DEF C!Track
<1>8. ASSUME NEW w \in C!Analyses, C!Read(w) PROVE CoverageHasRecords'
  BY <1>0, <1>8 DEF C!Read
<1>9. ASSUME NEW w \in C!Analyses, C!SyncWrite(w) PROVE CoverageHasRecords'
  <2>1. PICK c \in Categories, r \in C!Records :
          /\ c = C!Current(w) /\ c \in C!Raised(cFound[w]) /\ C!Write(c, r, TRUE)
          /\ cRecords[c] # None =>
               /\ C!Open(cRecords[c]) /\ C!Open(r) /\ r.flagged = cRecords[c].flagged
    BY <1>9, WrittenBySync
  <2>2. cRecords'[c] = r /\ r # None /\ \A k \in Categories \ {c} : cRecords'[k] = cRecords[k]
    BY <1>0, <2>1, NoneIsNothing DEF C!Write
  <2> QED BY <1>0, <1>9, <2>2 DEF C!SyncWrite
<1>10. ASSUME NEW w \in C!Analyses, C!Synced(w) PROVE CoverageHasRecords'
  BY <1>0, <1>10 DEF C!Synced, C!AfterSync, C!Unlock
<1>11. ASSUME NEW w \in C!Analyses, C!TrackingFails(w) PROVE CoverageHasRecords'
  BY <1>0, <1>11 DEF C!TrackingFails, C!AfterSync
<1>12. ASSUME NEW w \in {"final"} \cup Viewers, C!List(w) PROVE CoverageHasRecords'
  BY <1>0, <1>12 DEF C!List
<1>13. ASSUME NEW w \in {"final"} \cup Viewers, C!Amend(w) PROVE CoverageHasRecords'
  <2>1. PICK c \in Categories, r \in C!Records, event \in BOOLEAN :
          /\ c = C!Current(w) /\ c \in cTodo[w] /\ C!Write(c, r, event)
          /\ cRecords[c] # None /\ r.status = cRecords[c].status
      /\ r.flagged = (cRecords[c].flagged \/ (w = "final" /\ C!Open(cRecords[c])))
    BY <1>13, WrittenByAmend
  <2>2. cRecords'[c] = r /\ r # None /\ \A k \in Categories \ {c} : cRecords'[k] = cRecords[k]
    BY <1>0, <2>1, NoneIsNothing DEF C!Write
  <2>3. C!Open(r) = C!Open(cRecords[c])
    BY <2>1 DEF C!Open
  <2> QED BY <1>0, <1>13, <2>2 DEF C!Amend
<1>14. ASSUME NEW w \in {"final"} \cup Viewers, C!Amended(w) PROVE CoverageHasRecords'
  BY <1>0, <1>14 DEF C!Amended
<1>15. ASSUME NEW p \in People, NEW c \in Categories, C!Choose(p, c) PROVE CoverageHasRecords'
  BY <1>0, <1>15 DEF C!Choose
<1>16. ASSUME NEW p \in People, NEW c \in Categories, NEW status \in C!Manual,
              C!Settle(p, c, status)
       PROVE  CoverageHasRecords'
  <2>1. PICK r \in C!Records :
          /\ C!Write(c, r, TRUE) /\ cRecords[c] # None /\ C!Open(cRecords[c])
      /\ r.flagged = (cRecords[c].flagged /\ C!Open(r))
    BY <1>16, WrittenBySettle
  <2>2. cRecords'[c] = r /\ r # None /\ \A k \in Categories \ {c} : cRecords'[k] = cRecords[k]
    BY <1>0, <2>1, NoneIsNothing DEF C!Write
  <2> QED BY <1>0, <1>16, <2>2 DEF C!Settle
<1> QED BY <1>1, <1>2, <1>3, <1>4, <1>5, <1>6, <1>7, <1>8, <1>9, <1>10, <1>11, <1>12, <1>13,
           <1>14, <1>15, <1>16 DEF C!Next, C!Attaches, C!Marks

(* While the final analysis closes out, only it writes records.             *)
LEMMA CloseOutGoesOn == CloseOutInv /\ C!Next => CloseOutIsUnderWay'
<1> SUFFICES ASSUME CloseOutInv, C!Next PROVE CloseOutIsUnderWay'
  OBVIOUS
<1> RecordsInv /\ CloseOutIsUnderWay
  BY DEF CloseOutInv
<1> USE DEF C!Move, C!TypeOK, C!stored, C!Lock, CloseOutIsUnderWay, HoldsRecords
<1>0. /\ C!TypeOK /\ "final" \in C!Analyses /\ C!Analyses \subseteq C!Clients
      /\ People \cup Viewers \subseteq C!Clients /\ "final" \notin People \cup Viewers
      /\ \A w \in C!Clients : /\ HoldsRecords(w) /\ HoldsRecords("final") => w = "final"
                              /\ cLock[COn[w]] = None => ~HoldsRecords("final")
      /\ \A f : C!Raised(f) \subseteq Categories
  BY PartsAssumption, OneWorker
     DEF RecordsInv, C!ComplaintsAssumption, C!Analyses, C!Clients, C!Raised
<1>1. CASE C!End
  BY <1>0, <1>1 DEF C!End
<1>2. CASE C!Check
  BY <1>0, <1>2 DEF C!Check
<1>3. ASSUME NEW w \in C!Analyses, C!Begin(w) PROVE CloseOutIsUnderWay'
  BY <1>0, <1>3 DEF C!Begin
<1>4. ASSUME NEW w \in C!Analyses, C!Answer(w) PROVE CloseOutIsUnderWay'
  BY <1>0, <1>4 DEF C!Answer
<1>5. ASSUME NEW w \in C!Analyses, C!NoAnswer(w) PROVE CloseOutIsUnderWay'
  BY <1>0, <1>5 DEF C!NoAnswer
<1>6. ASSUME NEW w \in C!Analyses, C!SaveCoverage(w) PROVE CloseOutIsUnderWay'
  BY <1>0, <1>6 DEF C!SaveCoverage
<1>7. ASSUME NEW w \in C!Analyses, C!Track(w) PROVE CloseOutIsUnderWay'
  BY <1>0, <1>7 DEF C!Track
<1>8. ASSUME NEW w \in C!Analyses, C!Read(w) PROVE CloseOutIsUnderWay'
  BY <1>0, <1>8 DEF C!Read
<1>9. ASSUME NEW w \in C!Analyses, C!SyncWrite(w) PROVE CloseOutIsUnderWay'
  BY <1>0, <1>9 DEF C!SyncWrite
<1>10. ASSUME NEW w \in C!Analyses, C!Synced(w) PROVE CloseOutIsUnderWay'
  BY <1>0, <1>10 DEF C!Synced, C!AfterSync
<1>11. ASSUME NEW w \in C!Analyses, C!TrackingFails(w) PROVE CloseOutIsUnderWay'
  BY <1>0, <1>11 DEF C!TrackingFails, C!AfterSync
<1>12. ASSUME NEW w \in {"final"} \cup Viewers, C!List(w) PROVE CloseOutIsUnderWay'
  <2>1. CASE w = "final"
    <3>1. ASSUME NEW c \in Categories, cRecords[c] # None, C!Open(cRecords[c]), ~cRecords[c].flagged
          PROVE  C!Changed(w, cRecords[c]) # cRecords[c]
      <4>1. cRecords[c] \in C!Records
        BY <1>0, <3>1
      <4>2. C!Changed(w, cRecords[c]).flagged
        BY <2>1, <3>1, <4>1 DEF C!Changed, C!Records
      <4> QED BY <3>1, <4>2
    <3> QED BY <1>0, <1>12, <2>1, <3>1 DEF C!List
  <2>2. CASE w # "final"
    BY <1>0, <1>12, <2>2 DEF C!List
  <2> QED BY <2>1, <2>2
<1>13. ASSUME NEW w \in {"final"} \cup Viewers, C!Amend(w) PROVE CloseOutIsUnderWay'
  <2>1. PICK c \in Categories, r \in C!Records, event \in BOOLEAN :
          /\ c = C!Current(w) /\ c \in cTodo[w] /\ C!Write(c, r, event)
          /\ cRecords[c] # None /\ r.status = cRecords[c].status
      /\ r.flagged = (cRecords[c].flagged \/ (w = "final" /\ C!Open(cRecords[c])))
    BY <1>13, WrittenByAmend
  <2>2. cRecords'[c] = r /\ r # None /\ \A k \in Categories \ {c} : cRecords'[k] = cRecords[k]
    BY <1>0, <2>1, NoneIsNothing DEF C!Write
  <2>3. C!Open(r) = C!Open(cRecords[c])
    BY <2>1 DEF C!Open
  <2> QED BY <1>0, <1>13, <2>1, <2>2, <2>3 DEF C!Amend
<1>14. ASSUME NEW w \in {"final"} \cup Viewers, C!Amended(w) PROVE CloseOutIsUnderWay'
  BY <1>0, <1>14 DEF C!Amended
<1>15. ASSUME NEW p \in People, NEW c \in Categories, C!Choose(p, c) PROVE CloseOutIsUnderWay'
  BY <1>0, <1>15 DEF C!Choose
<1>16. ASSUME NEW p \in People, NEW c \in Categories, NEW status \in C!Manual,
              C!Settle(p, c, status)
       PROVE  CloseOutIsUnderWay'
  BY <1>0, <1>16 DEF C!Settle
<1> QED BY <1>1, <1>2, <1>3, <1>4, <1>5, <1>6, <1>7, <1>8, <1>9, <1>10, <1>11, <1>12, <1>13,
           <1>14, <1>15, <1>16 DEF C!Next, C!Attaches, C!Marks

(* Once it is closed out, whoever writes a record that is open keeps its    *)
(* flag, and nobody finds a complaint that has none.                        *)
LEMMA FlagsStay == CloseOutInv /\ C!Next => C!OpenComplaintsAreFlagged'
<1> SUFFICES ASSUME CloseOutInv, C!Next PROVE C!OpenComplaintsAreFlagged'
  OBVIOUS
<1> RecordsInv /\ FinalIsLast /\ FoundIsCovered /\ CoverageHasRecords /\ CloseOutIsUnderWay
    /\ C!OpenComplaintsAreFlagged
  BY DEF CloseOutInv
<1> USE DEF C!Move, C!TypeOK, C!stored, FinalIsLast, CloseOutIsUnderWay,
   C!OpenComplaintsAreFlagged
<1>0. /\ C!TypeOK /\ "final" \in C!Analyses /\ C!Analyses \subseteq C!Clients
      /\ People \cup Viewers \subseteq C!Clients /\ "final" \notin People \cup Viewers
      /\ \A w \in C!Clients : /\ HoldsRecords(w) /\ HoldsRecords("final") => w = "final"
                              /\ cLock[COn[w]] = None => ~HoldsRecords("final")
      /\ \A f : C!Raised(f) \subseteq Categories
  BY PartsAssumption, OneWorker
     DEF RecordsInv, C!ComplaintsAssumption, C!Analyses, C!Clients, C!Raised
<1>1. CASE C!End
  BY <1>0, <1>1 DEF C!End
<1>2. CASE C!Check
  BY <1>0, <1>2 DEF C!Check
<1>3. ASSUME NEW w \in C!Analyses, C!Begin(w) PROVE C!OpenComplaintsAreFlagged'
  BY <1>0, <1>3 DEF C!Begin
<1>4. ASSUME NEW w \in C!Analyses, C!Answer(w) PROVE C!OpenComplaintsAreFlagged'
  BY <1>0, <1>4 DEF C!Answer
<1>5. ASSUME NEW w \in C!Analyses, C!NoAnswer(w) PROVE C!OpenComplaintsAreFlagged'
  BY <1>0, <1>5 DEF C!NoAnswer
<1>6. ASSUME NEW w \in C!Analyses, C!SaveCoverage(w) PROVE C!OpenComplaintsAreFlagged'
  BY <1>0, <1>6 DEF C!SaveCoverage
<1>7. ASSUME NEW w \in C!Analyses, C!Track(w) PROVE C!OpenComplaintsAreFlagged'
  BY <1>0, <1>7 DEF C!Track
<1>8. ASSUME NEW w \in C!Analyses, C!Read(w) PROVE C!OpenComplaintsAreFlagged'
  BY <1>0, <1>8 DEF C!Read
<1>9. ASSUME NEW w \in C!Analyses, C!SyncWrite(w) PROVE C!OpenComplaintsAreFlagged'
  <2>1. PICK c \in Categories, r \in C!Records :
          /\ c = C!Current(w) /\ c \in C!Raised(cFound[w]) /\ C!Write(c, r, TRUE)
          /\ cRecords[c] # None =>
               /\ C!Open(cRecords[c]) /\ C!Open(r) /\ r.flagged = cRecords[c].flagged
    BY <1>9, WrittenBySync
  <2>2. cRecords'[c] = r /\ r # None /\ \A k \in Categories \ {c} : cRecords'[k] = cRecords[k]
    BY <1>0, <2>1, NoneIsNothing DEF C!Write
  <2>3. cAt'["final"] = "closed" /\ ~cMissed' => cRecords[c] # None
    BY <1>0, <1>9, <2>1 DEF C!SyncWrite, FoundIsCovered, CoverageHasRecords
  <2>4. cAt'["final"] = "closed" => cAt["final"] = "closed"
    BY <1>0, <1>9 DEF C!SyncWrite
  <2> QED BY <1>9, <2>1, <2>2, <2>3, <2>4 DEF C!SyncWrite
<1>10. ASSUME NEW w \in C!Analyses, C!Synced(w) PROVE C!OpenComplaintsAreFlagged'
  BY <1>0, <1>10 DEF C!Synced, C!AfterSync
<1>11. ASSUME NEW w \in C!Analyses, C!TrackingFails(w) PROVE C!OpenComplaintsAreFlagged'
  BY <1>0, <1>11 DEF C!TrackingFails, C!AfterSync
<1>12. ASSUME NEW w \in {"final"} \cup Viewers, C!List(w) PROVE C!OpenComplaintsAreFlagged'
  BY <1>0, <1>12 DEF C!List
<1>13. ASSUME NEW w \in {"final"} \cup Viewers, C!Amend(w) PROVE C!OpenComplaintsAreFlagged'
  <2>1. PICK c \in Categories, r \in C!Records, event \in BOOLEAN :
          /\ c = C!Current(w) /\ c \in cTodo[w] /\ C!Write(c, r, event)
          /\ cRecords[c] # None /\ r.status = cRecords[c].status
      /\ r.flagged = (cRecords[c].flagged \/ (w = "final" /\ C!Open(cRecords[c])))
    BY <1>13, WrittenByAmend
  <2>2. cRecords'[c] = r /\ r # None /\ \A k \in Categories \ {c} : cRecords'[k] = cRecords[k]
    BY <1>0, <2>1, NoneIsNothing DEF C!Write
  <2>3. C!Open(r) = C!Open(cRecords[c])
    BY <2>1 DEF C!Open
  <2> QED BY <1>0, <1>13, <2>1, <2>2, <2>3 DEF C!Amend
<1>14. ASSUME NEW w \in {"final"} \cup Viewers, C!Amended(w) PROVE C!OpenComplaintsAreFlagged'
  BY <1>0, <1>14 DEF C!Amended
<1>15. ASSUME NEW p \in People, NEW c \in Categories, C!Choose(p, c)
           PROVE  C!OpenComplaintsAreFlagged'
  BY <1>0, <1>15 DEF C!Choose
<1>16. ASSUME NEW p \in People, NEW c \in Categories, NEW status \in C!Manual,
              C!Settle(p, c, status)
       PROVE  C!OpenComplaintsAreFlagged'
  <2>1. PICK r \in C!Records :
          /\ C!Write(c, r, TRUE) /\ cRecords[c] # None /\ C!Open(cRecords[c])
      /\ r.flagged = (cRecords[c].flagged /\ C!Open(r))
    BY <1>16, WrittenBySettle
  <2>2. cRecords'[c] = r /\ r # None /\ \A k \in Categories \ {c} : cRecords'[k] = cRecords[k]
    BY <1>0, <2>1, NoneIsNothing DEF C!Write
  <2> QED BY <1>0, <1>16, <2>1, <2>2 DEF C!Settle
<1> QED BY <1>1, <1>2, <1>3, <1>4, <1>5, <1>6, <1>7, <1>8, <1>9, <1>10, <1>11, <1>12, <1>13,
           <1>14, <1>15, <1>16 DEF C!Next, C!Attaches, C!Marks

(* The whole invariant of a call's complaints.                              *)
LEMMA ComplaintSteps == CloseOutInv /\ C!Next => CloseOutInv'
BY RecordsInvStays, FinalStaysLast, FoundStaysCovered, CoverageStaysRecorded,
   CloseOutGoesOn,
   FlagsStay DEF CloseOutInv

(* What stands still keeps its invariant.                                   *)
LEMMA ComplaintsRest == CloseOutInv /\ UNCHANGED cVars => CloseOutInv'
<1> SUFFICES ASSUME CloseOutInv, UNCHANGED cVars PROVE CloseOutInv'
  OBVIOUS
<1>1. \A w : HoldsRecords(w)' = HoldsRecords(w)
  BY DEF HoldsRecords, cVars
<1>0. /\ cEnded' = cEnded /\ cCoverage' = cCoverage /\ cRecords' = cRecords /\ cTold' = cTold
      /\ cLock' = cLock /\ cAt' = cAt /\ cFound' = cFound /\ cTodo' = cTodo /\ cCopy' = cCopy
      /\ cMissed' = cMissed
  BY DEF cVars
<1>2. RecordsInv'
  <2>0. RecordsInv
    BY DEF CloseOutInv
  <2>1. C!TypeOK'
    BY <1>0, <2>0, Zenon DEF RecordsInv, C!TypeOK
  <2>2. WorkersHaveTheLock' = WorkersHaveTheLock
    BY <1>1 DEF WorkersHaveTheLock, HasTheLock, HoldsRecords, cVars
  <2>3. CopiesAreCurrent' = CopiesAreCurrent
    <3>1. \A w : C!Current(w)' = C!Current(w)
      BY <1>0 DEF C!Current
    <3> QED BY <1>0, <1>1, <3>1 DEF CopiesAreCurrent, CopyIsCurrent, HoldsRecords
  <2>4. HistorySaysSo' = HistorySaysSo
    BY DEF HistorySaysSo, cVars
  <2> QED BY <2>0, <2>1, <2>2, <2>3, <2>4 DEF RecordsInv
<1>3. FinalIsLast' = FinalIsLast /\ CloseOutIsUnderWay' = CloseOutIsUnderWay
  BY DEF FinalIsLast, CloseOutIsUnderWay, cVars
<1>4. FoundIsCovered' = FoundIsCovered /\ CoverageHasRecords' = CoverageHasRecords
  BY DEF FoundIsCovered, CoverageHasRecords, cVars
<1>5. C!OpenComplaintsAreFlagged' = C!OpenComplaintsAreFlagged
  BY DEF C!OpenComplaintsAreFlagged, cVars
<1> QED BY <1>2, <1>3, <1>4, <1>5 DEF CloseOutInv

(* What stands still keeps its invariant: the staff.                        *)
LEMMA StaffRests == StaffInv /\ UNCHANGED sVars => StaffInv'
<1> SUFFICES ASSUME StaffInv, UNCHANGED sVars PROVE StaffInv'
  OBVIOUS
<1>1. \A r : S!WritesUser(r)' = S!WritesUser(r)
  BY DEF S!WritesUser, sVars
<1>2. S!ActiveAdmins' = S!ActiveAdmins /\ \A u, row : S!LosesAdmin(u, row)' = S!LosesAdmin(u, row)
  BY DEF S!ActiveAdmins, S!LosesAdmin, sVars
<1>3. SaverHasTheLock' = SaverHasTheLock
  BY <1>1 DEF SaverHasTheLock, sVars
<1>4. CheckStillHolds' = CheckStillHolds
  BY <1>1, <1>2 DEF CheckStillHolds, sVars
<1>5. S!TypeOK' = S!TypeOK /\ S!TargetsAreDistinct' = S!TargetsAreDistinct
  BY DEF S!TypeOK, S!TargetsAreDistinct, sVars
<1>6. S!AnAdminRemains' = S!AnAdminRemains
  BY <1>2 DEF S!AnAdminRemains, sVars
<1> QED BY <1>3, <1>4, <1>5, <1>6 DEF StaffInv, sVars

(* What stands still keeps its invariant: the start of a call.              *)
LEMMA SetupRests == SetupInv /\ UNCHANGED wVars => SetupInv'
<1> SUFFICES ASSUME SetupInv, UNCHANGED wVars PROVE SetupInv'
  OBVIOUS
<1>1. /\ wFrom' = wFrom /\ wTo' = wTo /\ wCalls' = wCalls /\ wFailures' = wFailures
      /\ wMapping' = wMapping /\ wAt' = wAt /\ wOwn' = wOwn /\ wGiven' = wGiven
  BY DEF wVars
<1>2. W!CallIds' = W!CallIds
  BY <1>1 DEF W!CallIds
<1>3. W!TypeOK'
  BY <1>1, <1>2 DEF SetupInv, W!TypeOK
<1>4. W!Working' = W!Working
  BY <1>1 DEF W!Working
<1>5. OneAtATime'
  BY <1>4 DEF SetupInv, OneAtATime
<1>6. MappedOnce'
  BY <1>1 DEF SetupInv, MappedOnce
<1>7. W!AnswersAgree'
  BY <1>1 DEF SetupInv, W!AnswersAgree
<1> QED BY <1>3, <1>5, <1>6, <1>7 DEF SetupInv

-----------------------------------------------------------------------------
(* The screen of a call (LiveView)                                          *)

(* The socket is that of the call on the page, and only it has anything on  *)
(* its way; a socket that still tries has failures left.                    *)
SocketIsThePages ==
    /\ vSocket.call \in {None, vPage}
    /\ vSocket.call = None => vSocket.state = "off" /\ vPushed = None
    /\ vSocket.state \in {"ticket", "opening", "open", "waiting"} =>
           vSocket.refused < V!MaxAuthFailures

(* A call changes once more when it is completed.                           *)
ChangesLeft == \A c \in Calls \ vOver : vStored[c] \in 0..MaxChanges

ScreenInv == V!TypeOK /\ SocketIsThePages /\ ChangesLeft /\ V!ShowsItsCall

(* A screen starts empty, with its socket off.                              *)
LEMMA ScreenStarts == V!Init => ScreenInv
<1> SUFFICES ASSUME V!Init PROVE ScreenInv
  OBVIOUS
<1>1. /\ 0 \in V!Versions /\ 0 \in 0..MaxFaults /\ 0 \in 0..MaxChanges
      /\ 0 \in 0..V!MaxAuthFailures
  BY PartsAssumption DEF V!ViewAssumption, V!Versions, V!MaxAuthFailures
<1>2. V!TypeOK
  BY <1>1 DEF V!Init, V!TypeOK, V!Views, V!Nothing, V!Off
<1>3. SocketIsThePages /\ ChangesLeft /\ V!ShowsItsCall
  BY <1>1 DEF V!Init, V!Nothing, V!Off, SocketIsThePages, ChangesLeft, V!ShowsItsCall
<1> QED BY <1>2, <1>3 DEF ScreenInv

(* The server's steps, and those of the socket.                             *)
LEMMA ServerSteps ==
    ASSUME ScreenInv, (\E c \in Calls : V!Change(c) \/ V!Touch(c)) \/ V!Push
    PROVE  ScreenInv'
<1> USE PartsAssumption, NoneIsNothing
    DEF V!ViewAssumption, ScreenInv, V!TypeOK, V!Versions, SocketIsThePages, ChangesLeft,
        V!ShowsItsCall, V!server, V!link
<1>1. ASSUME NEW c \in Calls, V!Change(c) PROVE ScreenInv'
  BY <1>1 DEF V!Change
<1>2. ASSUME NEW c \in Calls, V!Touch(c) PROVE ScreenInv'
  BY <1>2 DEF V!Touch
<1>3. CASE V!Push
  BY <1>3 DEF V!Push
<1> QED BY <1>1, <1>2, <1>3

(* A step that moves only the socket keeps the invariant if the socket is   *)
(* still the page's.                                                        *)
LEMMA SocketMoves ==
    ASSUME ScreenInv,
           UNCHANGED <<vStored, vRevision, vOver, vPage, vShown, vCompleting, vRequests>>,
           vSocket' \in [call : Calls \cup {None}, refused : 0..V!MaxAuthFailures,
                         state : {"off", "ticket", "opening", "open", "waiting", "failed"}],
           vSeen' \in V!Versions, vPushed' \in {vPushed, None}, vFaults' \in 0..MaxFaults,
           SocketIsThePages'
    PROVE  ScreenInv'
<1>1. V!TypeOK'
  BY DEF ScreenInv, V!TypeOK, V!Versions, V!Views
<1>2. ChangesLeft' /\ V!ShowsItsCall'
  BY DEF ScreenInv, ChangesLeft, V!ShowsItsCall
<1> QED BY <1>1, <1>2 DEF ScreenInv

(* Tickets, refusals, drops and reconnects.                                 *)
LEMMA SocketSteps ==
    ASSUME ScreenInv,
           \/ V!TicketGranted \/ V!TicketFails \/ V!Connected \/ V!NotFound \/ V!Refused
           \/ V!Drops \/ V!Reconnect
    PROVE  ScreenInv'
<1>0. /\ vSocket \in [call : Calls \cup {None}, refused : 0..V!MaxAuthFailures,
                     state : {"off", "ticket", "opening", "open", "waiting", "failed"}]
      /\ vSeen \in V!Versions /\ 0 \in V!Versions /\ vFaults \in 0..MaxFaults /\ MaxFaults \in Nat
      /\ SocketIsThePages
      /\ \A c \in Calls : vRevision[c] \in V!Versions
  BY PartsAssumption DEF ScreenInv, V!TypeOK, V!ViewAssumption, V!Versions
<1>1. V!Fault => vFaults' \in 0..MaxFaults
  BY <1>0 DEF V!Fault
<1> USE DEF SocketIsThePages, V!SocketTo, V!Dropped, V!server, V!link, V!MaxAuthFailures
<1>2. CASE V!TicketGranted
  BY <1>0, <1>2, SocketMoves DEF V!TicketGranted
<1>3. CASE V!TicketFails
  BY <1>0, <1>1, <1>3, SocketMoves DEF V!TicketFails
<1>4. CASE V!Connected
  BY <1>0, <1>4, SocketMoves, NoneIsNothing DEF V!Connected
<1>5. CASE V!NotFound
  BY <1>0, <1>1, <1>5, SocketMoves DEF V!NotFound
<1>6. CASE V!Refused
  <2> DEFINE next == IF vSocket.refused + 1 >= 2 THEN "failed" ELSE "waiting"
  <2>1. vSocket' = [call |-> vSocket.call, refused |-> vSocket.refused + 1, state |-> next]
    BY <1>0, <1>6 DEF V!Refused
  <2>2. vSocket.refused + 1 \in 0..2 /\ next \in {"failed", "waiting"}
        /\ (next = "waiting" => vSocket.refused + 1 < 2) /\ vSocket.call \in {None, vPage}
        /\ vSocket.call \in Calls \cup {None} /\ (vSocket.call = None => next = "off")
    BY <1>0, <1>6 DEF V!Refused
  <2> HIDE DEF next
  <2>3. SocketIsThePages' /\ vPushed' = vPushed
    BY <1>6, <2>1, <2>2 DEF V!Refused
  <2> QED BY <1>0, <1>1, <1>6, <2>1, <2>2, <2>3, SocketMoves DEF V!Refused
<1>7. CASE V!Drops
  <2>1. vSocket' = [call |-> vSocket.call, refused |-> 0, state |-> "waiting"]
    BY <1>0, <1>7 DEF V!Drops
  <2>2. SocketIsThePages'
    BY <1>0, <1>7, <2>1 DEF V!Drops
  <2> QED BY <1>0, <1>1, <1>7, <2>1, <2>2, SocketMoves DEF V!Drops
<1>8. CASE V!Reconnect
  BY <1>0, <1>8, SocketMoves DEF V!Reconnect
<1> QED BY <1>2, <1>3, <1>4, <1>5, <1>6, <1>7, <1>8

(* The steps of the screen leave the server alone, but for an answer.       *)
Asking == [for : Calls, why : {"load", "poll", "event", "complete"},
           stage : {"completion", "call", "analysis"}, answer : V!Versions \cup {None}]
Sockets == [call : Calls \cup {None}, refused : 0..V!MaxAuthFailures,
            state : {"off", "ticket", "opening", "open", "waiting", "failed"}]

(* A step that leaves the server alone keeps the invariant if what it sets  *)
(* is typed and the page's.                                                 *)
LEMMA ScreenMoves ==
    ASSUME ScreenInv, UNCHANGED <<vStored, vRevision, vOver>>,
           vPage' \in Calls \cup {None}, vShown' \in [call : V!Views, analysis : V!Views],
           vCompleting' \in BOOLEAN, vRequests' \in [Slots -> Asking \cup {None}],
           vSocket' \in Sockets, vSeen' \in V!Versions, vPushed' \in V!Versions \cup {None},
           vFaults' \in 0..MaxFaults, SocketIsThePages', V!ShowsItsCall'
    PROVE  ScreenInv'
<1>1. V!TypeOK'
  BY DEF ScreenInv, V!TypeOK, V!Versions, V!Views, Asking, Sockets
<1>2. ChangesLeft'
  BY DEF ScreenInv, ChangesLeft
<1> QED BY <1>1, <1>2 DEF ScreenInv

(* What the invariant says of the screen's variables, by name.              *)
LEMMA ScreenTypes ==
    ASSUME ScreenInv
    PROVE  /\ vPage \in Calls \cup {None} /\ vShown \in [call : V!Views, analysis : V!Views]
           /\ vCompleting \in BOOLEAN /\ vRequests \in [Slots -> Asking \cup {None}]
           /\ vSocket \in Sockets /\ vSeen \in V!Versions /\ vPushed \in V!Versions \cup {None}
           /\ vFaults \in 0..MaxFaults /\ SocketIsThePages /\ V!ShowsItsCall
           /\ 0 \in V!Versions
BY PartsAssumption
   DEF ScreenInv, V!TypeOK, V!Versions, V!Views, Asking, Sockets, V!ViewAssumption

(* Whatever is loaded is the call of the page.                              *)
LEMMA LoadedIsThePages ==
    ASSUME ScreenInv, V!Loaded
    PROVE  vPage \in Calls
BY ScreenTypes DEF V!ShowsItsCall, V!Loaded, V!Views

(* What an answer puts on the screen.                                       *)
LEMMA ViewsAreShown ==
    ASSUME NEW c \in Calls, NEW v \in V!Versions, NEW shown \in [call : V!Views, analysis : V!Views]
    PROVE  /\ V!View(c, v) \in V!Views /\ V!View(c, v).of = c
           /\ [shown EXCEPT !.call = V!View(c, v)] =
                  [call |-> V!View(c, v), analysis |-> shown.analysis]
           /\ [shown EXCEPT !.analysis = V!View(c, v)] =
                  [call |-> shown.call, analysis |-> V!View(c, v)]
BY DEF V!View, V!Views

(* Sending a request keeps the slots typed.                                 *)
LEMMA RequestsAreAsked ==
    ASSUME ScreenInv, NEW s \in Slots, NEW c \in Calls,
           NEW why \in {"load", "poll", "event", "complete"},
           NEW stage \in {"completion", "call", "analysis"},
           V!Send(s, V!Request(c, why, stage))
    PROVE  vRequests' \in [Slots -> Asking \cup {None}]
<1>1. V!Request(c, why, stage) \in Asking
  BY DEF V!Request, Asking
<1> HIDE DEF V!Request
<1> QED BY <1>1, ScreenTypes DEF V!Send

(* What follows a refresh connects the socket of the call on the page, or   *)
(* leaves it alone, or drops it.                                            *)
LEMMA RefreshEnds ==
    ASSUME ScreenInv, NEW s \in Slots, vRequests[s] # None, V!AfterRefresh(s), vPage' = vPage
    PROVE  /\ vRequests' \in [Slots -> Asking \cup {None}] /\ vCompleting' \in BOOLEAN
           /\ vSocket' \in Sockets /\ vSeen' \in V!Versions /\ vPushed' \in V!Versions \cup {None}
           /\ SocketIsThePages'
<1>0. vRequests[s] \in Asking
  BY ScreenTypes
<1>1. vRequests' \in [Slots -> Asking \cup {None}]
  BY ScreenTypes DEF V!AfterRefresh, V!Done
<1>2. CASE vRequests[s].why = "load" /\ vPage = vRequests[s].for
  <2>1. vSocket' = [call |-> vPage, state |-> "ticket", refused |-> 0] /\ vPage \in Calls
        /\ vPushed' = None /\ vSeen' = 0 /\ vCompleting' = vCompleting
    BY <1>0, <1>2 DEF V!AfterRefresh, V!Connect, V!Dropped, Asking
  <2> QED BY <1>1, <2>1, ScreenTypes, NoneIsNothing
          DEF Sockets, SocketIsThePages, V!MaxAuthFailures
<1>3. CASE vRequests[s].why = "complete"
  <2>1. vSocket' = V!Off /\ vPushed' = None /\ vSeen' = 0
        /\ vCompleting' = (vCompleting /\ vPage # vRequests[s].for)
    BY <1>0, <1>3 DEF V!AfterRefresh, V!Disconnect, V!Dropped, Asking
  <2>2. vCompleting' \in BOOLEAN
    BY <2>1, ScreenTypes
  <2> QED BY <1>1, <2>1, <2>2, ScreenTypes DEF Sockets, SocketIsThePages,
     V!MaxAuthFailures, V!Off
<1>4. CASE /\ ~(vRequests[s].why = "load" /\ vPage = vRequests[s].for)
           /\ vRequests[s].why # "complete"
  <2>1. UNCHANGED <<vSocket, vSeen, vPushed, vCompleting>>
    BY <1>4 DEF V!AfterRefresh, V!link
  <2> QED BY <1>1, <2>1, ScreenTypes DEF SocketIsThePages
<1> QED BY <1>2, <1>3, <1>4

(* The page: another call is opened, or it is left.                         *)
LEMMA PageSteps ==
    ASSUME ScreenInv, V!Leave \/ \E s \in Slots, c \in Calls : V!Open(s, c)
    PROVE  ScreenInv'
<1> USE ScreenTypes DEF V!server, V!Disconnect, V!Dropped
<1>0. V!Nothing \in [call : V!Views, analysis : V!Views] /\ V!Off \in Sockets
  BY DEF V!Nothing, V!Off, V!Views, Sockets, V!MaxAuthFailures
<1>1. ASSUME vShown' = V!Nothing, vSocket' = V!Off, vPushed' = None
      PROVE  SocketIsThePages' /\ V!ShowsItsCall'
  BY <1>1 DEF V!Nothing, V!Off, SocketIsThePages, V!ShowsItsCall, V!MaxAuthFailures
<1>2. CASE V!Leave
  BY <1>0, <1>1, <1>2, ScreenMoves DEF V!Leave
<1>3. ASSUME NEW s \in Slots, NEW c \in Calls, V!Open(s, c) PROVE ScreenInv'
  BY <1>0, <1>1, <1>3, ScreenMoves, RequestsAreAsked DEF V!Open
<1> QED BY <1>2, <1>3

(* What the screen asks for.                                                *)
LEMMA AskingSteps ==
    ASSUME ScreenInv, NEW s \in Slots, V!Poll(s) \/ V!Receive(s) \/ V!Complete(s)
    PROVE  ScreenInv'
<1> USE ScreenTypes DEF V!server, V!link
<1>1. CASE V!Poll(s)
  BY <1>1, ScreenMoves, LoadedIsThePages, RequestsAreAsked
     DEF V!Poll, SocketIsThePages, V!ShowsItsCall
<1>2. CASE V!Complete(s)
  BY <1>2, ScreenMoves, LoadedIsThePages, RequestsAreAsked
     DEF V!Complete, SocketIsThePages, V!ShowsItsCall
<1>3. CASE V!Receive(s)
  <2>1. vSocket.call = vPage /\ vPage \in Calls /\ vPushed \in V!Versions
    BY <1>3 DEF V!Receive, SocketIsThePages
  <2> DEFINE view == V!View(vPage, vPushed)
  <2>2. vShown' = [call |-> vShown.call, analysis |-> view] /\ view \in V!Views /\ view.of = vPage
    BY <1>3, <2>1, ViewsAreShown DEF V!Receive
  <2>3. vSocket' = [call |-> vSocket.call, refused |-> 0, state |-> vSocket.state]
        /\ vPushed' = None
    BY <1>3 DEF V!Receive, Sockets
  <2>4. vSocket' \in Sockets /\ SocketIsThePages'
    BY <1>3, <2>3 DEF V!Receive, Sockets, SocketIsThePages, V!MaxAuthFailures
  <2> HIDE DEF view
  <2>5. vShown' \in [call : V!Views, analysis : V!Views] /\ V!ShowsItsCall'
    BY <1>3, <2>2 DEF V!Receive, V!ShowsItsCall
  <2>6. vRequests' \in [Slots -> Asking \cup {None}]
    BY <1>3, <2>1, RequestsAreAsked DEF V!Receive
  <2> QED BY <1>3, <2>3, <2>4, <2>5, <2>6, ScreenMoves DEF V!Receive
<1> QED BY <1>1, <1>2, <1>3

(* The server answers: a completion is one more change of the call.         *)
LEMMA AnswerSteps ==
    ASSUME ScreenInv, NEW s \in Slots, V!Answer(s)
    PROVE  ScreenInv'
<1> DEFINE c == vRequests[s].for
           changes == vRequests[s].stage = "completion" /\ c \notin vOver
           version == IF changes THEN vStored[c] + 1 ELSE vStored[c]
<1>1. vRequests[s] \in Asking /\ c \in Calls
  BY ScreenTypes DEF V!Answer, Asking
<1>2. /\ MaxChanges \in Nat
      /\ vStored[c] \in V!Versions
      /\ (c \notin vOver => vStored[c] \in 0..MaxChanges)
  BY <1>1, PartsAssumption DEF ScreenInv, V!TypeOK, ChangesLeft, V!ViewAssumption
<1>3. version \in V!Versions
  BY <1>2 DEF V!Versions
<1>4. /\ vOver' = IF changes THEN vOver \cup {c} ELSE vOver
      /\ vStored' = [vStored EXCEPT ![c] = version]
      /\ vRevision' = IF changes THEN [vRevision EXCEPT ![c] = version] ELSE vRevision
      /\ vRequests' = [vRequests EXCEPT ![s].answer = version]
      /\ UNCHANGED <<vPage, vShown, vCompleting, vSocket, vSeen, vPushed, vFaults>>
  BY DEF V!Answer, V!link
<1>5. vRequests' \in [Slots -> Asking \cup {None}]
  BY <1>1, <1>3, <1>4, ScreenTypes DEF Asking
<1>6. ChangesLeft'
  BY <1>1, <1>2, <1>4 DEF ScreenInv, ChangesLeft, V!TypeOK
<1> HIDE DEF changes, version, c
<1>7. V!TypeOK'
  BY <1>1, <1>3, <1>4, <1>5 DEF ScreenInv, V!TypeOK, V!Views, V!Versions, Asking
<1> QED BY <1>4, <1>6, <1>7 DEF ScreenInv, SocketIsThePages, V!ShowsItsCall

(* An answer arrives: of another call than the page's it is not shown.      *)
LEMMA ArrivalSteps ==
    ASSUME ScreenInv, NEW s \in Slots,
           V!CallArrives(s) \/ V!AnalysisArrives(s) \/ V!CompletionArrives(s)
    PROVE  ScreenInv'
<1> DEFINE c == vRequests[s].for
           view == V!View(c, vRequests[s].answer)
<1>1. vRequests[s] \in Asking /\ c \in Calls /\ vRequests[s] # None
      /\ vRequests[s].answer \in V!Versions
  BY ScreenTypes DEF V!CallArrives, V!AnalysisArrives, V!CompletionArrives, V!Answered,
     Asking
<1>2. view \in V!Views /\ view.of = c
  BY <1>1, ViewsAreShown, ScreenTypes
<1>3. ASSUME NEW stage \in {"completion", "call", "analysis"}, V!Goes(s, stage)
      PROVE  vRequests' \in [Slots -> Asking \cup {None}]
  BY <1>1, <1>3, ScreenTypes DEF V!Goes, Asking
<1>4. V!Done(s) => vRequests' \in [Slots -> Asking \cup {None}]
  BY ScreenTypes DEF V!Done
<1>5. ASSUME vPage' = vPage, \/ vShown' = vShown
                             \/ c = vPage /\ vShown' = [vShown EXCEPT !.call = view]
                             \/ c = vPage /\ vShown' = [vShown EXCEPT !.analysis = view]
      PROVE  vShown' \in [call : V!Views, analysis : V!Views] /\ V!ShowsItsCall'
  <2>1. vShown' \in {vShown, [call |-> view, analysis |-> vShown.analysis],
                     [call |-> vShown.call, analysis |-> view]}
        /\ (vShown' = vShown \/ c = vPage)
    BY <1>1, <1>5, ScreenTypes, ViewsAreShown
  <2> HIDE DEF view, c
  <2> QED BY <1>2, <1>5, <2>1, ScreenTypes DEF V!ShowsItsCall
<1> HIDE DEF view
<1>6. CASE V!CallArrives(s)
  <2>1. vShown' \in [call : V!Views, analysis : V!Views] /\ V!ShowsItsCall'
    BY <1>5, <1>6 DEF V!CallArrives, V!Stale, view
  <2>2. CASE V!AfterRefresh(s)
    BY <1>1, <1>6, <2>1, <2>2, RefreshEnds, ScreenMoves, ScreenTypes DEF V!CallArrives,
       V!server
  <2>3. CASE V!Goes(s, "analysis") /\ UNCHANGED <<vSocket, vSeen, vPushed, vCompleting>>
    BY <1>3, <1>6, <2>1, <2>3, ScreenMoves, ScreenTypes
       DEF V!CallArrives, V!server, SocketIsThePages
  <2> QED BY <1>6, <2>2, <2>3 DEF V!CallArrives, V!link
<1>7. CASE V!AnalysisArrives(s)
  <2>1. vShown' \in [call : V!Views, analysis : V!Views] /\ V!ShowsItsCall'
    BY <1>5, <1>7 DEF V!AnalysisArrives, V!Stale, view
  <2> QED BY <1>1, <1>7, <2>1, RefreshEnds, ScreenMoves, ScreenTypes
          DEF V!AnalysisArrives, V!server
<1>8. CASE V!CompletionArrives(s)
  <2>1. vShown' \in [call : V!Views, analysis : V!Views] /\ V!ShowsItsCall'
    BY <1>5, <1>8 DEF V!CompletionArrives, V!Stale, view
  <2>2. vRequests' \in [Slots -> Asking \cup {None}]
    BY <1>3, <1>4, <1>8 DEF V!CompletionArrives
  <2> QED BY <1>8, <2>1, <2>2, ScreenMoves, ScreenTypes
          DEF V!CompletionArrives, V!server, V!link, SocketIsThePages
<1> QED BY <1>6, <1>7, <1>8

(* A request that fails shows nothing.                                      *)
LEMMA FailureSteps ==
    ASSUME ScreenInv, NEW s \in Slots, V!Fails(s)
    PROVE  ScreenInv'
<1>1. vFaults' \in 0..MaxFaults
  BY ScreenTypes, PartsAssumption DEF V!Fails, V!Fault, V!ViewAssumption
<1>2. UNCHANGED <<vStored, vRevision, vOver, vPage, vShown>> /\ V!ShowsItsCall'
  BY ScreenTypes DEF V!Fails, V!server, V!ShowsItsCall
<1>3. CASE V!AfterRefresh(s)
  BY <1>1, <1>2, <1>3, RefreshEnds, ScreenMoves, ScreenTypes DEF V!Fails
<1>4. CASE /\ V!Done(s) /\ UNCHANGED <<vSocket, vSeen, vPushed>>
           /\ vCompleting' = (vCompleting /\ ~(vRequests[s].why = "complete" /\ ~V!Stale(s)))
  <2>1. vRequests' \in [Slots -> Asking \cup {None}] /\ vCompleting' \in BOOLEAN
    BY <1>4, ScreenTypes DEF V!Done
  <2> QED BY <1>1, <1>2, <1>4, <2>1, ScreenMoves, ScreenTypes DEF SocketIsThePages
<1> QED BY <1>3, <1>4 DEF V!Fails, V!link

(* Every step of the screen and of the server.                              *)
LEMMA ScreenSteps == ScreenInv /\ V!Next => ScreenInv'
BY ServerSteps, SocketSteps, PageSteps, AskingSteps, AnswerSteps, ArrivalSteps, FailureSteps
   DEF V!Next, V!Progress

(* A screen nobody uses stays as it is.                                     *)
LEMMA ScreenRests == ScreenInv /\ UNCHANGED vVars => ScreenInv'
BY ScreenTypes, ScreenMoves DEF vVars, SocketIsThePages, V!ShowsItsCall

-----------------------------------------------------------------------------
(* The reports page (Reports)                                               *)

(* No answer is the absence of one.                                         *)
NoneIsNoAnswer == \A key, report : [key |-> key, report |-> report] # None

Flights(reports) ==
    [of : R!Views, filters : AskedFilters, live : BOOLEAN, served : BOOLEAN, report : reports]

(* A request that still counts asks for what the page is set to, and brings *)
(* that report or none.                                                     *)
FlightsAreThePages ==
    /\ rPage \in [view : R!Views, filters : AskedFilters \cup {None}]
    /\ \E reports : rFlights \subseteq Flights(reports)
    /\ \A r \in rFlights :
           /\ r.live => r.filters = rPage.filters
           /\ r.report # None => r.report.filters = r.filters

AnswersAreTheirs ==
    /\ rLoaded = [v \in R!Views |-> rLoaded[v]]
    /\ \A v \in R!Views : rLoaded[v] # None /\ rLoaded[v].report # None =>
           rLoaded[v].report.filters = rLoaded[v].key

(* What stands on the page is on its way or there.                          *)
Awaited(v) ==
    rPage.filters # None /\ (v = "complaints" \/ rPage.view = v) =>
        \/ \E r \in rFlights : r.of = v /\ r.live
        \/ rLoaded[v] # None /\ rLoaded[v].key = rPage.filters

PageInv == FlightsAreThePages /\ AnswersAreTheirs /\ \A v \in R!Views : Awaited(v)

(* A report is of the filters it was asked with.                            *)
LEMMA ReportsNameTheirFilters ==
    ASSUME NEW r
    PROVE  R!ReportOf(r) # None => R!ReportOf(r).filters = r.filters
<1>1. ASSUME NEW f
      PROVE  R!ComplaintReport(f) = None \/ R!ComplaintReport(f).filters = f
  BY Zenon DEF R!ComplaintReport
<1>2. ASSUME NEW f
      PROVE  R!PerformanceReport(f) = None \/ R!PerformanceReport(f).filters = f
  BY DEF R!PerformanceReport
<1> QED BY <1>1, <1>2 DEF R!ReportOf

(* What is asked for counts, names its view and filters, and has no report  *)
(* yet.                                                                     *)
LEMMA RequestsAreFlights ==
    ASSUME NEW v \in R!Views, NEW f \in AskedFilters \cup {None}, NEW reports, None \in reports
    PROVE  /\ R!Request(v, f) \subseteq Flights(reports)
           /\ \A r \in R!Request(v, f) : r.live /\ r.of = v /\ r.filters = f /\ r.report = None
           /\ f # None => R!Request(v, f) # {}
<1>1. CASE f = None
  BY <1>1 DEF R!Request
<1>2. CASE f # None
  <2> DEFINE r == [of |-> v, filters |-> f, live |-> TRUE, served |-> FALSE, report |-> None]
  <2>1. R!Request(v, f) = {r}
    BY <1>2 DEF R!Request
  <2>2. r \in Flights(reports)
    BY <1>2 DEF Flights
  <2> QED BY <2>1, <2>2
<1> QED BY <1>1, <1>2

(* The page opens with a request for its reports.                           *)
LEMMA PageStarts == R!Init => PageInv
<1> SUFFICES ASSUME R!Init PROVE PageInv
  OBVIOUS
<1>1. PICK f \in AskedFilters :
        /\ rPage = [view |-> "complaints", filters |-> f]
        /\ rFlights = R!Request("complaints", f)
  BY DEF R!Init
<1>2. /\ rFlights \subseteq Flights({None})
      /\ \A r \in rFlights : r.live /\ r.of = "complaints" /\ r.filters = f /\ r.report = None
      /\ f # None => rFlights # {}
  BY <1>1, RequestsAreFlights DEF R!Views
<1>3. rLoaded = [v \in R!Views |-> None]
  BY DEF R!Init
<1>4. FlightsAreThePages
  BY <1>1, <1>2 DEF FlightsAreThePages, R!Views
<1>5. AnswersAreTheirs
  BY <1>3 DEF AnswersAreTheirs
<1>6. \A v \in R!Views : Awaited(v)
  BY <1>1, <1>2 DEF Awaited
<1> QED BY <1>4, <1>5, <1>6 DEF PageInv

(* Other filters: what was asked before no longer counts.                   *)
LEMMA FiltersChosen ==
    ASSUME PageInv, NEW f \in AskedFilters \cup {None}, R!ChooseFilters(f)
    PROVE  PageInv'
<1>1. rPage' = [view |-> rPage.view, filters |-> f] /\ rPage.view \in R!Views
      /\ rLoaded' = rLoaded
  BY DEF R!ChooseFilters, R!stored, PageInv, FlightsAreThePages
<1>2. PICK reports : rFlights \subseteq Flights(reports)
  BY DEF PageInv, FlightsAreThePages
<1> DEFINE dead(r) == [r EXCEPT !.live = FALSE]
           more == reports \cup {None}
<1>3. \A r \in rFlights : /\ dead(r) \in Flights(more) /\ ~dead(r).live
                          /\ dead(r).report = r.report /\ dead(r).filters = r.filters
  BY <1>2 DEF Flights
<1>4. \A v \in R!Views :
         /\ R!Request(v, f) \subseteq Flights(more)
         /\ \A r \in R!Request(v, f) : r.live /\ r.of = v /\ r.filters = f /\ r.report = None
         /\ f # None => R!Request(v, f) # {}
  BY RequestsAreFlights
<1>5. rFlights' = {dead(r) : r \in rFlights} \cup R!Request("complaints", f)
                  \cup (IF rPage.view = "performance" THEN R!Request("performance", f) ELSE {})
  BY DEF R!ChooseFilters
<1> HIDE DEF dead, more
<1>6. FlightsAreThePages'
  <2>1. rFlights' \subseteq Flights(more)
    BY <1>3, <1>4, <1>5 DEF R!Views
  <2>2. \A r \in rFlights' : /\ r.live => r.filters = f
                             /\ r.report # None => r.report.filters = r.filters
    BY <1>3, <1>4, <1>5 DEF R!Views, PageInv, FlightsAreThePages
  <2> QED BY <1>1, <2>1, <2>2 DEF FlightsAreThePages
<1>7. \A v \in R!Views : Awaited(v)'
  <2> SUFFICES ASSUME NEW v \in R!Views, f # None, v = "complaints" \/ rPage.view = v
               PROVE  \E r \in rFlights' : r.of = v /\ r.live
    BY <1>1 DEF Awaited
  <2> QED BY <1>4, <1>5 DEF R!Views
<1> QED BY <1>1, <1>6, <1>7 DEF PageInv, AnswersAreTheirs

(* The figures are opened, or closed and forgotten.                         *)
LEMMA ViewChosen ==
    ASSUME PageInv, NEW v \in R!Views, R!ChooseView(v)
    PROVE  PageInv'
<1>1. rPage' = [view |-> v, filters |-> rPage.filters] /\ rPage.view \in R!Views
      /\ rPage.filters \in AskedFilters \cup {None}
  BY DEF R!ChooseView, PageInv, FlightsAreThePages
<1>2. PICK reports : rFlights \subseteq Flights(reports)
  BY DEF PageInv, FlightsAreThePages
<1> DEFINE more == reports \cup {None}
<1>3. /\ R!Request(v, rPage.filters) \subseteq Flights(more)
      /\ \A r \in R!Request(v, rPage.filters) :
             r.live /\ r.of = v /\ r.filters = rPage.filters /\ r.report = None
      /\ rPage.filters # None => R!Request(v, rPage.filters) # {}
  BY <1>1, RequestsAreFlights
<1>4. rFlights \subseteq Flights(more)
  BY <1>2 DEF Flights
<1> HIDE DEF more
<1>5. CASE v = "performance"
  <2>1. rFlights' = rFlights \cup R!Request(v, rPage.filters) /\ rLoaded' = rLoaded
    BY <1>5 DEF R!ChooseView
  <2>2. FlightsAreThePages'
    BY <1>1, <1>3, <1>4, <2>1 DEF FlightsAreThePages, PageInv
  <2>3. \A w \in R!Views : Awaited(w)'
    BY <1>1, <1>3, <1>5, <2>1 DEF Awaited, PageInv, R!Views
  <2> QED BY <2>1, <2>2, <2>3 DEF PageInv, AnswersAreTheirs
<1>6. CASE v # "performance"
  <2> DEFINE left(r) == IF r.of = "performance" THEN [r EXCEPT !.live = FALSE] ELSE r
  <2>1. \A r \in rFlights : /\ left(r) \in Flights(more) /\ (left(r).live => r.live)
                            /\ (r.of # "performance" => left(r) = r)
                            /\ left(r).report = r.report /\ left(r).filters = r.filters
    BY <1>4 DEF Flights
  <2>2. rFlights' = {left(r) : r \in rFlights}
        /\ rLoaded' = [rLoaded EXCEPT !["performance"] = None]
    BY <1>6 DEF R!ChooseView
  <2> HIDE DEF left
  <2>3. FlightsAreThePages'
    <3>1. rFlights' \subseteq Flights(more)
      BY <2>1, <2>2
    <3>2. \A r \in rFlights' : /\ r.live => r.filters = rPage.filters
                               /\ r.report # None => r.report.filters = r.filters
      BY <2>1, <2>2 DEF PageInv, FlightsAreThePages
    <3> QED BY <1>1, <3>1, <3>2 DEF FlightsAreThePages
  <2>4. AnswersAreTheirs'
    BY <2>2 DEF AnswersAreTheirs, PageInv, R!Views
  <2>5. \A w \in R!Views : Awaited(w)'
    <3>1. Awaited("complaints")'
      <4>1. rLoaded'["complaints"] = rLoaded["complaints"]
        BY <2>2 DEF PageInv, AnswersAreTheirs, R!Views
      <4>2. \A r \in rFlights : r.of = "complaints" => r \in rFlights'
        BY <2>1, <2>2
      <4> QED BY <1>1, <4>1, <4>2 DEF Awaited, PageInv, R!Views
    <3>2. Awaited("performance")'
      BY <1>1, <1>6 DEF Awaited
    <3> QED BY <3>1, <3>2 DEF R!Views
  <2> QED BY <2>3, <2>4, <2>5 DEF PageInv
<1> QED BY <1>5, <1>6

(* The service fills the answer in and changes nothing else of a request.   *)
LEMMA AnsweredFlight ==
    ASSUME NEW reports, NEW r \in Flights(reports), NEW answer
    PROVE  LET answered == [r EXCEPT !.served = TRUE, !.report = answer] IN
           /\ answered \in Flights(reports \cup {answer}) /\ answered.report = answer
           /\ answered.of = r.of /\ answered.live = r.live /\ answered.filters = r.filters
BY DEF Flights

(* A request is served.                                                     *)
LEMMA RequestServed ==
    ASSUME PageInv, NEW r \in rFlights, R!Serve(r)
    PROVE  PageInv'
<1>1. PICK reports : rFlights \subseteq Flights(reports)
  BY DEF PageInv, FlightsAreThePages
<1> DEFINE answered == [r EXCEPT !.served = TRUE, !.report = R!ReportOf(r)]
           more == reports \cup {R!ReportOf(r)}
<1>2. /\ answered \in Flights(more) /\ answered.report = R!ReportOf(r)
      /\ answered.of = r.of /\ answered.live = r.live /\ answered.filters = r.filters
  BY <1>1, AnsweredFlight
<1>3. rFlights \subseteq Flights(more)
  BY <1>1 DEF Flights
<1>4. answered.report # None => answered.report.filters = answered.filters
  BY <1>2, ReportsNameTheirFilters
<1>6. rFlights' = (rFlights \ {r}) \cup {answered} /\ rPage' = rPage /\ rLoaded' = rLoaded
  BY DEF R!Serve
<1> HIDE DEF answered, more
<1>7. FlightsAreThePages'
  BY <1>2, <1>3, <1>4, <1>6 DEF PageInv, FlightsAreThePages
<1>8. \A v \in R!Views : Awaited(v)'
  BY <1>2, <1>6 DEF PageInv, Awaited
<1> QED BY <1>6, <1>7, <1>8 DEF PageInv, AnswersAreTheirs

(* An answer, or word that there is none.                                   *)
LEMMA AnswerTaken ==
    ASSUME NoneIsNoAnswer, PageInv, NEW r \in rFlights, NEW answer, R!Taken(r, answer),
           answer # None => answer.filters = r.filters
    PROVE  PageInv'
<1> DEFINE taken == [key |-> r.filters, report |-> answer]
<1>1. rFlights' = rFlights \ {r} /\ rPage' = rPage
      /\ rLoaded' = (IF r.live THEN [rLoaded EXCEPT ![r.of] = taken] ELSE rLoaded)
  BY DEF R!Taken
<1>2. taken # None /\ taken.key = r.filters /\ taken.report = answer
  BY DEF NoneIsNoAnswer
<1>3. r.of \in R!Views
  BY DEF PageInv, FlightsAreThePages, Flights
<1> HIDE DEF taken
<1>4. FlightsAreThePages'
  BY <1>1 DEF PageInv, FlightsAreThePages
<1>5. /\ AnswersAreTheirs'
      /\ \A v \in R!Views : rLoaded'[v] = IF r.live /\ v = r.of THEN taken ELSE rLoaded[v]
  BY <1>1, <1>2, <1>3 DEF PageInv, AnswersAreTheirs
<1>6. ASSUME NEW v \in R!Views PROVE Awaited(v)'
  <2>1. r.live => r.filters = rPage.filters
    BY DEF PageInv, FlightsAreThePages
  <2> QED BY <1>1, <1>2, <1>5, <2>1 DEF PageInv, Awaited
<1> QED BY <1>4, <1>5, <1>6 DEF PageInv

(* Calls that come in and change do not touch the page.                     *)
LEMMA PageSteady ==
    ASSUME PageInv, UNCHANGED <<rPage, rFlights, rLoaded>>
    PROVE  PageInv'
BY DEF PageInv, FlightsAreThePages, AnswersAreTheirs, Awaited

(* Every step of the page and of the store.                                 *)
LEMMA ReportSteps == NoneIsNoAnswer /\ PageInv /\ R!Next => PageInv'
<1> SUFFICES ASSUME NoneIsNoAnswer, PageInv, R!Next PROVE PageInv'
  OBVIOUS
<1>1. ASSUME NEW r \in rFlights, R!Arrives(r) \/ R!Fails(r) PROVE PageInv'
  BY <1>1, AnswerTaken DEF R!Arrives, R!Fails, PageInv, FlightsAreThePages
<1>2. UNCHANGED <<rPage, rFlights, rLoaded>> => PageInv'
  BY PageSteady
<1> QED BY <1>1, <1>2, FiltersChosen, ViewChosen, RequestServed
        DEF R!Next, R!TimePasses, R!CallIsStored, R!ComplaintMoves, R!QuestionAnswered,
            R!CategoryRenamed, R!Change, R!screen

(* With nothing under way, what is on the page is what was asked for.       *)
LEMMA PageShowsWhatIsAsked == PageInv => R!ShowsWhatIsAsked
<1> SUFFICES ASSUME PageInv PROVE R!ShowsWhatIsAsked
  OBVIOUS
<1> DEFINE shown == [complaints |-> R!ComplaintsShown, performance |-> R!PerformanceShown]
<1> SUFFICES ASSUME NEW v \in R!Views, rPage.filters # None,
                    \A r \in rFlights : r.of = v => ~r.live
             PROVE  /\ shown[v] # "loading"
                    /\ shown[v] \in {"report", "error"} => ~R!Updating(v)
                    /\ shown[v] = "report" => rLoaded[v].report.filters = rPage.filters
  BY Zenon DEF R!ShowsWhatIsAsked
<1>1. (v = "complaints" \/ rPage.view = v) => rLoaded[v] # None /\ rLoaded[v].key = rPage.filters
  BY DEF PageInv, Awaited
<1>2. rLoaded[v] # None /\ rLoaded[v].report # None =>
          rLoaded[v].report.filters = rLoaded[v].key
  BY DEF PageInv, AnswersAreTheirs
<1>3. CASE v = "complaints"
  <2>1. shown[v] = R!ComplaintsShown
    BY <1>3
  <2> QED BY <1>1, <1>2, <1>3, <2>1 DEF R!ComplaintsShown, R!Updating
<1>4. CASE v = "performance"
  <2>1. shown[v] = R!PerformanceShown
    BY <1>4
  <2> QED BY <1>1, <1>2, <1>4, <2>1 DEF R!PerformanceShown, R!Updating
<1> QED BY <1>3, <1>4 DEF R!Views

-----------------------------------------------------------------------------
(* The effect of an improvement (ImprovementEffect)                         *)

Evidence == [call : OutputCalls, at : Nat]

(* Records are of outputs observed, by now.                                 *)
Stored(records, observed, now) ==
    /\ records \subseteq Evidence
    /\ \A e \in records : e.at =< now /\ e.call \in observed

(* Of the records of a call one is the first.                               *)
FirstIsKnown(records) ==
    \A c \in OutputCalls : F!TimesOf(c, records) # {} =>
        \E m \in F!TimesOf(c, records) : \A t \in F!TimesOf(c, records) : m =< t

(* Nothing is given, used or reviewed of an improvement before it is live;  *)
(* while nothing fails, every output observed has its evidence.             *)
EffectInv ==
    /\ fClock \in 0..MaxClock /\ fFailures \in Nat
    /\ fAt \in [F!Analyses -> {"rest", "asking", "recording"}]
    /\ fGuided \subseteq F!Analyses /\ fObserved \subseteq OutputCalls /\ IsFiniteSet(fObserved)
    /\ fImprovement \in [from : Nat \cup {None}, until : Nat \cup {None}]
    /\ fImprovement.from # None => fImprovement.from =< fClock
    /\ fGuided \cup fUsages # {} => fImprovement.from # None
    /\ Stored(fPredictions, fObserved, fClock) /\ Stored(fCorrections, fObserved, fClock)
    /\ FirstIsKnown(fPredictions)
    /\ fFailures = 0 => \A c \in fObserved : F!TimesOf(c, fPredictions) # {}

(* At the start nothing is observed.                                        *)
LEMMA EffectStarts == F!Init => EffectInv
<1> SUFFICES ASSUME F!Init PROVE EffectInv
  OBVIOUS
<1>1. 0 \in 0..MaxClock
  BY PartsAssumption DEF F!EffectAssumption
<1>2. IsFiniteSet({})
  BY FS_EmptySet
<1> QED BY <1>1, <1>2 DEF F!Init, EffectInv, Stored, FirstIsKnown, F!TimesOf, F!Analyses

(* What is stored of a call, after one more record.                         *)
LEMMA OneMoreRecord ==
    ASSUME NEW records, NEW observed, NEW now \in Nat, Stored(records, observed, now),
           NEW c \in OutputCalls, NEW e, e = [call |-> c, at |-> now]
    PROVE  /\ Stored(records \cup {e}, observed \cup {c}, now)
           /\ \A d : F!TimesOf(d, records \cup {e}) =
                     F!TimesOf(d, records) \cup (IF d = c THEN {now} ELSE {})
           /\ \A d : \A t \in F!TimesOf(d, records) : t \in Nat /\ t =< now
<1>2. Stored(records \cup {e}, observed \cup {c}, now)
  BY DEF Stored, Evidence
<1>3. \A d : F!TimesOf(d, records \cup {e}) =
             F!TimesOf(d, records) \cup (IF d = c THEN {now} ELSE {})
  BY DEF F!TimesOf
<1>4. \A d : \A t \in F!TimesOf(d, records) : t \in Nat /\ t =< now
  BY DEF F!TimesOf, Stored, Evidence
<1> QED BY <1>2, <1>3, <1>4

(* Min is the least there is.                                               *)
LEMMA LeastIs ==
    ASSUME NEW A, \A t \in A : t \in Nat, NEW m \in A, \A t \in A : m =< t
    PROVE  F!Min(A) = m
<1>1. F!Min(A) \in A /\ \A t \in A : F!Min(A) =< t
  BY DEF F!Min
<1> QED BY <1>1

(* A record made now is not before the first.                               *)
LEMMA FirstStaysFirst ==
    ASSUME NEW records, NEW observed, NEW now \in Nat, Stored(records, observed, now),
           FirstIsKnown(records), NEW c \in OutputCalls, NEW e, e = [call |-> c, at |-> now]
    PROVE  /\ FirstIsKnown(records \cup {e})
           /\ \A d \in OutputCalls : F!TimesOf(d, records) # {} =>
                 F!Min(F!TimesOf(d, records \cup {e})) = F!Min(F!TimesOf(d, records))
<1>0. /\ \A d : F!TimesOf(d, records \cup {e}) =
                 F!TimesOf(d, records) \cup (IF d = c THEN {now} ELSE {})
      /\ \A d : \A t \in F!TimesOf(d, records) : t \in Nat /\ t =< now
  BY DEF F!TimesOf, Stored, Evidence
<1>1. ASSUME NEW d \in OutputCalls, F!TimesOf(d, records) # {}
      PROVE  \E m \in F!TimesOf(d, records) :
                /\ m \in Nat
                /\ \A t \in F!TimesOf(d, records) : t \in Nat /\ m =< t
                /\ \A t \in F!TimesOf(d, records \cup {e}) : t \in Nat /\ m =< t
                /\ m \in F!TimesOf(d, records \cup {e})
  <2>1. PICK m \in F!TimesOf(d, records) : \A t \in F!TimesOf(d, records) : m =< t
    BY <1>1 DEF FirstIsKnown
  <2>2. m \in F!TimesOf(d, records \cup {e}) /\ m \in Nat /\ m =< now
    BY <1>0, <2>1
  <2>3. \A t \in F!TimesOf(d, records \cup {e}) : t \in Nat /\ m =< t
    BY <1>0, <2>1, <2>2
  <2> QED BY <1>0, <2>1, <2>2, <2>3
<1>2. FirstIsKnown(records \cup {e})
  <2> SUFFICES ASSUME NEW d \in OutputCalls, F!TimesOf(d, records \cup {e}) # {}
               PROVE  \E m \in F!TimesOf(d, records \cup {e}) :
                          \A t \in F!TimesOf(d, records \cup {e}) : m =< t
    BY DEF FirstIsKnown
  <2>1. CASE F!TimesOf(d, records) = {}
    BY <1>0, <2>1
  <2>2. CASE F!TimesOf(d, records) # {}
    BY <1>1, <2>2
  <2> QED BY <2>1, <2>2
<1>3. ASSUME NEW d \in OutputCalls, F!TimesOf(d, records) # {}
      PROVE  F!Min(F!TimesOf(d, records \cup {e})) = F!Min(F!TimesOf(d, records))
  <2>1. PICK m \in F!TimesOf(d, records) :
                /\ m \in Nat
                /\ \A t \in F!TimesOf(d, records) : t \in Nat /\ m =< t
                /\ \A t \in F!TimesOf(d, records \cup {e}) : t \in Nat /\ m =< t
                /\ m \in F!TimesOf(d, records \cup {e})
    BY <1>1, <1>3
  <2>2. F!Min(F!TimesOf(d, records)) = m
    BY <2>1, LeastIs
  <2>3. F!Min(F!TimesOf(d, records \cup {e})) = m
    BY <2>1, LeastIs
  <2> QED BY <2>2, <2>3
<1> QED BY <1>2, <1>3

(* An analysis stores what it gave, and a reviewer a correction of it.      *)
LEMMA OutcomeKept ==
    ASSUME EffectInv, NEW a \in F!Analyses, F!RecordOutcome(a)
    PROVE  EffectInv'
<1> DEFINE c == a[1]
<1>1. c \in OutputCalls /\ fClock \in Nat /\ fFailures \in Nat
  BY PartsAssumption DEF F!Analyses, EffectInv, F!EffectAssumption
<1> DEFINE e == F!At(c)
<1>2. e = [call |-> c, at |-> fClock]
  BY DEF F!At
<1> HIDE DEF c, e
<1>3. /\ Stored(fPredictions \cup {e}, fObserved \cup {c}, fClock)
      /\ FirstIsKnown(fPredictions \cup {e})
  BY <1>1, <1>2, OneMoreRecord, FirstStaysFirst DEF EffectInv
<1>4. /\ IsFiniteSet(fObserved \cup {c})
      /\ Stored(fPredictions, fObserved \cup {c}, fClock)
      /\ Stored(fCorrections, fObserved \cup {c}, fClock)
  BY FS_AddElement DEF EffectInv, Stored
<1>5. /\ fObserved' = fObserved \cup {c} /\ fAt' = [fAt EXCEPT ![a] = "rest"]
      /\ UNCHANGED <<fClock, fImprovement, fGuided, fCorrections, fUsages>>
      /\ \/ fPredictions' = fPredictions \cup {e} /\ fFailures' = fFailures
         \/ fPredictions' = fPredictions /\ fFailures' = fFailures + 1
  BY DEF F!RecordOutcome, F!Failure, c, e
<1>6. CASE fPredictions' = fPredictions \cup {e} /\ fFailures' = fFailures
  <2>1. \A d \in fObserved' : fFailures' = 0 => F!TimesOf(d, fPredictions') # {}
    BY <1>2, <1>5, <1>6 DEF EffectInv, F!TimesOf
  <2> QED BY <1>1, <1>3, <1>4, <1>5, <1>6, <2>1 DEF EffectInv
<1>7. CASE fPredictions' = fPredictions /\ fFailures' = fFailures + 1
  BY <1>1, <1>4, <1>5, <1>7 DEF EffectInv
<1> QED BY <1>5, <1>6, <1>7

(* A reviewer corrects an output observed.                                  *)
LEMMA CorrectionKept ==
    ASSUME EffectInv, NEW c \in OutputCalls, F!Correct(c)
    PROVE  EffectInv'
<1> DEFINE e == F!At(c)
<1>1. e = [call |-> c, at |-> fClock] /\ fClock \in Nat
  BY PartsAssumption DEF F!At, EffectInv, F!EffectAssumption
<1> HIDE DEF e
<1>2. fObserved \cup {c} = fObserved /\ Stored(fCorrections \cup {e}, fObserved \cup {c}, fClock)
  BY <1>1, OneMoreRecord DEF EffectInv, F!Correct
<1>3. /\ fCorrections' = fCorrections \cup {e}
      /\ UNCHANGED <<fClock, fImprovement, fAt, fGuided, fObserved, fPredictions, fUsages,
                      fFailures>>
  BY DEF F!Correct, e
<1> QED BY <1>2, <1>3 DEF EffectInv

(* Every step of the improvement, its analyses and reviewers.               *)
LEMMA EffectSteps == EffectInv /\ F!Next => EffectInv'
<1> SUFFICES ASSUME EffectInv, F!Next PROVE EffectInv'
  OBVIOUS
<1> USE DEF F!evidence
<1>0. MaxClock \in Nat /\ fClock \in Nat
  BY PartsAssumption DEF F!EffectAssumption, EffectInv
<1>1. CASE F!Tick
  <2>1. fClock' = fClock + 1 /\ fClock' \in 0..MaxClock
    BY <1>0, <1>1 DEF F!Tick, EffectInv
  <2>2. /\ UNCHANGED <<fImprovement, fAt, fGuided, fObserved, fPredictions, fCorrections, fUsages,
                       fFailures>>
    BY <1>1 DEF F!Tick
  <2>3. ASSUME NEW records, Stored(records, fObserved, fClock)
        PROVE  Stored(records, fObserved, fClock + 1)
    BY <1>0, <2>3 DEF Stored, Evidence
  <2>4. fImprovement.from # None => fImprovement.from =< fClock + 1
    BY <1>0 DEF EffectInv
  <2> QED BY <2>1, <2>2, <2>3, <2>4 DEF EffectInv
<1>2. CASE F!GoLive
  BY <1>0, <1>2 DEF F!GoLive, EffectInv
<1>3. CASE F!Deactivate
  BY <1>0, <1>3 DEF F!Deactivate, F!Live, EffectInv
<1>4. ASSUME NEW a \in F!Analyses, F!ReadGuidance(a) PROVE EffectInv'
  <2>1. /\ fGuided' \subseteq fGuided \cup {a} /\ (fGuided' # fGuided => fImprovement.from # None)
        /\ fFailures' \in Nat /\ (fFailures' = 0 => fFailures = 0)
        /\ fAt' = [fAt EXCEPT ![a] = "asking"]
        /\ UNCHANGED <<fClock, fImprovement, fObserved, fPredictions, fCorrections, fUsages>>
    BY <1>4 DEF F!ReadGuidance, F!Failure, F!Live, EffectInv
  <2> QED BY <2>1 DEF EffectInv
<1>5. ASSUME NEW a \in F!Analyses, F!RecordUsage(a) PROVE EffectInv'
  <2>1. /\ fGuided' \subseteq fGuided /\ (fUsages' # fUsages => a \in fGuided)
        /\ fFailures' \in Nat /\ (fFailures' = 0 => fFailures = 0)
        /\ UNCHANGED <<fClock, fImprovement, fObserved, fPredictions, fCorrections>>
    BY <1>5 DEF F!RecordUsage, F!Failure, EffectInv
  <2>2. fAt' \in [F!Analyses -> {"rest", "asking", "recording"}]
    BY <1>5 DEF F!RecordUsage, EffectInv
  <2>3. fImprovement'.from # None \/ fGuided' \cup fUsages' = {}
    BY <2>1 DEF EffectInv
  <2> QED BY <2>1, <2>2, <2>3 DEF EffectInv
<1>6. ASSUME NEW a \in F!Analyses, F!RecordOutcome(a) PROVE EffectInv'
  BY <1>6, OutcomeKept
<1>7. ASSUME NEW c \in OutputCalls, F!Correct(c) PROVE EffectInv'
  BY <1>7, CorrectionKept
<1> QED BY <1>1, <1>2, <1>3, <1>4, <1>5, <1>6, <1>7 DEF F!Next

(* While nothing happens the evidence stays.                                *)
LEMMA EffectRests == EffectInv /\ UNCHANGED fVars => EffectInv'
BY DEF EffectInv, fVars

(* Nothing is evaluated before it is live.                                  *)
LEMMA EffectTypes == EffectInv => F!TypeOK
<1> SUFFICES ASSUME EffectInv PROVE F!TypeOK
  OBVIOUS
<1>1. ASSUME F!Evaluated PROVE fImprovement.from # None
  <2>1. F!Feedback # {}
    <3>1. F!Cardinality({}) = 0
      BY FS_EmptySet DEF F!Cardinality, Cardinality
    <3> QED BY <1>1, <3>1, PartsAssumption DEF F!Evaluated, F!EffectAssumption
  <2> QED BY <2>1 DEF F!Feedback, EffectInv
<1> QED BY <1>1 DEF F!TypeOK, EffectInv, Stored

(* When an output was given, once known, never changes, and what is given   *)
(* from now on is given now.                                                *)
LEMMA GivenStays ==
    ASSUME EffectInv, F!Next, fFailures' = 0
    PROVE  /\ F!Outputs \subseteq F!Outputs'
           /\ \A c \in F!Outputs : F!GivenAt(c) \in Nat /\ F!GivenAt(c)' = F!GivenAt(c)
           /\ \A c \in F!Outputs' \ F!Outputs : F!GivenAt(c)' = fClock
           /\ F!Corrected' = F!Corrected \/ \E c \in F!Outputs : F!Correct(c)
<1> USE DEF F!evidence
<1>0. fFailures = 0 /\ fClock \in Nat
  BY PartsAssumption
     DEF F!Next, F!Tick, F!GoLive, F!Deactivate, F!ReadGuidance, F!RecordUsage, F!RecordOutcome,
         F!Correct, F!Failure, EffectInv, F!EffectAssumption
<1>1. \A c \in F!Outputs : c \in OutputCalls /\ c \in fObserved
  BY DEF F!Outputs, EffectInv, Stored, Evidence
<1>2. \A c \in fObserved : F!TimesOf(c, fPredictions) # {} /\ c \in F!Outputs
  BY <1>0 DEF EffectInv, F!Outputs, F!TimesOf
<1>3. \A c \in F!Outputs : F!GivenAt(c) = F!Min(F!TimesOf(c, fPredictions))
  BY <1>1, <1>2 DEF F!GivenAt
<1>4. ASSUME NEW c \in F!Outputs PROVE F!GivenAt(c) \in Nat
  <2>1. \A t \in F!TimesOf(c, fPredictions) : t \in Nat
    BY DEF F!TimesOf, EffectInv, Stored, Evidence
  <2>2. PICK m \in F!TimesOf(c, fPredictions) : \A t \in F!TimesOf(c, fPredictions) : m =< t
    BY <1>1, <1>2 DEF EffectInv, FirstIsKnown
  <2> QED BY <1>3, <2>1, <2>2, LeastIs
<1>5. CASE UNCHANGED <<fPredictions, fCorrections>>
  BY <1>4, <1>5 DEF F!Outputs, F!GivenAt, F!Corrected
<1>6. ASSUME NEW a \in F!Analyses, F!RecordOutcome(a) PROVE
           /\ F!Outputs \subseteq F!Outputs'
           /\ \A c \in F!Outputs : F!GivenAt(c)' = F!GivenAt(c)
           /\ \A c \in F!Outputs' \ F!Outputs : F!GivenAt(c)' = fClock
           /\ F!Corrected' = F!Corrected
  <2> DEFINE b == a[1]
             e == F!At(b)
  <2>1. /\ b \in OutputCalls /\ e = [call |-> b, at |-> fClock] /\ fCorrections' = fCorrections
        /\ fPredictions' = fPredictions \cup {e}
    BY <1>0, <1>6 DEF F!RecordOutcome, F!Failure, F!Analyses, F!At
  <2> HIDE DEF b, e
  <2>2. F!Outputs' = F!Outputs \cup {b}
    BY <2>1 DEF F!Outputs
  <2>3. ASSUME NEW c \in F!Outputs PROVE F!GivenAt(c)' = F!GivenAt(c)
    <3>1. F!Min(F!TimesOf(c, fPredictions \cup {e})) = F!Min(F!TimesOf(c, fPredictions))
      BY <1>0, <1>1, <1>2, <2>1, FirstStaysFirst DEF EffectInv
    <3>2. F!TimesOf(c, fPredictions') # {}
      BY <1>1, <1>2, <2>1 DEF F!TimesOf
    <3>3. F!GivenAt(c)' = F!Min(F!TimesOf(c, fPredictions'))
      BY <3>2 DEF F!GivenAt
    <3> QED BY <1>3, <2>1, <3>1, <3>3
  <2>4. ASSUME NEW c \in F!Outputs' \ F!Outputs PROVE F!GivenAt(c)' = fClock
    <3>1. c = b /\ c \in OutputCalls
      BY <2>1, <2>2
    <3>2. F!TimesOf(c, fPredictions') = {fClock}
      BY <2>1, <2>4, <3>1 DEF F!TimesOf, F!Outputs
    <3>3. F!Min({fClock}) = fClock
      BY <1>0, LeastIs
    <3> QED BY <3>2, <3>3 DEF F!GivenAt
  <2> QED BY <2>1, <2>2, <2>3, <2>4 DEF F!Corrected
<1>7. ASSUME NEW c \in OutputCalls, F!Correct(c) PROVE
           /\ F!Outputs' = F!Outputs /\ c \in F!Outputs
           /\ \A d \in F!Outputs : F!GivenAt(d)' = F!GivenAt(d)
  <2>1. c \in F!Outputs /\ fPredictions' = fPredictions
        /\ fCorrections' = fCorrections \cup {F!At(c)} /\ F!At(c).call = c
    BY <1>2, <1>7 DEF F!Correct, F!At
  <2>2. F!Outputs' = F!Outputs
    BY <2>1 DEF F!Outputs
  <2>3. \A d \in F!Outputs : F!GivenAt(d)' = F!GivenAt(d)
    BY <1>1, <1>2, <2>1 DEF F!GivenAt
  <2> QED BY <2>1, <2>2, <2>3
<1> QED BY <1>4, <1>5, <1>6, <1>7
        DEF F!Next, F!Tick, F!GoLive, F!Deactivate, F!ReadGuidance, F!RecordUsage

(* One more correction, of what was given before or since.                  *)
LEMMA SharesMove ==
    ASSUME NEW some, IsFiniteSet(some), NEW corrected, NEW c, c \notin corrected
    PROVE  /\ Cardinality(some \cap corrected) \in Nat
           /\ Cardinality(some \cap (corrected \cup {c})) =
                  Cardinality(some \cap corrected) + (IF c \in some THEN 1 ELSE 0)
<1>1. IsFiniteSet(some \cap corrected)
  BY FS_Subset
<1>2. c \in some => some \cap (corrected \cup {c}) = (some \cap corrected) \cup {c}
  OBVIOUS
<1>3. c \notin some => some \cap (corrected \cup {c}) = some \cap corrected
  OBVIOUS
<1>4. Cardinality(some \cap corrected) \in Nat
  BY <1>1, FS_CardinalityType
<1>5. CASE c \in some
  BY <1>1, <1>2, <1>4, <1>5, FS_AddElement
<1>6. CASE c \notin some
  <2>1. Cardinality(some \cap (corrected \cup {c})) = Cardinality(some \cap corrected)
    BY <1>3, <1>6
  <2> QED BY <1>4, <1>6, <2>1
<1> QED BY <1>5, <1>6

(* There are finitely many outputs to count.                                *)
LEMMA OutputsAreFinite == EffectInv => IsFiniteSet(F!Outputs)
<1> SUFFICES ASSUME EffectInv PROVE IsFiniteSet(F!Outputs)
  OBVIOUS
<1>1. F!Outputs \subseteq fObserved /\ IsFiniteSet(fObserved)
  BY DEF F!Outputs, EffectInv, Stored
<1> QED BY <1>1, FS_Subset

(* A corrected output of before lowers the change and one of since raises   *)
(* it, so neither turns the verdict the other way.                          *)
LEMMA VerdictsMove ==
    ASSUME NEW b \in Nat, NEW s \in Nat, NEW x \in Nat, NEW y \in Nat
    PROVE  /\ y * b - (x + 1) * s =< y * b - x * s
           /\ (y + 1) * b - x * s >= y * b - x * s
           /\ y * b - x * s \in Int /\ y * b - (x + 1) * s \in Int
           /\ (y + 1) * b - x * s \in Int
<1>1. /\ (x + 1) * s = x * s + s /\ (y + 1) * b = y * b + b
      /\ x * s \in Int /\ y * b \in Int
  OBVIOUS
<1> QED BY <1>1

(* What one step may do to the effect (EffectIsFair).                       *)
JudgesFairly ==
    fImprovement.from # None /\ fFailures' = 0 =>
        /\ F!Before' = F!Before
        /\ fImprovement' = fImprovement => F!Since \subseteq F!Since'
        /\ \A c \in F!Corrected' \ F!Corrected :
              /\ c \in F!Before => (F!Effect' = "worse" => F!Effect = "worse")
              /\ c \in F!Since => (F!Effect' = "better" => F!Effect = "better")

(* What was given before stays before, and what was given since is not      *)
(* lost.                                                                    *)
LEMMA EffectSidesStay ==
    ASSUME EffectInv, F!Next, fFailures' = 0, fImprovement.from # None
    PROVE  /\ F!Before' = F!Before
           /\ fImprovement' = fImprovement => F!Since \subseteq F!Since'
<1>1. fImprovement.from \in Nat /\ fImprovement.from =< fClock /\ fClock \in Nat
      /\ fImprovement'.from = fImprovement.from
  BY PartsAssumption
     DEF F!Next, F!Tick, F!GoLive, F!Deactivate, F!ReadGuidance, F!RecordUsage, F!RecordOutcome,
         F!Correct, EffectInv, F!EffectAssumption
<1>2. \A c \in F!Outputs' \ F!Outputs : ~(F!GivenAt(c)' < fImprovement.from)
  BY <1>1, GivenStays
<1>3. F!Before' = F!Before
  BY <1>1, <1>2, GivenStays DEF F!Before
<1>4. fImprovement' = fImprovement => F!Since \subseteq F!Since'
  BY GivenStays DEF F!Since
<1> QED BY <1>3, <1>4

(* A correction moves one share by one output.                              *)
LEMMA CorrectionIsFair ==
    ASSUME EffectInv, NEW c \in OutputCalls, c \in F!Outputs, F!Correct(c), F!Next,
           fFailures' = 0, fImprovement.from # None
    PROVE  /\ c \in F!Before => (F!Effect' = "worse" => F!Effect = "worse")
           /\ c \in F!Since => (F!Effect' = "better" => F!Effect = "better")
<1> DEFINE B == F!Before
           A == F!Since
           b == Cardinality(B)
           s == Cardinality(A)
           x == Cardinality(B \cap F!Corrected)
           y == Cardinality(A \cap F!Corrected)
<1>1. IsFiniteSet(B) /\ IsFiniteSet(A) /\ b \in Nat /\ s \in Nat
  BY OutputsAreFinite, FS_Subset, FS_CardinalityType DEF F!Before, F!Since
<1>2. c \notin F!Corrected /\ F!Corrected' = F!Corrected \cup {c}
  <2>1. /\ fCorrections' = fCorrections \cup {F!At(c)} /\ F!At(c).call = c
        /\ \A e \in fCorrections : e.call # c
    BY DEF F!Correct, F!At
  <2> QED BY <2>1 DEF F!Corrected
<1>3. B' = B /\ A' = A
  <2>1. F!Outputs' = F!Outputs /\ fImprovement' = fImprovement
    BY DEF F!Correct, F!Outputs, F!At
  <2>2. \A d \in F!Outputs : F!GivenAt(d)' = F!GivenAt(d)
    BY GivenStays
  <2> QED BY <2>1, <2>2 DEF F!Before, F!Since
<1>4. /\ x \in Nat /\ y \in Nat
      /\ Cardinality(B \cap F!Corrected') = x + (IF c \in B THEN 1 ELSE 0)
      /\ Cardinality(A \cap F!Corrected') = y + (IF c \in A THEN 1 ELSE 0)
  BY <1>1, <1>2, SharesMove
<1>5. \A X : F!Cardinality(X) = Cardinality(X)
  BY DEF F!Cardinality, Cardinality
<1>6. ~(c \in B /\ c \in A)
  <2>1. fImprovement.from \in Nat /\ F!GivenAt(c) \in Nat
    BY GivenStays DEF EffectInv
  <2> QED BY <2>1 DEF F!Before, F!Since
<1>7. /\ F!Change = y * b - x * s /\ F!LeastChange = MinTenths * b * s
      /\ F!Change' = (y + (IF c \in A THEN 1 ELSE 0)) * b - (x + (IF c \in B THEN 1 ELSE 0)) * s
      /\ F!LeastChange' = MinTenths * b * s
  BY <1>3, <1>4, <1>5 DEF F!Change, F!LeastChange
<1>8. MinTenths * b * s \in Int
  BY <1>1, PartsAssumption DEF F!EffectAssumption
<1> HIDE DEF b, s, x, y
<1>9. CASE c \in B
  <2>1. F!Change \in Int /\ F!Change' \in Int /\ F!Change' =< F!Change
    BY <1>1, <1>4, <1>6, <1>7, <1>9, VerdictsMove
  <2> QED BY <1>3, <1>5, <1>6, <1>7, <1>8, <1>9, <2>1 DEF F!Effect
<1>10. CASE c \in A
  <2>1. F!Change \in Int /\ F!Change' \in Int /\ F!Change' >= F!Change
    BY <1>1, <1>4, <1>6, <1>7, <1>10, VerdictsMove
  <2> QED BY <1>3, <1>5, <1>6, <1>7, <1>8, <1>10, <2>1 DEF F!Effect
<1> QED BY <1>9, <1>10

(* So every step judges fairly.                                             *)
LEMMA EffectStaysFair == EffectInv /\ F!Next => JudgesFairly
<1> SUFFICES ASSUME EffectInv, F!Next, fFailures' = 0, fImprovement.from # None
             PROVE  JudgesFairly
  BY DEF JudgesFairly
<1>1. ASSUME NEW c \in F!Corrected' \ F!Corrected
      PROVE  c \in OutputCalls /\ c \in F!Outputs /\ F!Correct(c)
  <2>1. PICK d \in F!Outputs : F!Correct(d)
    BY GivenStays
  <2>2. c = d
    BY <2>1 DEF F!Correct, F!Corrected, F!At
  <2>3. d \in OutputCalls
    BY DEF F!Outputs, EffectInv, Stored, Evidence
  <2> QED BY <2>1, <2>2, <2>3
<1> QED BY <1>1, EffectSidesStay, CorrectionIsFair DEF JudgesFairly

-----------------------------------------------------------------------------
(* Escalation (Escalations).  Whoever is between reading the record and     *)
(* writing it back holds the lock, so with one lock there is one such       *)
(* client, and what it read is still what is stored.                        *)

OneInstanceRuns == \A c, d \in E!Clients : EOn[c] = EOn[d]
NoneIsNobody == None \notin E!Clients /\ None \notin E!Records

EscalationsMeet == E!EscalationsAssumption /\ OneInstanceRuns /\ NoneIsNobody

(* The harness meets what is assumed.                                       *)
LEMMA EscalationHolds == EscalationsMeet
BY PartsAssumption, NoneIsNothing
   DEF EscalationsMeet, OneInstanceRuns, NoneIsNobody, EOn, E!Clients

Assessments == [level : E!Levels, signals : E!Signals]

HoldsEscalation(c) == eAt[c] \in {"folding", "working"}

(* Who holds the record has the lock of its instance.                       *)
HolderHasTheLock == \A c \in E!Clients : HoldsEscalation(c) => eLock[EOn[c]] = c

(* What it read is what is stored, and a supervisor has something to decide *)
(* on.                                                                      *)
HeldIsCurrent ==
    \A c \in E!Clients : HoldsEscalation(c) =>
        /\ eCopy[c] = eEscalation
        /\ eAt[c] = "working" => eEscalation # None /\ eEscalation.status # "resolved"

EscalationInv == E!TypeOK /\ HolderHasTheLock /\ HeldIsCurrent

-----------------------------------------------------------------------------
(* Levels and signals                                                       *)

(* Max has the highest member of a set of levels.                           *)
LEMMA MaxIsHighest ==
    ASSUME NEW X \in SUBSET E!Levels, X # {}
    PROVE  E!Max(X) \in X /\ \A y \in X : E!Max(X) >= y
<1>1. \E x \in X : \A y \in X : x >= y
  <2>1. CASE 3 \in X
    BY <2>1 DEF E!Levels
  <2>2. CASE 3 \notin X /\ 2 \in X
    BY <2>2 DEF E!Levels
  <2>3. CASE 3 \notin X /\ 2 \notin X /\ 1 \in X
    BY <2>3 DEF E!Levels
  <2>4. CASE 3 \notin X /\ 2 \notin X /\ 1 \notin X
    <3>1. PICK z \in X : TRUE
      OBVIOUS
    <3>2. \A y \in X : y = 0
      BY <2>4 DEF E!Levels
    <3> QED BY <3>1, <3>2
  <2> QED BY <2>1, <2>2, <2>3, <2>4
<1> QED BY <1>1 DEF E!Max

(* Of two levels, too.                                                      *)
LEMMA MaxOfTwo ==
    ASSUME NEW x \in E!Levels, NEW y \in E!Levels
    PROVE  E!Max({x, y}) \in {x, y} /\ E!Max({x, y}) >= x /\ E!Max({x, y}) >= y
BY MaxIsHighest

(* A step up from a level is a level, the highest one's being itself.       *)
LEMMA StepUpIsALevel ==
    ASSUME NEW x \in E!Levels
    PROVE  E!Min({3, x + 1}) \in E!Levels
<1>1. \E m \in {3, x + 1} : \A y \in {3, x + 1} : m =< y
  <2>1. CASE x + 1 =< 3
    BY <2>1 DEF E!Levels
  <2>2. CASE ~(x + 1 =< 3)
    BY <2>2 DEF E!Levels
  <2> QED BY <2>1, <2>2
<1>2. E!Min({3, x + 1}) \in {3, x + 1} /\ \A y \in {3, x + 1} : E!Min({3, x + 1}) =< y
  BY <1>1 DEF E!Min
<1> QED BY <1>2 DEF E!Levels

(* Merged signals are as high as either.                                    *)
LEMMA MergeRaises ==
    ASSUME NEW one \in E!Signals, NEW other \in E!Signals
    PROVE  /\ E!Merge(one, other) \in E!Signals
           /\ \A t \in E!Types : E!Merge(one, other)[t] >= one[t]
<1>1. ASSUME NEW t \in E!Types
      PROVE  E!Max({one[t], other[t]}) \in E!Levels /\ E!Max({one[t], other[t]}) >= one[t]
  BY MaxOfTwo DEF E!Signals
<1> QED BY <1>1 DEF E!Merge, E!Signals

(* The level of signals is one of the levels.                               *)
LEMMA CombinedIsALevel ==
    ASSUME NEW signals \in E!Signals
    PROVE  E!CombinedLevel(signals) \in E!Levels
<1>1. {signals[t] : t \in E!Types} \in SUBSET E!Levels /\ {signals[t] : t \in E!Types} # {}
  <2>1. "negative_tone" \in E!Types
    BY DEF E!Types
  <2> QED BY <2>1 DEF E!Signals
<1>2. E!Highest(signals) \in E!Levels
  BY <1>1, MaxIsHighest DEF E!Highest
<1> QED BY <1>2, StepUpIsALevel DEF E!CombinedLevel

(* What the rules and the model find makes an assessment.                   *)
LEMMA AssessmentIsOne ==
    ASSUME NEW rules \in E!Signals, NEW llm \in E!Signals
    PROVE  E!Assessment(rules, llm) \in Assessments
<1> DEFINE levels == {E!CombinedLevel(rules), E!CombinedLevel(llm),
                      E!CombinedLevel(E!Merge(rules, llm))}
<1>1. E!Merge(rules, llm) \in E!Signals
  BY MergeRaises
<1>2. levels \in SUBSET E!Levels
  BY <1>1, CombinedIsALevel
<1>3. E!Max(levels) \in E!Levels
  BY <1>2, MaxIsHighest
<1> QED BY <1>1, <1>3 DEF E!Assessment, Assessments

(* So does finding nothing.                                                 *)
LEMMA NothingIsAnAssessment == E!NoSignals \in E!Signals /\ E!Nothing \in Assessments
<1>1. E!NoSignals \in E!Signals
  BY DEF E!NoSignals, E!Signals, E!Levels
<1> QED BY <1>1, AssessmentIsOne DEF E!Nothing

(* What the phrase rules find are signals,                                  *)
LEMMA RulesFindSignals ==
    ASSUME NEW phrases \in SUBSET E!Phrases, NEW bad \in BOOLEAN
    PROVE  E!FromRules(phrases, bad) \in E!Signals
<1>1. ASSUME NEW t \in E!Phrases PROVE E!PhraseLevel[t] \in E!Levels
  BY DEF E!Phrases, E!PhraseLevel, E!Levels
<1>2. 1 \in E!Levels /\ 0 \in E!Levels
  BY DEF E!Levels
<1> QED BY <1>1, <1>2 DEF E!FromRules, E!Signals

(* and so is what the model may report.                                     *)
LEMMA ModelFindsSignals == E!Findings \subseteq E!Signals
BY DEF E!Findings

-----------------------------------------------------------------------------
(* Folding an assessment into a record keeps it a record, raises its level  *)
(* and signals or leaves them, keeps an acknowledgement, and reopens what   *)
(* was resolved exactly when the level rises.                               *)
LEMMA FoldRaises ==
    ASSUME NoneIsNobody, NEW r \in E!Records, NEW a \in Assessments
    PROVE  /\ E!Folded(r, a) \in E!Records
           /\ E!Folded(r, a).level >= r.level
           /\ \A t \in E!Types : E!Folded(r, a).signals[t] >= r.signals[t]
           /\ r.acknowledged => E!Folded(r, a).acknowledged
           /\ r.status = "resolved" =>
                (E!Folded(r, a).status = "open") = (E!Folded(r, a).level > r.level)
<1>1. r # None
  BY DEF NoneIsNobody
<1>2. CASE a.level = 0
  <2>1. E!Folded(r, a) = r
    BY <1>2 DEF E!Folded
  <2>2. r.level >= r.level /\ \A t \in E!Types : r.signals[t] >= r.signals[t]
    BY DEF E!Records, E!Signals, E!Levels
  <2>3. ~(r.level > r.level)
    BY DEF E!Records, E!Levels
  <2> QED BY <2>1, <2>2, <2>3
<1>3. CASE a.level # 0
  <2> DEFINE level == E!Max({r.level, a.level})
             merged == E!Merge(r.signals, a.signals)
             status == IF r.status = "resolved" /\ level > r.level THEN "open" ELSE r.status
  <2>1. E!Folded(r, a) = [r EXCEPT !.level = level, !.signals = merged, !.status = status]
    BY <1>1, <1>3 DEF E!Folded, E!RaisedWith
  <2>2. /\ E!Folded(r, a).level = level /\ E!Folded(r, a).signals = merged
        /\ E!Folded(r, a).status = status /\ E!Folded(r, a).acknowledged = r.acknowledged
        /\ E!Folded(r, a) = [level |-> level, signals |-> merged,
                           acknowledged |-> r.acknowledged, status |-> status]
    BY <2>1 DEF E!Records
  <2>3. level \in E!Levels \ {0} /\ level >= r.level
    BY <1>3, MaxOfTwo DEF E!Records, Assessments, E!Levels
  <2>4. merged \in E!Signals /\ \A t \in E!Types : merged[t] >= r.signals[t]
    BY MergeRaises DEF E!Records, Assessments
  <2>5. status \in {"open", "acknowledged", "resolved"}
    BY DEF E!Records
  <2>6. E!Folded(r, a) \in E!Records
    BY <2>2, <2>3, <2>4, <2>5 DEF E!Records
  <2> HIDE DEF level, merged
  <2>7. r.status = "resolved" => (status = "open") = (level > r.level)
    OBVIOUS
  <2> QED BY <2>2, <2>3, <2>4, <2>6, <2>7
<1> QED BY <1>2, <1>3 DEF Assessments

(* Whatever was stored, what is folded is a record or still none.           *)
LEMMA FoldKeepsType ==
    ASSUME NoneIsNobody, NEW r \in E!Records \cup {None}, NEW a \in Assessments
    PROVE  E!Folded(r, a) \in E!Records \cup {None}
<1>1. CASE r = None
  BY <1>1 DEF E!Folded, Assessments, E!Records
<1>2. CASE r \in E!Records
  BY <1>2, FoldRaises
<1> QED BY <1>1, <1>2

-----------------------------------------------------------------------------
(* Nobody holds the record at the start.                                    *)
LEMMA EscalationBegins == EscalationsMeet /\ E!Init => EscalationInv
<1> SUFFICES ASSUME EscalationsMeet, E!Init PROVE EscalationInv
  OBVIOUS
<1>1. E!TypeOK
  BY NothingIsAnAssessment DEF E!Init, E!TypeOK, Assessments
<1>2. \A c \in E!Clients : ~HoldsEscalation(c)
  BY DEF E!Init, HoldsEscalation
<1> QED BY <1>1, <1>2 DEF EscalationInv, HolderHasTheLock, HeldIsCurrent

(* With one lock, one client at a time holds the record.                    *)
LEMMA OneHolds ==
    ASSUME EscalationInv, EscalationsMeet, NEW c \in E!Clients, NEW d \in E!Clients,
           HoldsEscalation(c), HoldsEscalation(d)
    PROVE  c = d
BY DEF EscalationInv, HolderHasTheLock, EscalationsMeet, OneInstanceRuns

(* While the lock is free nobody does.                                      *)
LEMMA NobodyHolds ==
    ASSUME EscalationInv, EscalationsMeet, NEW c \in E!Clients, eLock[EOn[c]] = None,
           NEW d \in E!Clients
    PROVE  ~HoldsEscalation(d)
BY DEF EscalationInv, HolderHasTheLock, EscalationsMeet, OneInstanceRuns, NoneIsNobody

-----------------------------------------------------------------------------
(* Steps that leave the record, the locks and who holds them alone.         *)
LEMMA OthersMove ==
    ASSUME EscalationInv, EscalationsMeet, E!TypeOK', NEW a \in E!Clients, ~HoldsEscalation(a),
           UNCHANGED <<eEscalation, eLock, eCopy>>,
           \E stage : stage \notin {"folding", "working"} /\ E!Move(a, stage)
    PROVE  EscalationInv'
<1>1. \A c \in E!Clients : HoldsEscalation(c)' <=> HoldsEscalation(c)
  BY DEF E!Move, HoldsEscalation, EscalationInv, E!TypeOK
<1>2. \A c \in E!Clients : HoldsEscalation(c) => eAt'[c] = eAt[c]
  BY DEF E!Move, HoldsEscalation, EscalationInv, E!TypeOK
<1> QED BY <1>1, <1>2 DEF EscalationInv, HolderHasTheLock, HeldIsCurrent

(* Who takes the free lock reads the record as it is.                       *)
LEMMA HolderReads ==
    ASSUME EscalationInv, EscalationsMeet, E!TypeOK', NEW c \in E!Clients, eLock[EOn[c]] = None,
           NEW stage \in {"folding", "working"},
           stage = "working" => eEscalation # None /\ eEscalation.status # "resolved",
           eLock' = [eLock EXCEPT ![EOn[c]] = c], eCopy' = [eCopy EXCEPT ![c] = eEscalation],
           E!Move(c, stage), UNCHANGED eEscalation
    PROVE  EscalationInv'
<1>1. \A d \in E!Clients : ~HoldsEscalation(d)
  BY NobodyHolds
<1>2. \A d \in E!Clients : HoldsEscalation(d)' => d = c
  BY <1>1 DEF E!Move, HoldsEscalation, EscalationInv, E!TypeOK
<1>3. eLock'[EOn[c]] = c /\ eCopy'[c] = eEscalation /\ eAt'[c] = stage
  BY DEF E!Move, EscalationInv, E!TypeOK, EscalationsMeet, E!EscalationsAssumption,
     E!Clients
<1> QED BY <1>2, <1>3 DEF EscalationInv, HolderHasTheLock, HeldIsCurrent

(* Who writes it back and lets go was the only one to hold it.              *)
LEMMA HolderWrites ==
    ASSUME EscalationInv, EscalationsMeet, E!TypeOK', NEW c \in E!Clients,
           HoldsEscalation(c), E!Unlock(c), E!Move(c, "rest")
    PROVE  EscalationInv'
<1>1. \A d \in E!Clients : HoldsEscalation(d) => d = c
  BY OneHolds
<1>2. \A d \in E!Clients : ~HoldsEscalation(d)'
  BY <1>1 DEF E!Move, HoldsEscalation, EscalationInv, E!TypeOK
<1> QED BY <1>2 DEF EscalationInv, HolderHasTheLock, HeldIsCurrent

-----------------------------------------------------------------------------
(* Every step keeps the types.                                              *)
LEMMA EscalationTypesStay == EscalationInv /\ EscalationsMeet /\ [E!Next]_E!vars => E!TypeOK'
<1> SUFFICES ASSUME EscalationInv, EscalationsMeet, [E!Next]_E!vars PROVE E!TypeOK'
  OBVIOUS
<1> USE DEF E!Clients
<1>0. E!TypeOK /\ NoneIsNobody /\ EOn \in [E!Clients -> Instances]
  BY DEF EscalationInv, EscalationsMeet, E!EscalationsAssumption
<1>1. ASSUME NEW phrase \in E!Phrases, E!Say(phrase) PROVE E!TypeOK'
  BY <1>0, <1>1 DEF E!Say, E!TypeOK
<1>2. CASE E!ToneChanges
  BY <1>0, <1>2 DEF E!ToneChanges, E!TypeOK
<1>3. CASE E!End
  BY <1>0, <1>3 DEF E!End, E!TypeOK
<1>4. ASSUME NEW a \in Assessors, E!Glance(a) PROVE E!TypeOK'
  <2>1. E!Assessment(E!FromRules(eSaid, FALSE), E!NoSignals) \in Assessments
    BY <1>0, RulesFindSignals, NothingIsAnAssessment, AssessmentIsOne DEF E!TypeOK
  <2> QED BY <1>0, <1>4, <2>1 DEF E!Glance, E!Move, E!TypeOK, Assessments
<1>5. ASSUME NEW a \in Assessors, E!Assess(a) PROVE E!TypeOK'
  <2>1. PICK llm \in E!Findings :
             eSeen' = [eSeen EXCEPT ![a] = E!Assessment(E!FromRules(eSaid, eTone), llm)]
    BY <1>5 DEF E!Assess
  <2>2. llm \in E!Signals
    BY ModelFindsSignals
  <2>3. E!Assessment(E!FromRules(eSaid, eTone), llm) \in Assessments
    BY <1>0, <2>2, RulesFindSignals, AssessmentIsOne DEF E!TypeOK
  <2> QED BY <1>0, <1>5, <2>1, <2>3 DEF E!Assess, E!Move, E!TypeOK, Assessments
<1>6. ASSUME NEW a \in Assessors, E!Load(a) PROVE E!TypeOK'
  <2>1. CASE E!Rest(a) /\ UNCHANGED <<eLock, eCopy, eOver, eSaid, eTone, eEscalation>>
    BY <1>0, <2>1, NothingIsAnAssessment DEF E!Rest, E!Move, E!TypeOK, Assessments
  <2>2. CASE /\ eLock' = [eLock EXCEPT ![EOn[a]] = a] /\ eCopy' = [eCopy EXCEPT ![a] = eEscalation]
             /\ E!Move(a, "folding") /\ UNCHANGED <<eSeen, eOver, eSaid, eTone, eEscalation>>
    BY <1>0, <2>2 DEF E!Move, E!TypeOK
  <2> QED BY <1>6, <2>1, <2>2 DEF E!Load
<1>7. ASSUME NEW a \in Assessors, E!Save(a) PROVE E!TypeOK'
  <2>1. eEscalation' \in E!Records \cup {None}
    BY <1>0, <1>7, FoldKeepsType DEF E!Save, E!TypeOK, Assessments
  <2> QED BY <1>0, <1>7, <2>1, NothingIsAnAssessment DEF E!Save, E!Rest, E!Unlock, E!Move,
     E!TypeOK, Assessments
<1>8. ASSUME NEW a \in Assessors, E!SaveFails(a) PROVE E!TypeOK'
  BY <1>0, <1>8, NothingIsAnAssessment DEF E!SaveFails, E!Rest, E!Unlock, E!Move, E!TypeOK,
     Assessments
<1>9. ASSUME NEW s \in Supervisors, E!Take(s) PROVE E!TypeOK'
  BY <1>0, <1>9 DEF E!Take, E!Move, E!TypeOK
<1>10. ASSUME NEW s \in Supervisors, E!Acknowledge(s) PROVE E!TypeOK'
  <2>1. eCopy[s] \in E!Records
    BY <1>0, <1>10 DEF E!Acknowledge, EscalationInv, HeldIsCurrent, HoldsEscalation,
       E!TypeOK
  <2>2. eEscalation' \in E!Records
    BY <1>10, <2>1 DEF E!Acknowledge, E!Records
  <2> QED BY <1>0, <1>10, <2>2 DEF E!Acknowledge, E!Unlock, E!Move, E!TypeOK
<1>11. ASSUME NEW s \in Supervisors, E!Resolve(s) PROVE E!TypeOK'
  <2>1. eCopy[s] \in E!Records
    BY <1>0, <1>11 DEF E!Resolve, EscalationInv, HeldIsCurrent, HoldsEscalation, E!TypeOK
  <2>2. eEscalation' \in E!Records
    BY <1>11, <2>1 DEF E!Resolve, E!Records
  <2> QED BY <1>0, <1>11, <2>2 DEF E!Resolve, E!Unlock, E!Move, E!TypeOK
<1>12. CASE UNCHANGED E!vars
  BY <1>0, <1>12 DEF E!vars, E!TypeOK
<1> QED BY <1>1, <1>2, <1>3, <1>4, <1>5, <1>6, <1>7, <1>8, <1>9, <1>10, <1>11, <1>12
   DEF E!Next

(* Each step keeps the invariant.                                           *)
LEMMA EscalationGoesOn == EscalationInv /\ EscalationsMeet /\ [E!Next]_E!vars => EscalationInv'
<1> SUFFICES ASSUME EscalationInv, EscalationsMeet, [E!Next]_E!vars PROVE EscalationInv'
  OBVIOUS
<1>0. E!TypeOK'
  BY EscalationTypesStay
<1>1. UNCHANGED <<eEscalation, eLock, eAt, eCopy>> => EscalationInv'
  BY <1>0 DEF EscalationInv, HolderHasTheLock, HeldIsCurrent, HoldsEscalation
<1>2. ASSUME NEW a \in Assessors, E!Glance(a) \/ E!Assess(a) PROVE EscalationInv'
  <2>1. a \in E!Clients /\ ~HoldsEscalation(a)
    BY <1>2 DEF E!Glance, E!Assess, HoldsEscalation, E!Clients
  <2> QED BY <1>0, <1>2, <2>1, OthersMove DEF E!Glance, E!Assess
<1>3. ASSUME NEW a \in Assessors, E!Load(a) PROVE EscalationInv'
  <2>1. a \in E!Clients /\ ~HoldsEscalation(a)
    BY <1>3 DEF E!Load, HoldsEscalation, E!Clients
  <2>2. CASE E!Folded(eEscalation, eSeen[a]) = eEscalation
    BY <1>0, <1>3, <2>1, <2>2, OthersMove DEF E!Load, E!Rest
  <2>3. CASE E!Folded(eEscalation, eSeen[a]) # eEscalation
    BY <1>0, <1>3, <2>1, <2>3, HolderReads DEF E!Load
  <2> QED BY <2>2, <2>3
<1>4. ASSUME NEW a \in Assessors, E!Save(a) \/ E!SaveFails(a) PROVE EscalationInv'
  <2>1. a \in E!Clients /\ HoldsEscalation(a)
    BY <1>4 DEF E!Save, E!SaveFails, HoldsEscalation, E!Clients
  <2> QED BY <1>0, <1>4, <2>1, HolderWrites DEF E!Save, E!SaveFails, E!Rest
<1>5. ASSUME NEW s \in Supervisors, E!Take(s) PROVE EscalationInv'
  <2>1. s \in E!Clients
    BY DEF E!Clients
  <2> QED BY <1>0, <1>5, <2>1, HolderReads DEF E!Take
<1>6. ASSUME NEW s \in Supervisors, E!Acknowledge(s) \/ E!Resolve(s) PROVE EscalationInv'
  <2>1. s \in E!Clients /\ HoldsEscalation(s)
    BY <1>6 DEF E!Acknowledge, E!Resolve, HoldsEscalation, E!Clients
  <2> QED BY <1>0, <1>6, <2>1, HolderWrites DEF E!Acknowledge, E!Resolve
<1> QED BY <1>1, <1>2, <1>3, <1>4, <1>5, <1>6 DEF E!Next, E!Say, E!ToneChanges, E!End,
   E!vars

-----------------------------------------------------------------------------
(* One step does to the record what EscalationOnlyRises says.               *)
Rises ==
    eEscalation # None =>
        /\ eEscalation' # None
        /\ eEscalation'.level >= eEscalation.level
        /\ \A t \in E!Types : eEscalation'.signals[t] >= eEscalation.signals[t]
        /\ eEscalation.acknowledged => eEscalation'.acknowledged
        /\ eEscalation.status = "resolved" =>
             (eEscalation'.status = "open") = (eEscalation'.level > eEscalation.level)

(* By what is stored being what its writer read.                            *)
LEMMA StepsRise == EscalationInv /\ EscalationsMeet /\ [E!Next]_E!vars => [Rises]_E!vars
<1> SUFFICES ASSUME EscalationInv, EscalationsMeet, E!Next, eEscalation # None PROVE Rises
  BY DEF Rises
<1>1. eEscalation \in E!Records /\ NoneIsNobody
  BY DEF EscalationInv, E!TypeOK, EscalationsMeet
<1>2. CASE eEscalation' = eEscalation
  <2>1. eEscalation.level >= eEscalation.level /\ ~(eEscalation.level > eEscalation.level)
    BY <1>1 DEF E!Records, E!Levels
  <2>2. \A t \in E!Types : eEscalation.signals[t] >= eEscalation.signals[t]
    BY <1>1 DEF E!Records, E!Signals, E!Levels
  <2> QED BY <1>2, <2>1, <2>2 DEF Rises
<1>3. ASSUME NEW a \in Assessors, E!Save(a) PROVE Rises
  <2>1. eCopy[a] = eEscalation
    BY <1>3 DEF E!Save, EscalationInv, HeldIsCurrent, HoldsEscalation, E!Clients
  <2>2. eEscalation' = E!Folded(eEscalation, eSeen[a]) /\ eSeen[a] \in Assessments
    BY <1>3, <2>1 DEF E!Save, EscalationInv, E!TypeOK, Assessments
  <2>3. eEscalation' # None
    BY <1>1, <2>2, FoldRaises DEF NoneIsNobody
  <2> QED BY <1>1, <2>2, <2>3, FoldRaises DEF Rises
<1>4. ASSUME NEW s \in Supervisors, E!Acknowledge(s) \/ E!Resolve(s) PROVE Rises
  <2>1. eCopy[s] = eEscalation /\ eEscalation.status # "resolved"
    BY <1>4 DEF E!Acknowledge, E!Resolve, EscalationInv, HeldIsCurrent, HoldsEscalation,
       E!Clients
  <2>2. /\ eEscalation' \in E!Records
        /\ eEscalation'.level = eEscalation.level /\ eEscalation'.signals = eEscalation.signals
        /\ eEscalation.acknowledged => eEscalation'.acknowledged
    BY <1>1, <1>4, <2>1 DEF E!Acknowledge, E!Resolve, E!Records
  <2>3. eEscalation.level >= eEscalation.level
    BY <1>1 DEF E!Records, E!Levels
  <2>4. \A t \in E!Types : eEscalation.signals[t] >= eEscalation.signals[t]
    BY <1>1 DEF E!Records, E!Signals, E!Levels
  <2> QED BY <1>1, <2>1, <2>2, <2>3, <2>4 DEF Rises, NoneIsNobody
<1> QED BY <1>2, <1>3, <1>4 DEF E!Next, E!Say, E!ToneChanges, E!End, E!Glance, E!Assess,
   E!Load, E!SaveFails, E!Take

(* A call starts without an escalation.                                     *)
LEMMA EscalationStarts == E!Init => EscalationInv
BY EscalationHolds, EscalationBegins

(* Every step keeps the record current for its holder, and lowers nothing.  *)
LEMMA EscalationSteps ==
    EscalationInv /\ [E!Next]_E!vars => EscalationInv' /\ [Rises]_E!vars
BY EscalationHolds, EscalationGoesOn, StepsRise

-----------------------------------------------------------------------------
(* The parts together                                                       *)

(* Once a call is closed out, every complaint that it left unresolved is    *)
(* flagged for follow-up, whatever analyses, people and views write its     *)
(* records, unless one of them was lost or late (Complaints).               *)
THEOREM OpenFlagged == Spec => []OpenComplaintsAreFlagged
<1>1. Init => CloseOutInv
  BY ComplaintsStart DEF Init
<1>2. CloseOutInv /\ [Next]_vars => CloseOutInv'
  BY PartsStandStill, ComplaintSteps, ComplaintsRest
<1>3. CloseOutInv => OpenComplaintsAreFlagged
  BY DEF CloseOutInv, OpenComplaintsAreFlagged
<1> QED BY <1>1, <1>2, <1>3, PTL DEF Spec

StaffPart == part = "staff" => StaffInv
SetupPart == part = "setup" => SetupInv

(* However many administrators act at once, one remains and no two users    *)
(* are rung on one number (Staff); and as long as a webhook is not sent     *)
(* again while one is at work, every answer to it names the call that its   *)
(* callbacks reach (CallSetup).                                             *)
THEOREM StaffAreReached ==
    ASSUME ~Overlapping
    PROVE  Spec => []CallsReachTheirStaff
<1>1. Init => StaffPart /\ SetupPart
  BY StaffStarts, SetupStarts DEF Init, StaffPart, SetupPart
<1>2. StaffPart /\ SetupPart /\ [Next]_vars => (StaffPart /\ SetupPart)'
  BY PartsStandStill, StaffSteps, StaffRests, SetupSteps, SetupRests DEF StaffPart,
     SetupPart
<1>3. StaffPart /\ SetupPart => CallsReachTheirStaff
  BY DEF StaffPart, SetupPart, StaffInv, SetupInv, CallsReachTheirStaff
<1> QED BY <1>1, <1>2, <1>3, PTL DEF Spec

ScreenPart == part = "switching" => ScreenInv
ReportPart == part = "reports" => PageInv

(* An answer or a push for a call that the screen has left never reaches the*)
(* screen of the next (LiveView), and once nothing is under way the reports *)
(* page shows what its filters ask for (Reports), whatever order requests,  *)
(* pushes and answers come in.                                              *)
THEOREM AskedIsShown ==
    ASSUME NoneIsNoAnswer
    PROVE  Spec => []ShowsWhatIsAsked
<1>1. Init => ScreenPart /\ ReportPart
  BY ScreenStarts, PageStarts DEF Init, ScreenPart, ReportPart
<1>2. ScreenPart /\ ReportPart /\ [Next]_vars => (ScreenPart /\ ReportPart)'
  <2> SUFFICES ASSUME ScreenPart, ReportPart, [Next]_vars PROVE (ScreenPart /\ ReportPart)'
    OBVIOUS
  <2>1. UNCHANGED rVars /\ PageInv => PageInv'
    BY PageSteady DEF rVars
  <2> QED BY <2>1, PartsStandStill, ScreenSteps, ScreenRests, ReportSteps
          DEF ScreenPart, ReportPart
<1>3. ScreenPart /\ ReportPart => ShowsWhatIsAsked
  BY PageShowsWhatIsAsked DEF ScreenPart, ReportPart, ScreenInv, ShowsWhatIsAsked
<1> QED BY <1>1, <1>2, <1>3, PTL DEF Spec

(* "The level of a call's escalation only ever rises": with one instance,   *)
(* whoever assesses, acknowledges and resolves beside each other, no level, *)
(* signal or acknowledgement is written back lower, and what was resolved   *)
(* is reopened exactly by a rise (escalation_service.py).                   *)
THEOREM LevelOnlyRises == Spec => E!EscalationOnlyRises
<1>1. Init => EscalationInv
  BY EscalationStarts DEF Init
<1>2. EscalationInv /\ [Next]_vars => EscalationInv' /\ [Rises]_E!vars
  <2>1. UNCHANGED eVars => UNCHANGED E!vars
    BY DEF eVars, E!vars
  <2> QED BY <2>1, PartsStandStill, EscalationSteps
<1>3. Spec => [][Rises]_E!vars
  BY <1>1, <1>2, PTL DEF Spec
<1> QED BY <1>3 DEF E!EscalationOnlyRises, Rises

(* What a person has settled the call leaves alone, an escalation only ever *)
(* rises, and an improvement is judged by what was given before it and      *)
(* since: a late correction never turns the verdict against the time it is  *)
(* about.                                                                   *)
THEOREM SettledStays == Spec => SettledStands
<1>1. Init => CloseOutInv /\ EffectInv
  BY ComplaintsStart, EffectStarts DEF Init
<1>2. CloseOutInv /\ [Next]_vars => CloseOutInv' /\ [LeavesHandledAlone]_C!vars
  <2>1. UNCHANGED cVars => UNCHANGED C!vars
    BY DEF cVars, C!vars, C!stored
  <2> QED BY <2>1, PartsStandStill, ComplaintSteps, ComplaintsRest, HandledStays
     DEF CloseOutInv
<1>3. EffectInv /\ [Next]_vars => EffectInv' /\ [JudgesFairly]_F!effectVars
  <2>1. UNCHANGED fVars => UNCHANGED F!effectVars
    BY DEF fVars, F!effectVars
  <2> QED BY <2>1, PartsStandStill, EffectSteps, EffectRests, EffectStaysFair
<1>4. Spec => [][LeavesHandledAlone]_C!vars
  BY <1>1, <1>2, PTL DEF Spec
<1>5. Spec => [][JudgesFairly]_F!effectVars
  BY <1>1, <1>3, PTL DEF Spec
<1> QED BY <1>4, <1>5, LevelOnlyRises, PTL
        DEF SettledStands, C!HandledIsLeftAlone, LeavesHandledAlone, F!EffectIsFair,
            JudgesFairly

(* Every part keeps its types: no merge leaves the levels of escalation, no *)
(* change the versions of a call, no copy the records of complaints.        *)
THEOREM TypeCorrect ==
    ASSUME ~Overlapping
    PROVE  Spec => []TypeOK
<1> DEFINE Inv == CloseOutInv /\ EscalationInv /\ ScreenInv /\ StaffPart /\ SetupPart /\ EffectInv
<1>1. Init => Inv
  BY ComplaintsStart, EscalationStarts, ScreenStarts, StaffStarts, SetupStarts, EffectStarts
     DEF Init, StaffPart, SetupPart
<1>2. Inv /\ [Next]_vars => Inv'
  <2> SUFFICES ASSUME Inv, [Next]_vars PROVE Inv'
    OBVIOUS
  <2>1. EscalationInv'
    <3>1. UNCHANGED eVars => UNCHANGED E!vars
      BY DEF eVars, E!vars
    <3> QED BY <3>1, PartsStandStill, EscalationSteps
  <2>2. StaffPart' /\ SetupPart'
    BY PartsStandStill, StaffSteps, StaffRests, SetupSteps, SetupRests DEF StaffPart,
       SetupPart
  <2>3. CloseOutInv' /\ ScreenInv' /\ EffectInv'
    BY PartsStandStill, ComplaintSteps, ComplaintsRest, ScreenSteps, ScreenRests,
       EffectSteps,
       EffectRests
  <2> QED BY <2>1, <2>2, <2>3
<1>3. Inv => TypeOK
  BY EffectTypes DEF CloseOutInv, RecordsInv, EscalationInv, ScreenInv, StaffPart, StaffInv,
     SetupPart,
     SetupInv, TypeOK
<1> QED BY <1>1, <1>2, <1>3, PTL DEF Spec
=============================================================================
