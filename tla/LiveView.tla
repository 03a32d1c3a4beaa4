-------------------------------- MODULE LiveView --------------------------------
(***************************************************************************)
(* One screen that shows calls in progress: requests that read a call and  *)
(* its analysis, and a WebSocket over which the server pushes the analysis *)
(* whenever the call's revision has changed (live.py, live_handler.py,     *)
(* live_analysis_store.py, useLiveCall.ts, liveCallSocket.ts).  What a call*)
(* shows is its version; a revision is the version it was bumped at.       *)
(***************************************************************************)
EXTENDS Naturals, FiniteSets

CONSTANTS
    Calls,
    Slots,          \* requests the screen has in flight at a time
    MaxChanges,     \* changes of each call's view
    MaxFaults,      \* requests and connections that fail
    None

ViewAssumption == {MaxChanges, MaxFaults} \subseteq Nat

MaxAuthFailures == 2        \* MAX_CONSECUTIVE_AUTH_FAILURES

VARIABLES
    stored,     \* of each call: the version of what the server holds
    revision,   \* of each call: its revision in the live state
    over,       \* the calls that are completed
    page,       \* activeCallIdRef
    shown,      \* what is on the screen: the call and its analysis
    completing, \* isCompleting
    requests,   \* the request in each slot, or None
    socket,     \* LiveCallSocket: the call, its state, authFailures
    seen,       \* seen_revision of the socket's loop at the server
    pushed,     \* the analysis on its way to the screen, or None
    faults      \* failures so far

server == <<stored, revision, over>>
link == <<socket, seen, pushed>>
vars == <<server, page, shown, completing, requests, link, faults>>

Nothing == [call |-> None, analysis |-> None]
View(c, v) == [of |-> c, version |-> v]
Off == [call |-> None, state |-> "off", refused |-> 0]

Init ==
    /\ stored = [c \in Calls |-> 0]
    /\ revision = [c \in Calls |-> 0]
    /\ over = {}
    /\ page = None
    /\ shown = Nothing
    /\ completing = FALSE
    /\ requests = [s \in Slots |-> None]
    /\ socket = Off
    /\ seen = 0
    /\ pushed = None
    /\ faults = 0

Fault == faults < MaxFaults /\ faults' = faults + 1

-----------------------------------------------------------------------------
(* The server                                                               *)

(* What other pages change does not bump the revision; an analysis is saved *)
(* first and bumps it then, unless the store fails.                         *)
Change(c) ==
    /\ stored[c] < MaxChanges
    /\ stored' = [stored EXCEPT ![c] = @ + 1]
    /\ UNCHANGED <<revision, over, page, shown, completing, requests, link, faults>>

Touch(c) ==
    /\ revision[c] # stored[c]
    /\ revision' = [revision EXCEPT ![c] = stored[c]]
    /\ UNCHANGED <<stored, over, page, shown, completing, requests, link, faults>>

(* The loop of live_call: the revision has changed since it was last seen.  *)
Push ==
    /\ socket.state = "open"
    /\ pushed = None
    /\ revision[socket.call] # seen
    /\ seen' = revision[socket.call]
    /\ pushed' = stored[socket.call]
    /\ UNCHANGED <<server, page, shown, completing, requests, socket, faults>>

-----------------------------------------------------------------------------
(* The socket                                                               *)

Dropped == pushed' = None /\ seen' = 0
Connect(c) == socket' = [call |-> c, state |-> "ticket", refused |-> 0] /\ Dropped
Disconnect == socket' = Off /\ Dropped
SocketTo(state) == socket' = [socket EXCEPT !.state = state]

(* openSocket: a ticket, then the socket; what an earlier generation gets   *)
(* is ignored.                                                              *)
TicketGranted ==
    /\ socket.state = "ticket"
    /\ SocketTo("opening")
    /\ UNCHANGED <<server, page, shown, completing, requests, seen, pushed, faults>>

TicketFails ==
    /\ socket.state = "ticket"
    /\ Fault
    /\ \E state \in {"failed", "waiting"} : SocketTo(state)
    /\ UNCHANGED <<server, page, shown, completing, requests, seen, pushed>>

Connected ==
    /\ socket.state = "opening"
    /\ SocketTo("open")
    /\ seen' = revision[socket.call]
    /\ UNCHANGED <<server, page, shown, completing, requests, pushed, faults>>

(* onclose: 4404 ends it, a refused ticket is tried again once, anything    *)
(* else for as long as the call is open.                                    *)
NotFound ==
    /\ socket.state = "opening"
    /\ Fault
    /\ SocketTo("failed")
    /\ UNCHANGED <<server, page, shown, completing, requests, seen, pushed>>

Refused ==
    /\ socket.state = "opening"
    /\ Fault
    /\ socket' = [socket EXCEPT !.refused = @ + 1,
                    !.state = IF socket.refused + 1 >= MaxAuthFailures THEN "failed" ELSE "waiting"]
    /\ UNCHANGED <<server, page, shown, completing, requests, seen, pushed>>

Drops ==
    /\ socket.state \in {"opening", "open"}
    /\ Fault
    /\ socket' = [socket EXCEPT !.refused = 0, !.state = "waiting"]
    /\ Dropped
    /\ UNCHANGED <<server, page, shown, completing, requests>>

Reconnect ==
    /\ socket.state = "waiting"
    /\ SocketTo("ticket")
    /\ UNCHANGED <<server, page, shown, completing, requests, seen, pushed, faults>>

-----------------------------------------------------------------------------
(* The screen                                                               *)

(* A request reads the call and then, mostly, its analysis; "complete" asks *)
(* for the call's completion first.                                         *)
Request(c, why, stage) == [for |-> c, why |-> why, stage |-> stage, answer |-> None]
Send(s, request) == requests[s] = None /\ requests' = [requests EXCEPT ![s] = request]
Done(s) == requests' = [requests EXCEPT ![s] = None]
Loaded == shown.call # None

(* loadCall, also when the address names another call                       *)
Open(s, c) ==
    /\ page # c
    /\ page' = c
    /\ shown' = Nothing
    /\ Disconnect
    /\ Send(s, Request(c, "load", "call"))
    /\ UNCHANGED <<server, completing, faults>>

(* The page is left: its hook is gone, the requests and the socket's object *)
(* are not.                                                                 *)
Leave ==
    /\ page # None
    /\ page' = None
    /\ shown' = Nothing
    /\ completing' = FALSE
    /\ Disconnect
    /\ UNCHANGED <<server, requests, faults>>

\* Mutant: no polling while the socket is connected.
PollWhileDown(s) ==
    /\ Loaded
    /\ socket.state # "open"
    /\ Send(s, Request(page, "poll", "call"))
    /\ UNCHANGED <<server, page, shown, completing, link, faults>>

(* The interval's refresh, and the one after a reconnect; one in flight     *)
(* does not hold the next one back.                                         *)
Poll(s) ==
    /\ Loaded
    /\ Send(s, Request(page, "poll", "call"))
    /\ UNCHANGED <<server, page, shown, completing, link, faults>>

(* applyAnalysis: the event, then the call is read again.                   *)
Receive(s) ==
    /\ pushed # None
    /\ shown' = [shown EXCEPT !.analysis = View(socket.call, pushed)]
    /\ pushed' = None
    /\ socket' = [socket EXCEPT !.refused = 0]
    /\ Send(s, Request(socket.call, "event", "call"))
    /\ UNCHANGED <<server, page, completing, seen, faults>>

Complete(s) ==
    /\ Loaded
    /\ ~completing
    /\ page \notin over
    /\ completing' = TRUE
    /\ Send(s, Request(page, "complete", "completion"))
    /\ UNCHANGED <<server, page, shown, link, faults>>

(* The server handles a request; a completion changes the call and touches *)
(* it.                                                                     *)
Answer(s) ==
    /\ requests[s] # None
    /\ requests[s].answer = None
    /\ LET c == requests[s].for
           changes == requests[s].stage = "completion" /\ c \notin over
           version == IF changes THEN stored[c] + 1 ELSE stored[c]
       IN  /\ over' = IF changes THEN over \cup {c} ELSE over
           /\ stored' = [stored EXCEPT ![c] = version]
           /\ revision' = IF changes THEN [revision EXCEPT ![c] = version] ELSE revision
           /\ requests' = [requests EXCEPT ![s].answer = version]
    /\ UNCHANGED <<page, shown, completing, link, faults>>

Answered(s, stage) ==
    /\ requests[s] # None
    /\ requests[s].answer # None
    /\ requests[s].stage = stage

Goes(s, stage) == requests' = [requests EXCEPT ![s].stage = stage, ![s].answer = None]

(* What follows once refreshCallState has returned, shown or not.           *)
AfterRefresh(s) ==
    /\ Done(s)
    /\ CASE requests[s].why = "load" /\ page = requests[s].for -> Connect(page) /\ UNCHANGED completing
         [] requests[s].why = "complete" ->
              Disconnect /\ completing' = (completing /\ page # requests[s].for)
         [] OTHER -> UNCHANGED <<link, completing>>

\* Mutant: an answer is shown whichever call the screen has moved on to.
NeverStale(s) == FALSE

Stale(s) == requests[s].for # page

(* refreshCallState: the call's answer arrives.                             *)
CallArrives(s) ==
    /\ Answered(s, "call")
    /\ IF Stale(s) THEN UNCHANGED shown
       ELSE shown' = [shown EXCEPT !.call = View(requests[s].for, requests[s].answer)]
    /\ IF Stale(s) \/ requests[s].why = "event" THEN AfterRefresh(s)
       ELSE Goes(s, "analysis") /\ UNCHANGED <<link, completing>>
    /\ UNCHANGED <<server, page, faults>>

AnalysisArrives(s) ==
    /\ Answered(s, "analysis")
    /\ IF Stale(s) THEN UNCHANGED shown
       ELSE shown' = [shown EXCEPT !.analysis = View(requests[s].for, requests[s].answer)]
    /\ AfterRefresh(s)
    /\ UNCHANGED <<server, page, faults>>

(* completeCall: after a switch to another call nothing more is done.       *)
CompletionArrives(s) ==
    /\ Answered(s, "completion")
    /\ IF Stale(s) THEN Done(s) /\ UNCHANGED shown
       ELSE /\ Goes(s, "call")
            /\ shown' = [shown EXCEPT !.call = View(requests[s].for, requests[s].answer)]
    /\ UNCHANGED <<server, page, completing, link, faults>>

(* A request fails: the analysis is left as it was; a call that cannot be   *)
(* loaded stays empty; a completion ends with the error.                    *)
Fails(s) ==
    /\ requests[s] # None
    /\ Fault
    /\ IF requests[s].stage = "analysis"
       THEN AfterRefresh(s)
       ELSE /\ Done(s)
            /\ completing' = (completing /\ ~(requests[s].why = "complete" /\ ~Stale(s)))
            /\ UNCHANGED link
    /\ UNCHANGED <<server, page, shown>>

Progress(s) == Answer(s) \/ CallArrives(s) \/ AnalysisArrives(s) \/ CompletionArrives(s)

Next ==
    \/ \E c \in Calls : Change(c) \/ Touch(c)
    \/ Push \/ Leave
    \/ TicketGranted \/ TicketFails \/ Connected \/ NotFound \/ Refused \/ Drops \/ Reconnect
    \/ \E s \in Slots : \/ \E c \in Calls : Open(s, c)
                        \/ Poll(s) \/ Receive(s) \/ Complete(s) \/ Progress(s) \/ Fails(s)

Spec == Init /\ [][Next]_vars

(* Every request is answered, and the screen's interval keeps running.      *)
Fairness ==
    /\ \A s \in Slots : WF_vars(Progress(s))
    /\ WF_vars(\E s \in Slots : Poll(s))

FairSpec == Spec /\ Fairness

-----------------------------------------------------------------------------
Versions == 0..(MaxChanges + 1)
Views == [of : Calls, version : Versions] \cup {None}

TypeOK ==
    /\ stored \in [Calls -> Versions] /\ revision \in [Calls -> Versions]
    /\ over \subseteq Calls
    /\ page \in Calls \cup {None}
    /\ shown \in [call : Views, analysis : Views]
    /\ completing \in BOOLEAN
    /\ requests \in [Slots -> [for : Calls, why : {"load", "poll", "event", "complete"},
                               stage : {"completion", "call", "analysis"},
                               answer : Versions \cup {None}] \cup {None}]
    /\ socket \in [call : Calls \cup {None}, refused : 0..MaxAuthFailures,
                   state : {"off", "ticket", "opening", "open", "waiting", "failed"}]
    /\ seen \in Versions /\ pushed \in Versions \cup {None}
    /\ faults \in 0..MaxFaults

(* Answers and pushes for a call the screen has left never reach the screen *)
(* of the next one, in whatever order they arrive.                          *)
ShowsItsCall ==
    \A part \in DOMAIN shown : shown[part] # None => shown[part].of = page

(* A screen that stays on a call it has loaded comes to show what the      *)
(* server holds, and keeps to it: also what no push announced, what changed*)
(* while the socket was down, and whatever older answers were still on     *)
(* their way.                                                              *)
ScreenCatchesUp ==
    \A c \in Calls :
        <>[](page = c /\ Loaded) =>
        <>[](shown = [call |-> View(c, stored[c]), analysis |-> View(c, stored[c])])

(* "Reconnects ... keep trying for as long as the call is open": the socket*)
(* of the call on the screen is given up only when it failed or the call   *)
(* was completed from this screen.                                         *)
Loading == \E s \in Slots : requests[s] # None /\ requests[s].why = "load" /\ requests[s].for = page
OpenCallKeepsItsSocket ==
    Loaded /\ ~Loading /\ page \notin over => socket.state # "off"
=============================================================================
