------------------------------- MODULE CallSetup -------------------------------
(***************************************************************************)
(* How one phone call becomes a call: the provider's answer webhooks, which*)
(* it sends again when an answer is slow, the route of the call, and the   *)
(* callback about who picked up (telephony.py, telephony_call_service.py,  *)
(* call_routing_service.py).  The stream's address in the answer names the *)
(* call; every later webhook reaches the call the mapping names.           *)
(***************************************************************************)
EXTENDS Naturals, Sequences

CONSTANTS
    Hooks,          \* answer webhooks of the phone call
    Overlapping,    \* may one arrive while another is being handled
    Executives,
    TargetOf,       \* of each executive: the number of their phone
    WorksAt,        \* of each executive: a number that customers dial
    Numbers, CentreNumbers,
    MaxFailures,    \* requests that fail on the way
    None

SetupAssumption ==
    /\ CentreNumbers \subseteq Numbers
    /\ TargetOf \in [Executives -> Numbers \ CentreNumbers]
    /\ WorksAt \in [Executives -> CentreNumbers]
    /\ Overlapping \in BOOLEAN
    /\ MaxFailures \in Nat

VARIABLES
    from, to,   \* the numbers of the phone call
    calls,      \* the calls started for it
    mapping,    \* the call its provider's id is mapped to, or None
    at,         \* the step each webhook is at
    own,        \* the call each has started, or None
    given,      \* the call each has answered with, or None
    failures

phone == <<from, to>>
vars == <<phone, calls, mapping, at, own, given, failures>>

Caller(number) == {e \in Executives : TargetOf[e] = number}

(* route(): an executive who dials out from their phone, a call to a       *)
(* centre, or a number nobody knows.                                       *)
Route ==
    IF Caller(from) # {} /\ to \notin CentreNumbers
    THEN [outbound |-> TRUE, executive |-> CHOOSE e \in Caller(from) : TRUE,
          customer |-> to, rings |-> {to}]
    ELSE [outbound |-> FALSE, executive |-> None, customer |-> from,
          rings |-> {TargetOf[e] : e \in {x \in Executives : WorksAt[x] = to}}]

Init ==
    /\ from \in Numbers \ CentreNumbers
    /\ to \in Numbers \ {from}
    /\ calls = <<>>
    /\ mapping = None
    /\ at = [h \in Hooks |-> "unsent"]
    /\ own = [h \in Hooks |-> None]
    /\ given = [h \in Hooks |-> None]
    /\ failures = 0

Move(h, stage) == at' = [at EXCEPT ![h] = stage]
Working == {h \in Hooks : at[h] \in {"starting", "mapping", "recording"}}

-----------------------------------------------------------------------------
(* The answer webhook                                                       *)

\* Mutant: a repeated webhook is not told from the first.
ArrivesAnew(h) ==
    /\ at[h] = "unsent"
    /\ Overlapping \/ Working = {}
    /\ Move(h, "starting")
    /\ UNCHANGED <<phone, calls, mapping, own, given, failures>>

(* resolve_call_id: sent again, it is the call we already have.             *)
Arrives(h) ==
    /\ at[h] = "unsent"
    /\ Overlapping \/ Working = {}
    /\ IF mapping = None
       THEN Move(h, "starting") /\ UNCHANGED given
       ELSE Move(h, "answered") /\ given' = [given EXCEPT ![h] = mapping]
    /\ UNCHANGED <<phone, calls, mapping, own, failures>>

StartCall(h) ==
    /\ at[h] = "starting"
    /\ calls' = Append(calls, [outbound |-> Route.outbound, executive |-> Route.executive,
                               customer |-> None])
    /\ own' = [own EXCEPT ![h] = Len(calls) + 1]
    /\ Move(h, "mapping")
    /\ UNCHANGED <<phone, mapping, given, failures>>

SaveMapping(h) ==
    /\ at[h] = "mapping"
    /\ mapping' = own[h]
    /\ Move(h, "recording")
    /\ UNCHANGED <<phone, calls, own, given, failures>>

(* _record_caller is best effort; then the answer is sent.                  *)
Reply(h) ==
    /\ at[h] = "recording"
    /\ \E known \in BOOLEAN :
         calls' = IF known THEN [calls EXCEPT ![own[h]].customer = Route.customer] ELSE calls
    /\ given' = [given EXCEPT ![h] = own[h]]
    /\ Move(h, "answered")
    /\ UNCHANGED <<phone, mapping, own, failures>>

(* The database or the mapping's store fails, or the instance does.         *)
Fails(h) ==
    /\ h \in Working
    /\ failures < MaxFailures
    /\ failures' = failures + 1
    /\ Move(h, "failed")
    /\ UNCHANGED <<phone, calls, mapping, own, given>>

(* executive_answered: the dial callback reaches the mapped call.           *)
ExecutiveAnswered(e) ==
    /\ mapping # None
    /\ ~calls[mapping].outbound
    /\ TargetOf[e] \in Route.rings
    /\ \E h \in Hooks : given[h] # None
    /\ calls' = [calls EXCEPT ![mapping].executive = e]
    /\ UNCHANGED <<phone, mapping, at, own, given, failures>>

Next ==
    \/ \E h \in Hooks : Arrives(h) \/ StartCall(h) \/ SaveMapping(h) \/ Reply(h) \/ Fails(h)
    \/ \E e \in Executives : ExecutiveAnswered(e)

Spec == Init /\ [][Next]_vars

-----------------------------------------------------------------------------
CallIds == DOMAIN calls

TypeOK ==
    /\ {from, to} \subseteq Numbers
    /\ calls \in Seq([outbound : BOOLEAN, executive : Executives \cup {None},
                      customer : Numbers \cup {None}])
    /\ mapping \in CallIds \cup {None}
    /\ at \in [Hooks -> {"unsent", "starting", "mapping", "recording", "answered", "failed"}]
    /\ own \in [Hooks -> CallIds \cup {None}]
    /\ given \in [Hooks -> CallIds \cup {None}]
    /\ failures \in 0..MaxFailures

(* Whichever of its answers the provider acts on, the audio of the phone   *)
(* call goes to the call that its dial callback and its status webhooks    *)
(* reach, although requests fail half-way and are sent again.              *)
AnswersAgree == \A h \in Hooks : given[h] # None => given[h] = mapping

(* "That is the call we already have, not a second one."                    *)
OneCallPerPhoneCall == Len(calls) <= 1
=============================================================================
