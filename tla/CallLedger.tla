------------------------------ MODULE CallLedger ------------------------------
(***************************************************************************)
(* What the rest of the system may assume of a stored call: it is created  *)
(* once, and from then on it changes only by one operation at a time, each *)
(* applied to the call as the one before left it.                          *)
(***************************************************************************)
EXTENDS Conversation

CONSTANT Requests

VARIABLE call

Init == call = None

Create ==
    /\ call = None
    /\ \E e \in Executives \cup {None}, l \in Locations \cup {None} :
          call' = NewCall(e, l)

Apply(r) ==
    /\ call # None
    /\ ~Refused(call, r)
    /\ Saves(call, r)
    /\ call' = Effect(call, r)

Next == Create \/ \E r \in Requests : Apply(r)

Spec == Init /\ [][Next]_call
=============================================================================
