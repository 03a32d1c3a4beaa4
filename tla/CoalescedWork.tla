---------------------------- MODULE CoalescedWork ----------------------------
(***************************************************************************)
(* What the background analysis of live calls promises: a call is analysed *)
(* by one run at a time, and speech no run has read yet leads to one.      *)
(***************************************************************************)
CONSTANT Calls

VARIABLES
    due,        \* calls with speech no run has read
    active      \* calls being analysed

vars == <<due, active>>

Init == due = {} /\ active = {}

Speak(c) == due' = due \cup {c} /\ UNCHANGED active

(* A run reads everything said so far.  It may turn out to be needless:    *)
(* speech that arrived while a run was on its way is followed up as if it  *)
(* had arrived during the run.                                             *)
Start(c) ==
    /\ c \notin active
    /\ due' = due \ {c}
    /\ active' = active \cup {c}

End(c) ==
    /\ c \in active
    /\ active' = active \ {c}
    /\ UNCHANGED due

Next == \E c \in Calls : Speak(c) \/ Start(c) \/ End(c)

Spec == Init /\ [][Next]_vars

(* A due call is not left waiting, and no run goes on for ever.            *)
FairSpec ==
    Spec /\ \A c \in Calls : SF_vars(c \in due /\ Start(c)) /\ WF_vars(End(c))
=============================================================================
