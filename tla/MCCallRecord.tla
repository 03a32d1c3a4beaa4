---------------------------- MODULE MCCallRecord ----------------------------
(* Small instances of CallRecord: one call, two lines, times 0 to 2.       *)
EXTENDS CallRecord

CONSTANTS t1, t2, t3, api1, api2, w1, w2, happy, ana, pune

MCLineIds == {1, 2}
MCTimes == 0..2

OneInstance == [t \in Threads |-> api1]
TwoInstances == [t \in Threads |-> IF t = t1 THEN api1 ELSE api2]

Said(id, start, words) ==
    [id |-> id, start |-> start, words |-> words, tone |-> None]

Adds(ids, starts, hands) ==
    {[op |-> "add", line |-> Said(i, s, w1), byHand |-> h] :
        i \in ids, s \in starts, h \in hands}

Continues == {[op |-> "continue", line |-> Said(i, 2, w2)] : i \in MCLineIds}

At(op, times) == {[op |-> op, at |-> t] : t \in times}

Replaces ==
    {[op |-> "replace", lines |-> {Said(1, 1, w2)}, inOrder |-> TRUE],
     [op |-> "replace", lines |-> {Said(2, 1, w2), Said(1, 2, w2)}, inOrder |-> FALSE]}

Annotates == {[op |-> "annotate", id |-> 1, words |-> w1, tone |-> happy]}

Assigns == {[op |-> "assign", executive |-> ana, location |-> pune]}

AllRequests ==
    Adds(MCLineIds, {1, 2}, {FALSE}) \cup Adds({2}, {2}, {TRUE})
      \cup Continues \cup Replaces \cup Annotates \cup Assigns
      \cup At("hold", {1}) \cup At("resume", {2}) \cup At("complete", 0..2)
=============================================================================
