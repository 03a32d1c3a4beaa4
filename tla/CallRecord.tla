------------------------------ MODULE CallRecord ------------------------------
(***************************************************************************)
(* How a call's row is changed: ConversationService with                   *)
(* PostgresConversationRepository.  Every operation takes its process's    *)
(* lock for the call, reads the row, changes the copy in memory and writes *)
(* the whole copy back.  The lock is a threading.Lock of one API instance; *)
(* the row is shared by all of them.                                       *)
(***************************************************************************)
EXTENDS Conversation, Functions

CONSTANTS
    Instances,      \* API processes
    Threads,        \* request and worker threads of all of them
    InstanceOf,     \* the process a thread belongs to
    Requests,       \* the operations the threads are asked for
    MaxRequests,    \* bound: operations begun in one behaviour
    MaxCrashes      \* bound: process crashes in one behaviour

ASSUME CallRecordAssumption ==
    /\ InstanceOf \in [Threads -> Instances]
    /\ Requests \subseteq Request
    /\ None \notin Threads
    /\ MaxRequests \in Nat /\ MaxCrashes \in Nat

VARIABLES
    call,           \* the row in PostgreSQL; None before it is inserted
    lock,           \* the thread holding each instance's lock for the call
    pc,             \* "idle", "waiting" for the lock, "locked" or "saving"
    request,        \* the operation each thread is at
    copy,           \* the changed call a thread is about to write
    begun,          \* operations begun so far
    crashes,        \* process crashes so far
    \* History: what callers were told.
    added,          \* ids of the lines add_utterance has stored, in that order,
                    \* since the transcript was last replaced
    completions     \* complete_conversation calls answered completed_now

vars == <<call, lock, pc, request, copy, begun, crashes, added, completions>>

control == <<lock, pc, request, copy>>
history == <<added, completions>>

NoRequest == None

Init ==
    /\ call = None
    /\ lock = [i \in Instances |-> None]
    /\ pc = [t \in Threads |-> "idle"]
    /\ request = [t \in Threads |-> NoRequest]
    /\ copy = [t \in Threads |-> None]
    /\ begun = 0
    /\ crashes = 0
    /\ added = <<>>
    /\ completions = 0

-----------------------------------------------------------------------------
(* create_conversation: one INSERT, refused by the primary key when the    *)
(* call exists.                                                            *)
Create ==
    /\ call = None
    /\ \E e \in Executives \cup {None}, l \in Locations \cup {None} :
          call' = NewCall(e, l)
    /\ UNCHANGED <<control, begun, crashes, history>>

Begin(t) ==
    /\ pc[t] = "idle"
    /\ begun < MaxRequests
    /\ \E r \in Requests : request' = [request EXCEPT ![t] = r]
    /\ pc' = [pc EXCEPT ![t] = "waiting"]
    /\ begun' = begun + 1
    /\ UNCHANGED <<call, lock, copy, crashes, history>>

\* Mutant: the operation does not wait for the lock.
AcquireAtOnce(t) ==
    /\ pc[t] = "waiting"
    /\ lock' = [lock EXCEPT ![InstanceOf[t]] = t]
    /\ pc' = [pc EXCEPT ![t] = "locked"]
    /\ UNCHANGED <<call, request, copy, begun, crashes, history>>

Acquire(t) ==
    /\ pc[t] = "waiting"
    /\ lock[InstanceOf[t]] = None
    /\ lock' = [lock EXCEPT ![InstanceOf[t]] = t]
    /\ pc' = [pc EXCEPT ![t] = "locked"]
    /\ UNCHANGED <<call, request, copy, begun, crashes, history>>

(* Leaving the "with" block: by return or by an exception.                 *)
Leave(t) ==
    /\ lock' = [lock EXCEPT ![InstanceOf[t]] = None]
    /\ pc' = [pc EXCEPT ![t] = "idle"]
    /\ request' = [request EXCEPT ![t] = NoRequest]
    /\ copy' = [copy EXCEPT ![t] = None]

(* ConversationNotFoundError.                                              *)
NotFound(t) ==
    /\ pc[t] = "locked"
    /\ call = None
    /\ Leave(t)
    /\ UNCHANGED <<call, begun, crashes, history>>

\* Mutant: an error leaves the lock taken.
RefuseLocked(t) ==
    /\ pc[t] = "locked"
    /\ call # None
    /\ Refused(call, request[t])
    /\ pc' = [pc EXCEPT ![t] = "idle"]
    /\ request' = [request EXCEPT ![t] = NoRequest]
    /\ UNCHANGED <<lock, copy, call, begun, crashes, history>>

(* The operation raises one of the errors of the domain.                   *)
Refuse(t) ==
    /\ pc[t] = "locked"
    /\ call # None
    /\ Refused(call, request[t])
    /\ Leave(t)
    /\ UNCHANGED <<call, begun, crashes, history>>

(* Nothing to change: returns without writing.                             *)
LeaveUnchanged(t) ==
    /\ pc[t] = "locked"
    /\ call # None
    /\ ~Refused(call, request[t])
    /\ ~Saves(call, request[t])
    /\ Leave(t)
    /\ UNCHANGED <<call, begun, crashes, history>>

Change(t) ==
    /\ pc[t] = "locked"
    /\ call # None
    /\ ~Refused(call, request[t])
    /\ Saves(call, request[t])
    /\ copy' = [copy EXCEPT ![t] = Effect(call, request[t])]
    /\ pc' = [pc EXCEPT ![t] = "saving"]
    /\ UNCHANGED <<call, lock, request, begun, crashes, history>>

LineAdded(id) == IF id \in Range(added) THEN added ELSE Append(added, id)

(* repository.save: every field and every line of the copy, in one         *)
(* transaction; lines of the row the copy does not have are deleted.       *)
Save(t) ==
    /\ pc[t] = "saving"
    /\ call' = copy[t]
    /\ added' = IF request[t].op = "add" THEN LineAdded(request[t].line.id)
                ELSE IF request[t].op = "replace" THEN <<>> ELSE added
    /\ completions' = IF request[t].op = "complete"
                      THEN completions + 1 ELSE completions
    /\ Leave(t)
    /\ UNCHANGED <<begun, crashes>>

(* The database refuses or drops the transaction: an error, nothing kept.  *)
SaveFails(t) ==
    /\ pc[t] = "saving"
    /\ Leave(t)
    /\ UNCHANGED <<call, begun, crashes, history>>

(* A process dies with the operations of its threads; its locks were only  *)
(* in its memory.                                                          *)
Crash(i) ==
    /\ crashes < MaxCrashes
    /\ crashes' = crashes + 1
    /\ lock' = [lock EXCEPT ![i] = None]
    /\ pc' = [t \in Threads |-> IF InstanceOf[t] = i THEN "idle" ELSE pc[t]]
    /\ request' = [t \in Threads |->
                      IF InstanceOf[t] = i THEN NoRequest ELSE request[t]]
    /\ copy' = [t \in Threads |-> IF InstanceOf[t] = i THEN None ELSE copy[t]]
    /\ UNCHANGED <<call, begun, history>>

-----------------------------------------------------------------------------
Proceed(t) ==
    \/ Acquire(t)
    \/ NotFound(t)
    \/ Refuse(t)
    \/ LeaveUnchanged(t)
    \/ Change(t)
    \/ Save(t)
    \/ SaveFails(t)

Next ==
    \/ Create
    \/ \E t \in Threads : Begin(t) \/ Proceed(t)
    \/ \E i \in Instances : Crash(i)

Spec == Init /\ [][Next]_vars

(* A thread that has a step to take is run; nobody has to ask for anything.*)
FairSpec == Spec /\ \A t \in Threads : WF_vars(Proceed(t))

-----------------------------------------------------------------------------
(* Every variable keeps to its domain.                                     *)
TypeOK ==
    /\ call \in Calls \cup {None}
    /\ lock \in [Instances -> Threads \cup {None}]
    /\ pc \in [Threads -> {"idle", "waiting", "locked", "saving"}]
    /\ request \in [Threads -> Requests \cup {NoRequest}]
    /\ copy \in [Threads -> Calls \cup {None}]
    /\ begun \in 0..MaxRequests
    /\ crashes \in 0..MaxCrashes
    /\ added \in Seq(LineIds)
    /\ completions \in Nat

(* The row changes only by one operation at a time applied to the row as   *)
(* the operation before it left it: what the read - change - write lock is *)
(* there for (_lock_for).                                                  *)
Ledger == INSTANCE CallLedger
ImplementsLedger == Ledger!Spec

(* A line whose add_utterance succeeded is in the stored call until the    *)
(* transcript is replaced as a whole: no other operation's write silently  *)
(* drops it (comment in _lock_for).                                        *)
AcceptedLinesKept == call # None => Range(added) \subseteq LineIdsOf(call)

(* "ACTIVE -> COMPLETED happens once": at most one complete_conversation   *)
(* is told completed_now, so post-call processing is started at most once  *)
(* by completion.                                                          *)
CompletedOnce == completions <= 1

(* Once completed, a call stays completed and keeps its end time, whoever  *)
(* writes it afterwards.                                                   *)
CompletedIsFinal ==
    [][call # None /\ Completed(call) =>
         call' # None /\ Completed(call') /\ call'.endTime = call.endTime]_call

(* After completion nothing spoken or typed enters the call: its words     *)
(* change only by replace_transcript.                                      *)
WordsOf(c) == {<<l.id, l.start, l.words>> : l \in c.lines}
TranscriptFrozen ==
    [][call # None /\ call' # None /\ Completed(call) =>
         \/ WordsOf(call') = WordsOf(call)
         \/ \E t \in Threads : pc[t] = "saving" /\ request[t].op = "replace"]_call

(* A completed call has no hold left open, and only the newest hold of any *)
(* call may be: hold_seconds counts every hold once.                       *)
HoldsClosed ==
    call # None =>
        \A i \in DOMAIN call.holds :
            call.holds[i].endedAt = None => i = Len(call.holds) /\ ~Completed(call)

(* Every operation asked for ends (with a result, an error or a crash):    *)
(* no exit leaves the call locked.                                         *)
RequestsEnd == \A t \in Threads : pc[t] # "idle" ~> pc[t] = "idle"
=============================================================================
