---------------------------- MODULE TelephonyProofs ----------------------------
(***************************************************************************)
(* Theorems about a phone call for any sockets, webhooks, instances and     *)
(* bounds, where a socket connects only when the last one is gone: what its *)
(* end waits for, and what becomes of its audio.                            *)
(***************************************************************************)
EXTENDS MCTelephony, TLAPS

-----------------------------------------------------------------------------
(* The end of a phone call.                                                 *)
AtWork(s) == phase[s] \notin {"away", "gone"}
OneAtATime == \A s, r \in Sockets : AtWork(s) /\ AtWork(r) => s = r

(* A socket with frames to settle is marked open, on its instance and, while*)
(* nothing failed, in Redis.                                                *)
Marked(s) == open[On[s]] /\ (mishaps = 0 => mark)
FramesAreMarked ==
    \A s \in Sockets :
        /\ waiting[s] # {} => phase[s] \in {"streaming", "stopping", "closing"}
        /\ phase[s] = "streaming" \/ waiting[s] # {} => Marked(s)
        /\ waiting[s] \subseteq 1..heard

(* A webhook that polls is on another instance than the frames it is owed,  *)
(* and one that goes on without waiting any longer has them all, unless     *)
(* something failed.                                                        *)
Owes(s, w) == waiting[s] \cap owed[w] # {}
OwedAreAwaited ==
    \A w \in Hooks :
        /\ owed[w] \subseteq 1..heard
        /\ \A s \in Sockets : Owes(s, w) =>
            /\ stage[w] = "poll" => On[s] # On[w]
            /\ stage[w] \in {"end", "complete"} /\ ~completed /\ ~overlapped =>
                  mishaps > 0 /\ On[s] # On[w]

(* Until two instances have the row in hand at once, the one that has it    *)
(* has the row as it is: nobody else saves, and it read an active call.     *)
RowIsCurrent ==
    ~overlapped =>
        /\ \A i, j \in Instances : ~Free(i) /\ ~Free(j) => i = j
        /\ \A i \in Instances : ~Free(i) => ~completed

EndInv ==
    /\ TypeOK /\ ProcessedOnce /\ RowIsCurrent
    /\ OneAtATime /\ FramesAreMarked /\ OwedAreAwaited
    /\ mishaps = 0 => up

LEMMA EndFacts ==
    /\ \A x \in Sockets \cup Hooks : On[x] \in Instances
    /\ Sweepers \subseteq Instances /\ Desks \subseteq Instances
    /\ MaxFrames \in Nat /\ MaxStarts \in Nat /\ MaxMishaps \in Nat
  BY TelephonyAssumption DEF EndAssumption

LEMMA EndStarts == Init => EndInv
  <1> SUFFICES ASSUME Init PROVE EndInv
    OBVIOUS
  <1>1. /\ said \subseteq Frames /\ processed \in Nat
        /\ heard \in 0..MaxFrames /\ starts \in 0..MaxStarts /\ mishaps \in 0..MaxMishaps
    BY EndFacts DEF Init
  <1>2. TypeOK /\ ProcessedOnce
    <2>1. /\ completed \in BOOLEAN /\ hungUp \in BOOLEAN /\ mark \in BOOLEAN /\ up \in BOOLEAN
          /\ open \in [Instances -> BOOLEAN] /\ overlapped \in BOOLEAN
      BY Zenon DEF Init
    <2> QED BY <1>1, <2>1 DEF Init, TypeOK, ProcessedOnce
  <1>3. OneAtATime /\ FramesAreMarked /\ RowIsCurrent
    BY EndFacts DEF Init, OneAtATime, AtWork, FramesAreMarked, RowIsCurrent, Free
  <1>4. OwedAreAwaited /\ up
    BY EndFacts DEF Init, OwedAreAwaited, Owes
  <1> QED BY <1>2, <1>3, <1>4 DEF EndInv

-----------------------------------------------------------------------------
(* What a step does to the call's row: it is read while the call is active, *)
(* saved by who has it in hand, or given up.                                *)
row == <<completed, said, processed, held, overlapped>>
Reads ==
    ~completed /\ \E i \in Instances, words \in SUBSET Frames,
                     who \in Sockets \cup Hooks \cup {"sweep", "person"} : ReadRow(i, who, words)
Saves ==
    \E i \in Instances :
        /\ ~Free(i) /\ said' = held[i].said
        /\ held' = [held EXCEPT ![i] = None] /\ UNCHANGED overlapped
        /\ \/ completed' = TRUE /\ processed' = processed + 1
           \/ completed' = FALSE /\ processed' = processed
Fails ==
    /\ \E i \in Instances : held' = [held EXCEPT ![i] = None]
    /\ UNCHANGED <<completed, said, processed, overlapped>>
RowSteps == UNCHANGED row \/ Reads \/ Saves \/ Fails

LEMMA RowIsReadThenSaved ==
  ASSUME TypeOK, Next
  PROVE  RowSteps
  <1> USE DEF RowSteps, row, record
  <1>1. ASSUME NEW s \in Sockets, Connect(s) PROVE RowSteps
    BY <1>1 DEF Connect, Goes, StreamOpened
  <1>2. ASSUME NEW s \in Sockets, Start(s) PROVE RowSteps
    BY <1>2 DEF Start, Goes, StreamOpened
  <1>3. ASSUME NEW s \in Sockets, Heartbeat(s) PROVE RowSteps
    BY <1>3 DEF Heartbeat, StreamOpened
  <1>4. ASSUME NEW s \in Sockets, Media(s) PROVE RowSteps
    BY <1>4 DEF Media
  <1>5. ASSUME NEW s \in Sockets, Unheard(s) PROVE RowSteps
    BY <1>5 DEF Unheard
  <1>6. ASSUME NEW s \in Sockets, Hear(s) PROVE RowSteps
    BY <1>6, EndFacts DEF Hear, Reads, TypeOK
  <1>7. ASSUME NEW s \in Sockets, Add(s) PROVE RowSteps
    BY <1>7, EndFacts DEF Add, Holds, Saves, Fails, SaveRow, SaveFails
  <1>8. ASSUME NEW s \in Sockets, Stop(s) PROVE RowSteps
    BY <1>8 DEF Stop, Goes
  <1>9. ASSUME NEW s \in Sockets, Disconnect(s) PROVE RowSteps
    BY <1>9 DEF Disconnect, Goes
  <1>10. ASSUME NEW s \in Sockets, Drain(s) PROVE RowSteps
    BY <1>10 DEF Drain, Goes, StreamDrained
  <1>11. ASSUME NEW w \in Hooks, Arrive(w) PROVE RowSteps
    BY <1>11 DEF Arrive, Follows
  <1>12. ASSUME NEW w \in Hooks, BeginWait(w) PROVE RowSteps
    BY <1>12 DEF BeginWait, Follows
  <1>13. ASSUME NEW w \in Hooks, Poll(w) PROVE RowSteps
    BY <1>13 DEF Poll, Follows
  <1>14. ASSUME NEW w \in Hooks, TimeOut(w) PROVE RowSteps
    BY <1>14 DEF TimeOut, Follows
  <1>15. ASSUME NEW w \in Hooks, HandleStatus(w) PROVE RowSteps
    BY <1>15 DEF HandleStatus, Follows
  <1>16. ASSUME NEW w \in Hooks, AskEnd(w) PROVE RowSteps
    BY <1>16, EndFacts DEF AskEnd, AlreadyEnded, ReadToEnd, Reads
  <1>17. ASSUME NEW w \in Hooks, Complete(w) PROVE RowSteps
    BY <1>17, EndFacts DEF Complete, EndCall, Holds, Saves, Fails, SaveRow, SaveFails
  <1>18. ASSUME NEW i \in Sweepers, Sweep(i) PROVE RowSteps
    BY <1>18 DEF Sweep
  <1>19. ASSUME NEW i \in Sweepers, CompleteStale(i) PROVE RowSteps
    BY <1>19, EndFacts DEF CompleteStale, AlreadyEnded, ReadToEnd, EndCall, Holds, Reads,
       Saves, Fails,
       SaveRow, SaveFails
  <1>20. ASSUME NEW i \in Sweepers, GrowsOld(i) PROVE RowSteps
    BY <1>20 DEF GrowsOld
  <1>21. ASSUME NEW i \in Instances, Crash(i) PROVE RowSteps
    BY <1>21 DEF Crash, Fails
  <1>22. ASSUME NEW i \in Desks, EndByHand(i) PROVE RowSteps
    BY <1>22, EndFacts DEF EndByHand, ReadToEnd, EndCall, Holds, Reads, Saves, Fails,
       SaveRow, SaveFails
  <1>23. ASSUME HangUp PROVE RowSteps
    BY <1>23 DEF HangUp
  <1>24. ASSUME MarkExpires PROVE RowSteps
    BY <1>24 DEF MarkExpires
  <1>25. ASSUME RedisFails PROVE RowSteps
    BY <1>25 DEF RedisFails
  <1>26. ASSUME RedisReturns PROVE RowSteps
    BY <1>26 DEF RedisReturns
  <1> QED
    BY <1>1, <1>2, <1>3, <1>4, <1>5, <1>6, <1>7, <1>8, <1>9, <1>10, <1>11, <1>12, <1>13,
       <1>14, <1>15, <1>16, <1>17, <1>18, <1>19, <1>20, <1>21, <1>22, <1>23, <1>24,
       <1>25, <1>26
    DEF Next, Receive, Settle, Follow

RowTyped ==
    /\ completed \in BOOLEAN /\ said \subseteq Frames /\ processed \in Nat
    /\ held \in [Instances ->
         [by: Sockets \cup Hooks \cup {"sweep", "person"}, said: SUBSET Frames] \cup {None}]
    /\ overlapped \in BOOLEAN

LEMMA RowStaysTyped ==
  ASSUME TypeOK, Next
  PROVE  RowTyped'
  <1> USE DEF TypeOK, RowTyped
  <1>1. CASE UNCHANGED row
    BY <1>1 DEF row
  <1>2. CASE Reads
    <2> PICK i \in Instances, words \in SUBSET Frames,
             who \in Sockets \cup Hooks \cup {"sweep", "person"} : ReadRow(i, who, words)
      BY <1>2 DEF Reads
    <2>1. overlapped' \in BOOLEAN /\ UNCHANGED <<completed, said, processed>>
      BY Zenon DEF ReadRow
    <2>2. [by |-> who, said |-> said \cup words] \in
            [by: Sockets \cup Hooks \cup {"sweep", "person"}, said: SUBSET Frames]
      OBVIOUS
    <2> QED BY <2>1, <2>2 DEF ReadRow
  <1>3. CASE Saves
    <2> PICK i \in Instances :
          /\ ~Free(i) /\ said' = held[i].said
          /\ held' = [held EXCEPT ![i] = None] /\ UNCHANGED overlapped
          /\ \/ completed' = TRUE /\ processed' = processed + 1
             \/ completed' = FALSE /\ processed' = processed
      BY <1>3 DEF Saves
    <2>1. held[i].said \subseteq Frames
      BY DEF Free
    <2>2. completed' \in BOOLEAN
      BY Zenon
    <2>3. processed' \in Nat
      OBVIOUS
    <2> QED BY <2>1, <2>2, <2>3
  <1>4. CASE Fails
    BY <1>4 DEF Fails
  <1> QED BY <1>1, <1>2, <1>3, <1>4, RowIsReadThenSaved DEF RowSteps

(* Whoever has the row in hand while no two instances had is the only one,  *)
(* so what it saves is what it found, changed.                              *)
LEMMA RowStaysCurrent ==
  ASSUME TypeOK, ProcessedOnce, RowIsCurrent, Next
  PROVE  RowIsCurrent' /\ ProcessedOnce'
  <1> USE DEF TypeOK, RowIsCurrent, ProcessedOnce, Free
  <1>1. CASE UNCHANGED row
    BY <1>1 DEF row
  <1>2. CASE Reads
    <2> PICK i \in Instances, words \in SUBSET Frames,
             who \in Sockets \cup Hooks \cup {"sweep", "person"} : ReadRow(i, who, words)
      BY <1>2 DEF Reads
    <2>1. ~overlapped' => ~overlapped /\ \A j \in Instances : held[j] = None
      BY Zenon DEF ReadRow, Free
    <2>2. \A j \in Instances \ {i} : held'[j] = held[j]
      BY DEF ReadRow
    <2>3. ~completed /\ UNCHANGED <<completed, processed>>
      BY <1>2 DEF Reads, ReadRow
    <2> QED BY <2>1, <2>2, <2>3
  <1>3. CASE Saves
    BY <1>3 DEF Saves
  <1>4. CASE Fails
    BY <1>4 DEF Fails
  <1> QED BY <1>1, <1>2, <1>3, <1>4, RowIsReadThenSaved DEF RowSteps

LEMMA RowInHandAt ==
  ASSUME RowIsCurrent, NEW i \in Instances, ~Free(i), ~overlapped
  PROVE  ~completed
  BY DEF RowIsCurrent

LEMMA EndTypeStays ==
  ASSUME TypeOK, Next
  PROVE  TypeOK'
  <1> USE EndFacts DEF TypeOK, Frames, record, socket, marks, hooks, sweeps
  <1>1. ASSUME NEW s \in Sockets, Connect(s) PROVE TypeOK'
    BY <1>1 DEF Connect, Goes, StreamOpened
  <1>2. ASSUME NEW s \in Sockets, Start(s) PROVE TypeOK'
    BY <1>2 DEF Start, Goes, StreamOpened
  <1>3. ASSUME NEW s \in Sockets, Heartbeat(s) PROVE TypeOK'
    BY <1>3 DEF Heartbeat, StreamOpened
  <1>4. ASSUME NEW s \in Sockets, Media(s) PROVE TypeOK'
    BY <1>4 DEF Media
  <1>5. ASSUME NEW s \in Sockets, Unheard(s) PROVE TypeOK'
    BY <1>5 DEF Unheard
  <1>6. ASSUME NEW s \in Sockets, Hear(s) PROVE TypeOK'
    BY <1>6, RowStaysTyped DEF RowTyped, Hear, ReadRow
  <1>7. ASSUME NEW s \in Sockets, Add(s) PROVE TypeOK'
    BY <1>7, RowStaysTyped DEF RowTyped, Add, SaveRow, SaveFails
  <1>8. ASSUME NEW s \in Sockets, Stop(s) PROVE TypeOK'
    BY <1>8 DEF Stop, Goes
  <1>9. ASSUME NEW s \in Sockets, Disconnect(s) PROVE TypeOK'
    BY <1>9 DEF Disconnect, Goes
  <1>10. ASSUME NEW s \in Sockets, Drain(s) PROVE TypeOK'
    <2>1. phase' \in [Sockets -> {"away", "connected", "streaming", "stopping", "closing", "gone"}]
      BY <1>10 DEF Drain, Goes
    <2>2. stage' \in [Hooks -> {"unsent", "begin", "event", "poll", "end", "complete", "done"}]
      BY <1>10 DEF Drain, StreamDrained
    <2>3. open' \in [Instances -> BOOLEAN] /\ mark' \in BOOLEAN
      BY <1>10 DEF Drain, StreamDrained
    <2>4. UNCHANGED <<record, waiting, heard, sweep, idle, mishaps>>
      BY <1>10 DEF Drain, Goes
    <2>5. UNCHANGED <<starts, up, owed>>
      BY <1>10 DEF Drain, StreamDrained
    <2> QED BY <2>1, <2>2, <2>3, <2>4, <2>5
  <1>11. ASSUME NEW w \in Hooks, Arrive(w) PROVE TypeOK'
    BY <1>11 DEF Arrive, Follows
  <1>12. ASSUME NEW w \in Hooks, BeginWait(w) PROVE TypeOK'
    BY <1>12 DEF BeginWait, Follows
  <1>13. ASSUME NEW w \in Hooks, Poll(w) PROVE TypeOK'
    BY <1>13 DEF Poll, Follows
  <1>14. ASSUME NEW w \in Hooks, TimeOut(w) PROVE TypeOK'
    BY <1>14 DEF TimeOut, Follows
  <1>15. ASSUME NEW w \in Hooks, HandleStatus(w) PROVE TypeOK'
    BY <1>15 DEF HandleStatus, Follows
  <1>16. ASSUME NEW w \in Hooks, AskEnd(w) PROVE TypeOK'
    BY <1>16, RowStaysTyped DEF RowTyped, AskEnd, AlreadyEnded, ReadToEnd, ReadRow, Follows
  <1>17. ASSUME NEW w \in Hooks, Complete(w) PROVE TypeOK'
    BY <1>17, RowStaysTyped DEF RowTyped, Complete, EndCall, SaveRow, SaveFails, Follows
  <1>18. ASSUME NEW i \in Sweepers, Sweep(i) PROVE TypeOK'
    <2>1. sweep' \in [Sweepers -> {"resting", "completing"}]
      BY <1>18 DEF Sweep
    <2>2. idle' \in [Sweepers -> [said: SUBSET Frames, long: BOOLEAN] \cup {None}]
      <3>1. CASE idle' = [idle EXCEPT ![i] = [said |-> said, long |-> FALSE]]
        BY <3>1
      <3> QED BY <1>18, <3>1 DEF Sweep
    <2>3. UNCHANGED <<record, phase, waiting, heard, starts>>
      BY <1>18 DEF Sweep
    <2>4. UNCHANGED <<open, mark, up, stage, owed, mishaps>>
      BY <1>18 DEF Sweep
    <2> QED BY <2>1, <2>2, <2>3, <2>4
  <1>19. ASSUME NEW i \in Sweepers, CompleteStale(i) PROVE TypeOK'
    <2>1. UNCHANGED <<phase, waiting, heard, starts, open, mark, up, stage, owed, hungUp>>
      BY <1>19 DEF CompleteStale, AlreadyEnded, ReadToEnd, ReadRow, EndCall, SaveRow,
         SaveFails
    <2>2. sweep' \in [Sweepers -> {"resting", "completing"}]
      BY <1>19 DEF CompleteStale
    <2>3. idle' \in [Sweepers -> [said: SUBSET Frames, long: BOOLEAN] \cup {None}]
      BY <1>19 DEF CompleteStale
    <2>4. mishaps' \in 0..MaxMishaps
      <3>1. mishaps' = mishaps \/ (mishaps < MaxMishaps /\ mishaps' = mishaps + 1)
        BY <1>19, Zenon DEF CompleteStale, AlreadyEnded, ReadToEnd, EndCall, SaveFails
      <3> QED BY <3>1
    <2> QED BY <2>1, <2>2, <2>3, <2>4, RowStaysTyped DEF RowTyped
  <1>20. ASSUME NEW i \in Sweepers, GrowsOld(i) PROVE TypeOK'
    BY <1>20 DEF GrowsOld
  <1>21. ASSUME NEW i \in Instances, Crash(i) PROVE TypeOK'
    BY <1>21, RowStaysTyped DEF RowTyped, Crash
  <1>22. ASSUME NEW i \in Desks, EndByHand(i) PROVE TypeOK'
    BY <1>22, RowStaysTyped DEF RowTyped, EndByHand, ReadToEnd, ReadRow, EndCall, SaveRow,
       SaveFails
  <1>23. ASSUME HangUp PROVE TypeOK'
    BY <1>23 DEF HangUp
  <1>24. ASSUME MarkExpires PROVE TypeOK'
    BY <1>24 DEF MarkExpires
  <1>25. ASSUME RedisFails PROVE TypeOK'
    <2>1. UNCHANGED <<record, phase, waiting, heard, starts>>
      BY <1>25 DEF RedisFails
    <2>2. UNCHANGED <<open, mark, stage, owed, sweep, idle>>
      BY <1>25 DEF RedisFails
    <2>3. up' \in BOOLEAN
      BY <1>25 DEF RedisFails
    <2>4. mishaps' \in 0..MaxMishaps
      BY <1>25 DEF RedisFails
    <2> QED BY <2>1, <2>2, <2>3, <2>4
  <1>26. ASSUME RedisReturns PROVE TypeOK'
    BY <1>26 DEF RedisReturns
  <1> QED
    BY <1>1, <1>2, <1>3, <1>4, <1>5, <1>6, <1>7, <1>8, <1>9, <1>10, <1>11, <1>12, <1>13,
       <1>14, <1>15, <1>16, <1>17, <1>18, <1>19, <1>20, <1>21, <1>22, <1>23, <1>24,
       <1>25, <1>26
    DEF Next, Receive, Settle, Follow

LEMMA OneAtATimeStays ==
  ASSUME ~Overlapping, EndInv, Next
  PROVE  OneAtATime'
  <1> USE EndFacts DEF EndInv, TypeOK, OneAtATime, AtWork, record, socket, marks, hooks,
     sweeps
  <1>1. ASSUME NEW s \in Sockets, Connect(s) PROVE OneAtATime'
    BY <1>1 DEF Connect, Goes, StreamOpened
  <1>2. ASSUME NEW s \in Sockets, Start(s) PROVE OneAtATime'
    BY <1>2 DEF Start, Goes, StreamOpened
  <1>3. ASSUME NEW s \in Sockets, Heartbeat(s) PROVE OneAtATime'
    BY <1>3 DEF Heartbeat, StreamOpened
  <1>4. ASSUME NEW s \in Sockets, Media(s) PROVE OneAtATime'
    BY <1>4 DEF Media
  <1>5. ASSUME NEW s \in Sockets, Unheard(s) PROVE OneAtATime'
    BY <1>5 DEF Unheard
  <1>6. ASSUME NEW s \in Sockets, Hear(s) PROVE OneAtATime'
    BY <1>6 DEF Hear, ReadRow
  <1>7. ASSUME NEW s \in Sockets, Add(s) PROVE OneAtATime'
    BY <1>7 DEF Add, SaveRow, SaveFails
  <1>8. ASSUME NEW s \in Sockets, Stop(s) PROVE OneAtATime'
    BY <1>8 DEF Stop, Goes
  <1>9. ASSUME NEW s \in Sockets, Disconnect(s) PROVE OneAtATime'
    BY <1>9 DEF Disconnect, Goes
  <1>10. ASSUME NEW s \in Sockets, Drain(s) PROVE OneAtATime'
    BY <1>10 DEF Drain, Goes, StreamDrained
  <1>11. ASSUME NEW w \in Hooks, Arrive(w) PROVE OneAtATime'
    BY <1>11 DEF Arrive, Follows
  <1>12. ASSUME NEW w \in Hooks, BeginWait(w) PROVE OneAtATime'
    BY <1>12 DEF BeginWait, Follows
  <1>13. ASSUME NEW w \in Hooks, Poll(w) PROVE OneAtATime'
    BY <1>13 DEF Poll, Follows
  <1>14. ASSUME NEW w \in Hooks, TimeOut(w) PROVE OneAtATime'
    BY <1>14 DEF TimeOut, Follows
  <1>15. ASSUME NEW w \in Hooks, HandleStatus(w) PROVE OneAtATime'
    BY <1>15 DEF HandleStatus, Follows
  <1>16. ASSUME NEW w \in Hooks, AskEnd(w) PROVE OneAtATime'
    BY <1>16 DEF AskEnd, AlreadyEnded, ReadToEnd, ReadRow, Follows
  <1>17. ASSUME NEW w \in Hooks, Complete(w) PROVE OneAtATime'
    BY <1>17 DEF Complete, EndCall, SaveRow, SaveFails, Follows
  <1>18. ASSUME NEW i \in Sweepers, Sweep(i) PROVE OneAtATime'
    BY <1>18 DEF Sweep
  <1>19. ASSUME NEW i \in Sweepers, CompleteStale(i) PROVE OneAtATime'
    BY <1>19 DEF CompleteStale, AlreadyEnded, ReadToEnd, ReadRow, EndCall, SaveRow,
       SaveFails
  <1>20. ASSUME NEW i \in Sweepers, GrowsOld(i) PROVE OneAtATime'
    BY <1>20 DEF GrowsOld
  <1>21. ASSUME NEW i \in Instances, Crash(i) PROVE OneAtATime'
    BY <1>21 DEF Crash
  <1>22. ASSUME NEW i \in Desks, EndByHand(i) PROVE OneAtATime'
    BY <1>22 DEF EndByHand, ReadToEnd, ReadRow, EndCall, SaveRow, SaveFails
  <1>23. ASSUME HangUp PROVE OneAtATime'
    BY <1>23 DEF HangUp
  <1>24. ASSUME MarkExpires PROVE OneAtATime'
    BY <1>24 DEF MarkExpires
  <1>25. ASSUME RedisFails PROVE OneAtATime'
    BY <1>25 DEF RedisFails
  <1>26. ASSUME RedisReturns PROVE OneAtATime'
    BY <1>26 DEF RedisReturns
  <1> QED
    BY <1>1, <1>2, <1>3, <1>4, <1>5, <1>6, <1>7, <1>8, <1>9, <1>10, <1>11, <1>12, <1>13,
       <1>14, <1>15, <1>16, <1>17, <1>18, <1>19, <1>20, <1>21, <1>22, <1>23, <1>24,
       <1>25, <1>26
    DEF Next, Receive, Settle, Follow

LEMMA FramesStayMarked ==
  ASSUME ~Overlapping, EndInv, Next
  PROVE  FramesAreMarked'
  <1> USE EndFacts DEF EndInv, TypeOK, FramesAreMarked, Marked, OneAtATime, AtWork, record,
     socket, marks, hooks, sweeps
  <1>1. ASSUME NEW s \in Sockets, Connect(s) PROVE FramesAreMarked'
    BY <1>1 DEF Connect, Goes, StreamOpened
  <1>2. ASSUME NEW s \in Sockets, Start(s) PROVE FramesAreMarked'
    BY <1>2 DEF Start, Goes, StreamOpened
  <1>3. ASSUME NEW s \in Sockets, Heartbeat(s) PROVE FramesAreMarked'
    BY <1>3 DEF Heartbeat, StreamOpened
  <1>4. ASSUME NEW s \in Sockets, Media(s) PROVE FramesAreMarked'
    BY <1>4 DEF Media
  <1>5. ASSUME NEW s \in Sockets, Unheard(s) PROVE FramesAreMarked'
    BY <1>5 DEF Unheard
  <1>6. ASSUME NEW s \in Sockets, Hear(s) PROVE FramesAreMarked'
    BY <1>6 DEF Hear, ReadRow
  <1>7. ASSUME NEW s \in Sockets, Add(s) PROVE FramesAreMarked'
    BY <1>7 DEF Add, SaveRow, SaveFails
  <1>8. ASSUME NEW s \in Sockets, Stop(s) PROVE FramesAreMarked'
    BY <1>8 DEF Stop, Goes
  <1>9. ASSUME NEW s \in Sockets, Disconnect(s) PROVE FramesAreMarked'
    BY <1>9 DEF Disconnect, Goes
  <1>10. ASSUME NEW s \in Sockets, Drain(s) PROVE FramesAreMarked'
    BY <1>10 DEF Drain, Goes, StreamDrained
  <1>11. ASSUME NEW w \in Hooks, Arrive(w) PROVE FramesAreMarked'
    BY <1>11 DEF Arrive, Follows
  <1>12. ASSUME NEW w \in Hooks, BeginWait(w) PROVE FramesAreMarked'
    BY <1>12 DEF BeginWait, Follows
  <1>13. ASSUME NEW w \in Hooks, Poll(w) PROVE FramesAreMarked'
    BY <1>13 DEF Poll, Follows
  <1>14. ASSUME NEW w \in Hooks, TimeOut(w) PROVE FramesAreMarked'
    BY <1>14 DEF TimeOut, Follows
  <1>15. ASSUME NEW w \in Hooks, HandleStatus(w) PROVE FramesAreMarked'
    BY <1>15 DEF HandleStatus, Follows
  <1>16. ASSUME NEW w \in Hooks, AskEnd(w) PROVE FramesAreMarked'
    BY <1>16 DEF AskEnd, AlreadyEnded, ReadToEnd, ReadRow, Follows
  <1>17. ASSUME NEW w \in Hooks, Complete(w) PROVE FramesAreMarked'
    BY <1>17 DEF Complete, EndCall, SaveRow, SaveFails, Follows
  <1>18. ASSUME NEW i \in Sweepers, Sweep(i) PROVE FramesAreMarked'
    BY <1>18 DEF Sweep
  <1>19. ASSUME NEW i \in Sweepers, CompleteStale(i) PROVE FramesAreMarked'
    BY <1>19 DEF CompleteStale, AlreadyEnded, ReadToEnd, ReadRow, EndCall, SaveRow,
       SaveFails
  <1>20. ASSUME NEW i \in Sweepers, GrowsOld(i) PROVE FramesAreMarked'
    BY <1>20 DEF GrowsOld
  <1>21. ASSUME NEW i \in Instances, Crash(i) PROVE FramesAreMarked'
    BY <1>21 DEF Crash
  <1>22. ASSUME NEW i \in Desks, EndByHand(i) PROVE FramesAreMarked'
    BY <1>22 DEF EndByHand, ReadToEnd, ReadRow, EndCall, SaveRow, SaveFails
  <1>23. ASSUME HangUp PROVE FramesAreMarked'
    BY <1>23 DEF HangUp
  <1>24. ASSUME MarkExpires PROVE FramesAreMarked'
    BY <1>24 DEF MarkExpires
  <1>25. ASSUME RedisFails PROVE FramesAreMarked'
    BY <1>25 DEF RedisFails
  <1>26. ASSUME RedisReturns PROVE FramesAreMarked'
    BY <1>26 DEF RedisReturns
  <1> QED
    BY <1>1, <1>2, <1>3, <1>4, <1>5, <1>6, <1>7, <1>8, <1>9, <1>10, <1>11, <1>12, <1>13,
       <1>14, <1>15, <1>16, <1>17, <1>18, <1>19, <1>20, <1>21, <1>22, <1>23, <1>24,
       <1>25, <1>26
    DEF Next, Receive, Settle, Follow

LEMMA OwedStayAwaited ==
  ASSUME ~Overlapping, EndInv, Next
  PROVE  OwedAreAwaited'
  <1> USE EndFacts DEF EndInv, TypeOK, OwedAreAwaited, Owes, FramesAreMarked, Marked,
     StreamIsOpen, OpenElsewhere, OneAtATime, AtWork, record, socket, marks, hooks, sweeps
  <1>1. ASSUME NEW s \in Sockets, Connect(s) PROVE OwedAreAwaited'
    BY <1>1 DEF Connect, Goes, StreamOpened
  <1>2. ASSUME NEW s \in Sockets, Start(s) PROVE OwedAreAwaited'
    BY <1>2 DEF Start, Goes, StreamOpened
  <1>3. ASSUME NEW s \in Sockets, Heartbeat(s) PROVE OwedAreAwaited'
    BY <1>3 DEF Heartbeat, StreamOpened
  <1>4. ASSUME NEW s \in Sockets, Media(s) PROVE OwedAreAwaited'
    BY <1>4 DEF Media
  <1>5. ASSUME NEW s \in Sockets, Unheard(s) PROVE OwedAreAwaited'
    BY <1>5 DEF Unheard
  <1>6. ASSUME NEW s \in Sockets, Hear(s) PROVE OwedAreAwaited'
    BY <1>6 DEF Hear, ReadRow
  <1>7. ASSUME NEW s \in Sockets, Add(s) PROVE OwedAreAwaited'
    BY <1>7, RowInHandAt DEF Holds, Add, SaveRow, SaveFails
  <1>8. ASSUME NEW s \in Sockets, Stop(s) PROVE OwedAreAwaited'
    BY <1>8 DEF Stop, Goes
  <1>9. ASSUME NEW s \in Sockets, Disconnect(s) PROVE OwedAreAwaited'
    BY <1>9 DEF Disconnect, Goes
  <1>10. ASSUME NEW s \in Sockets, Drain(s) PROVE OwedAreAwaited'
    BY <1>10 DEF Drain, Goes, StreamDrained
  <1>11. ASSUME NEW w \in Hooks, Arrive(w) PROVE OwedAreAwaited'
    BY <1>11 DEF Arrive, Follows
  <1>12. ASSUME NEW w \in Hooks, BeginWait(w) PROVE OwedAreAwaited'
    BY <1>12 DEF BeginWait, Follows
  <1>13. ASSUME NEW w \in Hooks, Poll(w) PROVE OwedAreAwaited'
    BY <1>13 DEF Poll, Follows
  <1>14. ASSUME NEW w \in Hooks, TimeOut(w) PROVE OwedAreAwaited'
    BY <1>14 DEF TimeOut, Follows
  <1>15. ASSUME NEW w \in Hooks, HandleStatus(w) PROVE OwedAreAwaited'
    BY <1>15 DEF HandleStatus, Follows
  <1>16. ASSUME NEW w \in Hooks, AskEnd(w) PROVE OwedAreAwaited'
    BY <1>16 DEF AskEnd, AlreadyEnded, ReadToEnd, ReadRow, Follows
  <1>17. ASSUME NEW w \in Hooks, Complete(w) PROVE OwedAreAwaited'
    BY <1>17, RowInHandAt DEF Holds, Complete, EndCall, SaveRow, SaveFails, Follows
  <1>18. ASSUME NEW i \in Sweepers, Sweep(i) PROVE OwedAreAwaited'
    BY <1>18 DEF Sweep
  <1>19. ASSUME NEW i \in Sweepers, CompleteStale(i) PROVE OwedAreAwaited'
    BY <1>19, RowInHandAt DEF Holds, CompleteStale, AlreadyEnded, ReadToEnd, ReadRow,
       EndCall, SaveRow, SaveFails
  <1>20. ASSUME NEW i \in Sweepers, GrowsOld(i) PROVE OwedAreAwaited'
    BY <1>20 DEF GrowsOld
  <1>21. ASSUME NEW i \in Instances, Crash(i) PROVE OwedAreAwaited'
    BY <1>21 DEF Crash
  <1>22. ASSUME NEW i \in Desks, EndByHand(i) PROVE OwedAreAwaited'
    BY <1>22, RowInHandAt DEF Holds, EndByHand, ReadToEnd, ReadRow, EndCall, SaveRow,
       SaveFails
  <1>23. ASSUME HangUp PROVE OwedAreAwaited'
    BY <1>23 DEF HangUp
  <1>24. ASSUME MarkExpires PROVE OwedAreAwaited'
    BY <1>24 DEF MarkExpires
  <1>25. ASSUME RedisFails PROVE OwedAreAwaited'
    BY <1>25 DEF RedisFails
  <1>26. ASSUME RedisReturns PROVE OwedAreAwaited'
    BY <1>26 DEF RedisReturns
  <1> QED
    BY <1>1, <1>2, <1>3, <1>4, <1>5, <1>6, <1>7, <1>8, <1>9, <1>10, <1>11, <1>12, <1>13,
       <1>14, <1>15, <1>16, <1>17, <1>18, <1>19, <1>20, <1>21, <1>22, <1>23, <1>24,
       <1>25, <1>26
    DEF Next, Receive, Settle, Follow

LEMMA RedisStaysUp ==
  ASSUME ~Overlapping, EndInv, Next
  PROVE  (mishaps = 0 => up)'
  <1> USE EndFacts DEF EndInv, TypeOK, record, socket, marks, hooks, sweeps
  <1>1. ASSUME NEW s \in Sockets, Connect(s) PROVE (mishaps = 0 => up)'
    BY <1>1 DEF Connect, Goes, StreamOpened
  <1>2. ASSUME NEW s \in Sockets, Start(s) PROVE (mishaps = 0 => up)'
    BY <1>2 DEF Start, Goes, StreamOpened
  <1>3. ASSUME NEW s \in Sockets, Heartbeat(s) PROVE (mishaps = 0 => up)'
    BY <1>3 DEF Heartbeat, StreamOpened
  <1>4. ASSUME NEW s \in Sockets, Media(s) PROVE (mishaps = 0 => up)'
    BY <1>4 DEF Media
  <1>5. ASSUME NEW s \in Sockets, Unheard(s) PROVE (mishaps = 0 => up)'
    BY <1>5 DEF Unheard
  <1>6. ASSUME NEW s \in Sockets, Hear(s) PROVE (mishaps = 0 => up)'
    BY <1>6 DEF Hear, ReadRow
  <1>7. ASSUME NEW s \in Sockets, Add(s) PROVE (mishaps = 0 => up)'
    BY <1>7 DEF Add, SaveRow, SaveFails
  <1>8. ASSUME NEW s \in Sockets, Stop(s) PROVE (mishaps = 0 => up)'
    BY <1>8 DEF Stop, Goes
  <1>9. ASSUME NEW s \in Sockets, Disconnect(s) PROVE (mishaps = 0 => up)'
    BY <1>9 DEF Disconnect, Goes
  <1>10. ASSUME NEW s \in Sockets, Drain(s) PROVE (mishaps = 0 => up)'
    BY <1>10 DEF Drain, Goes, StreamDrained
  <1>11. ASSUME NEW w \in Hooks, Arrive(w) PROVE (mishaps = 0 => up)'
    BY <1>11 DEF Arrive, Follows
  <1>12. ASSUME NEW w \in Hooks, BeginWait(w) PROVE (mishaps = 0 => up)'
    BY <1>12 DEF BeginWait, Follows
  <1>13. ASSUME NEW w \in Hooks, Poll(w) PROVE (mishaps = 0 => up)'
    BY <1>13 DEF Poll, Follows
  <1>14. ASSUME NEW w \in Hooks, TimeOut(w) PROVE (mishaps = 0 => up)'
    BY <1>14 DEF TimeOut, Follows
  <1>15. ASSUME NEW w \in Hooks, HandleStatus(w) PROVE (mishaps = 0 => up)'
    BY <1>15 DEF HandleStatus, Follows
  <1>16. ASSUME NEW w \in Hooks, AskEnd(w) PROVE (mishaps = 0 => up)'
    BY <1>16 DEF AskEnd, AlreadyEnded, ReadToEnd, ReadRow, Follows
  <1>17. ASSUME NEW w \in Hooks, Complete(w) PROVE (mishaps = 0 => up)'
    BY <1>17 DEF Complete, EndCall, SaveRow, SaveFails, Follows
  <1>18. ASSUME NEW i \in Sweepers, Sweep(i) PROVE (mishaps = 0 => up)'
    BY <1>18 DEF Sweep
  <1>19. ASSUME NEW i \in Sweepers, CompleteStale(i) PROVE (mishaps = 0 => up)'
    BY <1>19 DEF CompleteStale, AlreadyEnded, ReadToEnd, ReadRow, EndCall, SaveRow,
       SaveFails
  <1>20. ASSUME NEW i \in Sweepers, GrowsOld(i) PROVE (mishaps = 0 => up)'
    BY <1>20 DEF GrowsOld
  <1>21. ASSUME NEW i \in Instances, Crash(i) PROVE (mishaps = 0 => up)'
    BY <1>21 DEF Crash
  <1>22. ASSUME NEW i \in Desks, EndByHand(i) PROVE (mishaps = 0 => up)'
    BY <1>22 DEF EndByHand, ReadToEnd, ReadRow, EndCall, SaveRow, SaveFails
  <1>23. ASSUME HangUp PROVE (mishaps = 0 => up)'
    BY <1>23 DEF HangUp
  <1>24. ASSUME MarkExpires PROVE (mishaps = 0 => up)'
    BY <1>24 DEF MarkExpires
  <1>25. ASSUME RedisFails PROVE (mishaps = 0 => up)'
    BY <1>25 DEF RedisFails
  <1>26. ASSUME RedisReturns PROVE (mishaps = 0 => up)'
    BY <1>26 DEF RedisReturns
  <1> QED
    BY <1>1, <1>2, <1>3, <1>4, <1>5, <1>6, <1>7, <1>8, <1>9, <1>10, <1>11, <1>12, <1>13,
       <1>14, <1>15, <1>16, <1>17, <1>18, <1>19, <1>20, <1>21, <1>22, <1>23, <1>24,
       <1>25, <1>26
    DEF Next, Receive, Settle, Follow

LEMMA EndStep ==
  ASSUME ~Overlapping, EndInv, Next
  PROVE  EndInv'
  <1>1. TypeOK'
    BY EndTypeStays DEF EndInv
  <1>2. RowIsCurrent' /\ ProcessedOnce'
    BY RowStaysCurrent DEF EndInv
  <1> QED
    BY <1>1, <1>2, OneAtATimeStays, FramesStayMarked, OwedStayAwaited, RedisStaysUp
       DEF EndInv

LEMMA EndStays ==
  ASSUME ~Overlapping, EndInv, UNCHANGED vars
  PROVE  EndInv'
  BY DEF EndInv, TypeOK, ProcessedOnce, RowIsCurrent, Free, OneAtATime, AtWork,
     FramesAreMarked, Marked,
     OwedAreAwaited, Owes, vars, record, socket, marks, hooks, sweeps

LEMMA EndHolds == ASSUME ~Overlapping PROVE TelephonySpec => []EndInv
  <1>1. TelephonyInit => EndInv
    BY EndStarts DEF TelephonyInit
  <1>2. EndInv /\ [TelephonyNext]_<<part, mVars, vars>> => EndInv'
    <2> SUFFICES ASSUME EndInv, [TelephonyNext]_<<part, mVars, vars>> PROVE EndInv'
      OBVIOUS
    <2>1. CASE End(Next)
      BY <2>1, EndStep DEF End
    <2>2. CASE UNCHANGED vars
      BY <2>2, EndStays
    <2> QED BY <2>1, <2>2 DEF TelephonyNext, Stream
  <1> QED BY <1>1, <1>2, PTL DEF TelephonySpec

(* What was received when a webhook arrived is settled before it completes  *)
(* the call, unless its wait timed out, or Redis or the stream's own        *)
(* instance, which is another one, failed (or an overlap reopened the call).*)
THEOREM FinalAudio == ASSUME ~Overlapping PROVE TelephonySpec => FinalAudioLands
  <1> DEFINE Lands == \A w \in Hooks : Complete(w) /\ ~overlapped =>
         \A s \in Sockets :
            waiting[s] \cap owed[w] # {} => mishaps > 0 /\ On[s] # On[w]
  <1>1. EndInv => Lands
    BY EndFacts, RowInHandAt DEF EndInv, OwedAreAwaited, Owes, Complete, EndCall, Holds
  <1>2. FinalAudioLands <=> [][Lands]_vars
    BY DEF FinalAudioLands
  <1>3. EndInv => [Lands]_vars
    BY <1>1
  <1> HIDE DEF Lands
  <1> QED BY <1>2, <1>3, EndHolds, PTL

-----------------------------------------------------------------------------
(* The media stream.                                                        *)
Live(s) == mPhase[s] \notin {"away", "gone"}
OneStream == \A s, r \in Sockets : Live(s) /\ Live(r) => s = r

QuietAtRest ==
    \A s \in Sockets :
        /\ ~Live(s) => mQueue[s] = <<>> /\ mBusy[s] = None
        /\ ~Live(s) \/ mPhase[s] = "closing" => mBuffers[s] = None

(* The number n may come after x, a chunk or a restart.                     *)
ComesAfter(x, n) == IF x = None THEN n = 0 ELSE ~x.final /\ n = x.number + 1

(* The number the worker takes next.                                        *)
Expected(s, n) ==
    LET p == mProgress[StreamOn[s]] IN
    IF mBusy[s] # None THEN ComesAfter(mBusy[s], n)
    ELSE IF p = None THEN n = 0 ELSE ~p.final /\ n + p.base = p.next

Chained(q) ==
    \A k \in 1..Len(q) : k < Len(q) /\ q[k + 1] # None => ComesAfter(q[k], q[k + 1].number)

InTurn(s) ==
    LET q == mQueue[s] IN
    /\ Chained(q)
    /\ q # <<>> /\ q[1] # None => Expected(s, q[1].number)
    /\ mBuffers[s] # None =>
          IF q = <<>> THEN Expected(s, mNumbered[s]) ELSE ComesAfter(q[Len(q)], mNumbered[s])

BusyIsNext ==
    \A s \in Sockets : mBusy[s] # None =>
        LET p == mProgress[StreamOn[s]] IN p # None /\ mBusy[s].number + p.base = p.next

(* The frames a socket holds come in the order they were received, those of *)
(* the chunk in work first and those of the buffer last, and the count of   *)
(* its instance stays behind them: each chunk has a frame of its own.       *)
Before(F, G) == \A f \in F, g \in G : f < g
Sorted(q) ==
    \A j, k \in 1..Len(q) :
        j < k /\ q[j] # None /\ q[k] # None => Before(q[j].frames, q[k].frames)

Past(s) == IF mProgress[StreamOn[s]] = None THEN 0 ELSE mProgress[StreamOn[s]].next
StillNew(s, F) == \A f \in F : Past(s) < f /\ f <= mHeard
Queued(s) == M!Range(mQueue[s]) \ {None}

FramesInLine(s) ==
    /\ Sorted(mQueue[s])
    /\ \A c \in Queued(s) : c.frames # {} /\ StillNew(s, c.frames)
    /\ mBusy[s] # None =>
          /\ mBusy[s].frames # {} /\ StillNew(s, mBusy[s].frames)
          /\ \A c \in Queued(s) : Before(mBusy[s].frames, c.frames)
    /\ mBuffers[s] # None =>
          /\ StillNew(s, mBuffers[s])
          /\ \A c \in Queued(s) : Before(c.frames, mBuffers[s])
          /\ mBusy[s] # None => Before(mBusy[s].frames, mBuffers[s])

NumbersInBounds ==
    /\ \A s \in Sockets : mNumbered[s] <= mHeard
    /\ \A i \in Instances : mProgress[i] # None =>
          mProgress[i].base <= mProgress[i].next /\ mProgress[i].next <= mHeard

StreamInv ==
    /\ M!TypeOK
    /\ OneStream /\ QuietAtRest /\ BusyIsNext
    /\ NumbersInBounds /\ \A s \in Sockets : FramesInLine(s)
    /\ mGap \/ \A r \in Sockets : InTurn(r)

LEMMA StreamFacts ==
    /\ \A s \in Sockets : StreamOn[s] \in Instances
    /\ StreamFrames \in Nat /\ StreamStarts \in Nat /\ MaxHolds \in Nat /\ MaxMishaps \in Nat
    /\ None \notin SUBSET M!Frames /\ None \notin M!Chunks
    /\ None \notin [next: Nat, base: Nat, final: BOOLEAN]
  BY TelephonyAssumption, NoneIsNothing DEF M!StreamAssumption

LEMMA OneStreamStays ==
  ASSUME ~Overlapping, StreamInv, M!Next
  PROVE  OneStream'
  <1> USE StreamFacts DEF StreamInv, M!TypeOK, OneStream, Live, M!speech, M!socket,
     M!chunks, M!bounds
  <1>1. ASSUME NEW s \in Sockets, M!Connect(s) PROVE OneStream'
    BY <1>1 DEF M!Connect
  <1>2. ASSUME NEW s \in Sockets, M!Start(s) PROVE OneStream'
    BY <1>2 DEF M!Start, M!Flushed
  <1>3. ASSUME NEW s \in Sockets, M!Media(s) PROVE OneStream'
    BY <1>3 DEF M!Media
  <1>4. ASSUME NEW s \in Sockets, M!Stop(s) PROVE OneStream'
    BY <1>4 DEF M!Stop, M!FlushTo, M!Flushed
  <1>5. ASSUME NEW s \in Sockets, M!Disconnect(s) PROVE OneStream'
    BY <1>5 DEF M!Disconnect, M!FlushTo, M!Flushed
  <1>6. ASSUME NEW s \in Sockets, M!EndedElsewhere(s) PROVE OneStream'
    BY <1>6 DEF M!EndedElsewhere, M!FlushTo, M!Flushed
  <1>7. ASSUME NEW s \in Sockets, M!StillOn(s) PROVE OneStream'
    BY <1>7 DEF M!StillOn, M!Goes
  <1>8. ASSUME NEW s \in Sockets, M!Drained(s) PROVE OneStream'
    BY <1>8 DEF M!Drained, M!Goes, M!WorkerIsIdle
  <1>9. ASSUME NEW s \in Sockets, M!Closed(s) PROVE OneStream'
    BY <1>9 DEF M!Closed, M!Goes, M!WorkerIsIdle
  <1>10. ASSUME NEW s \in Sockets, M!Restart(s) PROVE OneStream'
    BY <1>10 DEF M!Restart, M!Takes, M!Restarted
  <1>11. ASSUME NEW s \in Sockets, M!LeaveOut(s) PROVE OneStream'
    BY <1>11 DEF M!LeaveOut, M!TakesChunk, M!Takes
  <1>12. ASSUME NEW s \in Sockets, M!Refuse(s) PROVE OneStream'
    BY <1>12 DEF M!Refuse, M!TakesChunk, M!Takes, M!InOrder
  <1>13. ASSUME NEW s \in Sockets, M!Transcribe(s) PROVE OneStream'
    BY <1>13 DEF M!Transcribe, M!TakesChunk, M!Takes, M!InOrder, M!Fresh
  <1>14. ASSUME NEW s \in Sockets, M!Transcribed(s) PROVE OneStream'
    BY <1>14 DEF M!Transcribed, M!Consumed
  <1>15. ASSUME NEW i \in Instances, M!Crash(i) PROVE OneStream'
    BY <1>15 DEF M!Crash
  <1>16. ASSUME M!Hold PROVE OneStream'
    BY <1>16 DEF M!Hold, M!Becomes
  <1>17. ASSUME M!Resume PROVE OneStream'
    BY <1>17 DEF M!Resume, M!Becomes
  <1>18. ASSUME M!Complete PROVE OneStream'
    BY <1>18 DEF M!Complete, M!Becomes
  <1> QED
    BY <1>1, <1>2, <1>3, <1>4, <1>5, <1>6, <1>7, <1>8, <1>9, <1>10, <1>11, <1>12, <1>13,
       <1>14, <1>15, <1>16, <1>17, <1>18
    DEF M!Next, M!Receive, M!Follow, M!Work

LEMMA QuietStay ==
  ASSUME ~Overlapping, StreamInv, M!Next
  PROVE  QuietAtRest'
  <1> USE StreamFacts DEF StreamInv, M!TypeOK, QuietAtRest, Live, M!speech, M!socket,
     M!chunks, M!bounds
  <1>1. ASSUME NEW s \in Sockets, M!Connect(s) PROVE QuietAtRest'
    BY <1>1 DEF M!Connect
  <1>2. ASSUME NEW s \in Sockets, M!Start(s) PROVE QuietAtRest'
    BY <1>2 DEF M!Start, M!Flushed
  <1>3. ASSUME NEW s \in Sockets, M!Media(s) PROVE QuietAtRest'
    BY <1>3 DEF M!Media
  <1>4. ASSUME NEW s \in Sockets, M!Stop(s) PROVE QuietAtRest'
    BY <1>4 DEF M!Stop, M!FlushTo, M!Flushed
  <1>5. ASSUME NEW s \in Sockets, M!Disconnect(s) PROVE QuietAtRest'
    BY <1>5 DEF M!Disconnect, M!FlushTo, M!Flushed
  <1>6. ASSUME NEW s \in Sockets, M!EndedElsewhere(s) PROVE QuietAtRest'
    BY <1>6 DEF M!EndedElsewhere, M!FlushTo, M!Flushed
  <1>7. ASSUME NEW s \in Sockets, M!StillOn(s) PROVE QuietAtRest'
    BY <1>7 DEF M!StillOn, M!Goes
  <1>8. ASSUME NEW s \in Sockets, M!Drained(s) PROVE QuietAtRest'
    BY <1>8 DEF M!Drained, M!Goes, M!WorkerIsIdle
  <1>9. ASSUME NEW s \in Sockets, M!Closed(s) PROVE QuietAtRest'
    BY <1>9 DEF M!Closed, M!Goes, M!WorkerIsIdle
  <1>10. ASSUME NEW s \in Sockets, M!Restart(s) PROVE QuietAtRest'
    BY <1>10 DEF M!Restart, M!Takes, M!Restarted
  <1>11. ASSUME NEW s \in Sockets, M!LeaveOut(s) PROVE QuietAtRest'
    BY <1>11 DEF M!LeaveOut, M!TakesChunk, M!Takes
  <1>12. ASSUME NEW s \in Sockets, M!Refuse(s) PROVE QuietAtRest'
    BY <1>12 DEF M!Refuse, M!TakesChunk, M!Takes, M!InOrder
  <1>13. ASSUME NEW s \in Sockets, M!Transcribe(s) PROVE QuietAtRest'
    BY <1>13 DEF M!Transcribe, M!TakesChunk, M!Takes, M!InOrder, M!Fresh
  <1>14. ASSUME NEW s \in Sockets, M!Transcribed(s) PROVE QuietAtRest'
    BY <1>14 DEF M!Transcribed, M!Consumed
  <1>15. ASSUME NEW i \in Instances, M!Crash(i) PROVE QuietAtRest'
    BY <1>15 DEF M!Crash
  <1>16. ASSUME M!Hold PROVE QuietAtRest'
    BY <1>16 DEF M!Hold, M!Becomes
  <1>17. ASSUME M!Resume PROVE QuietAtRest'
    BY <1>17 DEF M!Resume, M!Becomes
  <1>18. ASSUME M!Complete PROVE QuietAtRest'
    BY <1>18 DEF M!Complete, M!Becomes
  <1> QED
    BY <1>1, <1>2, <1>3, <1>4, <1>5, <1>6, <1>7, <1>8, <1>9, <1>10, <1>11, <1>12, <1>13,
       <1>14, <1>15, <1>16, <1>17, <1>18
    DEF M!Next, M!Receive, M!Follow, M!Work

LEMMA ChainGrows ==
  ASSUME NEW S, NEW q \in Seq(S), NEW x \in S, Chained(q),
         q # <<>> /\ x # None => ComesAfter(q[Len(q)], x.number)
  PROVE  LET r == Append(q, x) IN
         /\ r \in Seq(S) /\ r # <<>> /\ Chained(r)
         /\ r[1] = IF q = <<>> THEN x ELSE q[1]
         /\ r[Len(r)] = x
  <1> DEFINE r == Append(q, x)
  <1>1. r \in Seq(S) /\ Len(r) = Len(q) + 1 /\ r[Len(r)] = x
    OBVIOUS
  <1>2. \A k \in 1..Len(q) : r[k] = q[k]
    OBVIOUS
  <1>3. Chained(r)
    <2> SUFFICES ASSUME NEW k \in 1..Len(r), k < Len(r), r[k + 1] # None
                 PROVE  ComesAfter(r[k], r[k + 1].number)
      BY DEF Chained
    <2>1. k \in 1..Len(q) /\ r[k] = q[k]
      BY <1>1, <1>2
    <2>2. CASE k < Len(q)
      <3>1. r[k + 1] = q[k + 1]
        BY <1>1, <1>2, <2>2
      <3> QED BY <2>1, <2>2, <3>1 DEF Chained
    <2>3. CASE k = Len(q)
      <3>1. r[k + 1] = x /\ q # <<>>
        BY <1>1, <2>1, <2>3
      <3> QED BY <2>1, <2>3, <3>1
    <2> QED BY <2>1, <2>2, <2>3
  <1>4. r # <<>> /\ r[1] = IF q = <<>> THEN x ELSE q[1]
    BY <1>1, <1>2
  <1> QED BY <1>1, <1>3, <1>4

LEMMA ChainShrinks ==
  ASSUME NEW S, NEW q \in Seq(S), Chained(q), q # <<>>
  PROVE  LET r == Tail(q) IN
         /\ r \in Seq(S) /\ Chained(r) /\ Head(q) = q[1] /\ q[1] \in S
         /\ r # <<>> /\ r[1] # None => ComesAfter(q[1], r[1].number)
         /\ q[Len(q)] = IF r = <<>> THEN q[1] ELSE r[Len(r)]
  <1> DEFINE r == Tail(q)
  <1>1. /\ r \in Seq(S) /\ Len(r) = Len(q) - 1 /\ Head(q) = q[1] /\ q[1] \in S
        /\ \A k \in 1..Len(r) : r[k] = q[k + 1]
    OBVIOUS
  <1>2. Chained(r)
    BY <1>1 DEF Chained
  <1>3. r # <<>> /\ r[1] # None => ComesAfter(q[1], r[1].number)
    BY <1>1 DEF Chained
  <1>4. q[Len(q)] = IF r = <<>> THEN q[1] ELSE r[Len(r)]
    BY <1>1
  <1> QED BY <1>1, <1>2, <1>3, <1>4

LEMMA OthersAreInTurn ==
  ASSUME ~Overlapping, StreamInv, M!Next, NEW s \in Sockets, Live(s)', InTurn(s)'
  PROVE  (\A r \in Sockets : InTurn(r))'
  <1>1. ASSUME NEW r \in Sockets, ~Live(r)' PROVE InTurn(r)'
    BY <1>1, QuietStay DEF QuietAtRest, InTurn, Chained
  <1> QED BY <1>1, OneStreamStays DEF OneStream

LEMMA CountedOn ==
  ASSUME NEW p \in M!Counts, NEW c \in M!Chunks
  PROVE  M!Consumed(p, c) \in [next: Nat, base: Nat, final: BOOLEAN]
  <1>1. /\ p \in [next: Nat, base: Nat, final: BOOLEAN]
        /\ c.number + p.base + 1 \in Nat /\ c.final \in BOOLEAN
    BY StreamFacts DEF M!Counts, M!Chunks
  <1>2. ASSUME NEW n \in Nat, NEW b \in BOOLEAN
        PROVE  [p EXCEPT !.next = n, !.final = b] \in [next: Nat, base: Nat, final: BOOLEAN]
    BY <1>1
  <1> QED BY <1>1, <1>2 DEF M!Consumed

(* What a socket flushes comes in its turn.                                 *)
LEMMA FlushedInTurn ==
  ASSUME StreamInv, NEW s \in Sockets, InTurn(s), NEW final \in BOOLEAN,
         NEW sent \in BOOLEAN
  PROVE  LET q == M!Flushed(s, final, sent) IN
         /\ q \in Seq(M!Chunks \cup {None}) /\ Chained(q)
         /\ q # <<>> /\ q[1] # None => Expected(s, q[1].number)
  <1> DEFINE q == mQueue[s]
             c == [frames |-> mBuffers[s], number |-> mNumbered[s], final |-> final]
  <1>1. q \in Seq(M!Chunks \cup {None}) /\ Chained(q)
    BY DEF StreamInv, M!TypeOK, InTurn
  <1>2. CASE mBuffers[s] \in {None, {}} \/ ~sent
    BY <1>1, <1>2 DEF M!Flushed, InTurn
  <1>3. CASE mBuffers[s] \notin {None, {}} /\ sent
    <2>1. c \in M!Chunks /\ c.number = mNumbered[s]
      BY <1>3, StreamFacts DEF StreamInv, M!TypeOK, M!Chunks
    <2>2. q # <<>> => ComesAfter(q[Len(q)], c.number)
      BY <1>3, <2>1 DEF InTurn
    <2>3. LET r == Append(q, c) IN
          /\ r \in Seq(M!Chunks \cup {None}) /\ Chained(r)
          /\ r[1] = IF q = <<>> THEN c ELSE q[1]
      BY <1>1, <2>1, <2>2, ChainGrows
    <2>4. M!Flushed(s, final, sent) = Append(q, c)
      BY <1>3 DEF M!Flushed
    <2>5. q = <<>> => Expected(s, c.number)
      BY <1>3, <2>1 DEF InTurn
    <2> QED BY <2>3, <2>4, <2>5 DEF InTurn
  <1> QED BY <1>2, <1>3

LEMMA NumbersStayInTurn ==
  ASSUME ~Overlapping, StreamInv, M!Next
  PROVE  (mGap \/ \A r \in Sockets : InTurn(r))'
  <1>1. ASSUME NEW s \in Sockets, M!Connect(s) PROVE (mGap \/ \A r \in Sockets : InTurn(r))'
    BY <1>1, StreamFacts
    DEF M!Connect, StreamInv, M!TypeOK, InTurn, Expected,
        M!speech, M!socket, M!chunks, M!bounds
  <1>2. ASSUME NEW s \in Sockets, M!Start(s) PROVE (mGap \/ \A r \in Sockets : InTurn(r))'
    <2>1. /\ Live(s)' /\ UNCHANGED <<mBusy, mProgress, mGap>>
          /\ mBuffers'[s] = {} /\ mNumbered'[s] = 0
      BY <1>2 DEF M!Start, M!chunks, Live, StreamInv, M!TypeOK
    <2>0. PICK sent \in BOOLEAN : mQueue'[s] = Append(M!Flushed(s, FALSE, sent), None)
      BY <1>2 DEF M!Start, StreamInv, M!TypeOK
    <2> DEFINE q == M!Flushed(s, FALSE, sent)
    <2>2. mQueue'[s] = Append(q, None)
      BY <2>0
    <2>3. ASSUME InTurn(s) PROVE InTurn(s)'
      <3>1. /\ q \in Seq(M!Chunks \cup {None}) /\ Chained(q)
            /\ q # <<>> /\ q[1] # None => Expected(s, q[1].number)
        BY <2>3, FlushedInTurn
      <3> HIDE DEF q
      <3>2. LET r == Append(q, None) IN
            /\ r # <<>> /\ Chained(r)
            /\ r[1] = IF q = <<>> THEN None ELSE q[1]
            /\ r[Len(r)] = None
        BY <3>1, ChainGrows
      <3> QED BY <2>1, <2>2, <3>1, <3>2 DEF InTurn, Expected, ComesAfter
    <2> QED BY <2>1, <2>3, OthersAreInTurn DEF StreamInv
  <1>3. ASSUME NEW s \in Sockets, M!Media(s) PROVE (mGap \/ \A r \in Sockets : InTurn(r))'
    <2> DEFINE q == mQueue[s]  audio == mBuffers[s] \cup {mHeard + 1}
               c == [frames |-> audio, number |-> mNumbered[s], final |-> FALSE]
    <2>1. /\ Live(s)' /\ UNCHANGED <<mBusy, mProgress, mGap>> /\ mBuffers[s] # None
          /\ q \in Seq(M!Chunks \cup {None})
          /\ s \in DOMAIN mQueue /\ s \in DOMAIN mNumbered /\ s \in DOMAIN mBuffers
      BY <1>3 DEF M!Media, M!chunks, M!bounds, Live, StreamInv, M!TypeOK
    <2>2. CASE mBuffers' = [mBuffers EXCEPT ![s] = audio] /\ UNCHANGED <<mQueue, mNumbered>>
      <3>1. InTurn(s) => InTurn(s)'
        BY <2>1, <2>2 DEF InTurn, Expected
      <3> QED BY <2>1, <3>1, OthersAreInTurn DEF StreamInv
    <2>3. CASE /\ mQueue' = [mQueue EXCEPT ![s] = Append(q, c)]
               /\ mNumbered' = [mNumbered EXCEPT ![s] = mNumbered[s] + 1]
               /\ mBuffers' = [mBuffers EXCEPT ![s] = {}]
      <3>1. ~c.final /\ c.number = mNumbered[s]
        OBVIOUS
      <3>2. mQueue'[s] = Append(q, c) /\ mNumbered'[s] = mNumbered[s] + 1 /\ mBuffers'[s] = {}
        BY <2>1, <2>3
      <3>3. c \in M!Chunks
        <4>1. audio \in SUBSET M!Frames
          BY <1>3, <2>1, StreamFacts DEF StreamInv, M!TypeOK, M!Frames, M!Media
        <4> QED BY <4>1 DEF StreamInv, M!TypeOK, M!Chunks
      <3>4. c # None
        BY <3>3, StreamFacts
      <3> HIDE DEF c, q
      <3>5. ASSUME InTurn(s) PROVE InTurn(s)'
        <4>1. Chained(q) /\ (q # <<>> => ComesAfter(q[Len(q)], c.number))
          BY <2>1, <3>1, <3>5 DEF InTurn, q
        <4>2. LET r == Append(q, c) IN
              /\ r # <<>> /\ Chained(r)
              /\ r[1] = IF q = <<>> THEN c ELSE q[1]
              /\ r[Len(r)] = c
          BY <2>1, <3>3, <4>1, ChainGrows
        <4> QED BY <2>1, <3>1, <3>2, <3>4, <3>5, <4>2 DEF InTurn, Expected, ComesAfter, q
      <3> QED BY <2>1, <3>5, OthersAreInTurn DEF StreamInv
    <2>4. CASE mBuffers' = [mBuffers EXCEPT ![s] = {}] /\ UNCHANGED <<mQueue, mNumbered>>
      <3>1. InTurn(s) => InTurn(s)'
        BY <2>1, <2>4 DEF InTurn, Expected
      <3> QED BY <2>1, <3>1, OthersAreInTurn DEF StreamInv
    <2> QED BY <1>3, <2>2, <2>3, <2>4 DEF M!Media
  <1>4. ASSUME NEW s \in Sockets, M!Stop(s) PROVE (mGap \/ \A r \in Sockets : InTurn(r))'
    <2>1. /\ Live(s)' /\ UNCHANGED <<mBusy, mProgress, mGap, mNumbered>>
          /\ mBuffers'[s] = None
      BY <1>4 DEF M!Stop, M!FlushTo, M!chunks, Live, StreamInv, M!TypeOK
    <2>2. PICK sent \in BOOLEAN : mQueue'[s] = M!Flushed(s, TRUE, sent)
      BY <1>4 DEF M!Stop, M!FlushTo, StreamInv, M!TypeOK
    <2>3. mGap \/ InTurn(s)'
      <3>1. InTurn(s) =>
              LET q == M!Flushed(s, TRUE, sent) IN
              Chained(q) /\ (q # <<>> /\ q[1] # None => Expected(s, q[1].number))
        BY FlushedInTurn
      <3> QED BY <2>1, <2>2, <3>1 DEF StreamInv, InTurn, Expected
    <2> QED BY <2>1, <2>3, OthersAreInTurn
  <1>5. ASSUME NEW s \in Sockets, M!Disconnect(s) PROVE (mGap \/ \A r \in Sockets : InTurn(r))'
    <2>1. /\ Live(s)' /\ UNCHANGED <<mBusy, mProgress, mGap, mNumbered>>
          /\ mBuffers'[s] = None
      BY <1>5 DEF M!Disconnect, M!FlushTo, M!chunks, Live, StreamInv, M!TypeOK
    <2>2. PICK sent \in BOOLEAN : mQueue'[s] = M!Flushed(s, TRUE, sent)
      BY <1>5 DEF M!Disconnect, M!FlushTo, StreamInv, M!TypeOK
    <2>3. mGap \/ InTurn(s)'
      <3>1. InTurn(s) =>
              LET q == M!Flushed(s, TRUE, sent) IN
              Chained(q) /\ (q # <<>> /\ q[1] # None => Expected(s, q[1].number))
        BY FlushedInTurn
      <3> QED BY <2>1, <2>2, <3>1 DEF StreamInv, InTurn, Expected
    <2> QED BY <2>1, <2>3, OthersAreInTurn
  <1>6. ASSUME NEW s \in Sockets, M!EndedElsewhere(s) PROVE (mGap \/ \A r \in Sockets : InTurn(r))'
    <2>1. /\ Live(s)' /\ UNCHANGED <<mBusy, mProgress, mGap, mNumbered>>
          /\ mBuffers'[s] = None
      BY <1>6 DEF M!EndedElsewhere, M!FlushTo, M!chunks, Live, StreamInv, M!TypeOK
    <2>2. PICK sent \in BOOLEAN : mQueue'[s] = M!Flushed(s, TRUE, sent)
      BY <1>6 DEF M!EndedElsewhere, M!FlushTo, StreamInv, M!TypeOK
    <2>3. mGap \/ InTurn(s)'
      <3>1. InTurn(s) =>
              LET q == M!Flushed(s, TRUE, sent) IN
              Chained(q) /\ (q # <<>> /\ q[1] # None => Expected(s, q[1].number))
        BY FlushedInTurn
      <3> QED BY <2>1, <2>2, <3>1 DEF StreamInv, InTurn, Expected
    <2> QED BY <2>1, <2>3, OthersAreInTurn
  <1>7. ASSUME NEW s \in Sockets, M!StillOn(s) PROVE (mGap \/ \A r \in Sockets : InTurn(r))'
    BY <1>7, StreamFacts
    DEF M!StillOn, M!Goes, StreamInv, M!TypeOK, InTurn, Expected,
        M!speech, M!socket, M!chunks, M!bounds
  <1>8. ASSUME NEW s \in Sockets, M!Drained(s) PROVE (mGap \/ \A r \in Sockets : InTurn(r))'
    BY <1>8, StreamFacts
    DEF M!Drained, M!Goes, M!WorkerIsIdle, StreamInv, M!TypeOK, InTurn, Expected,
        M!speech, M!socket, M!chunks, M!bounds
  <1>9. ASSUME NEW s \in Sockets, M!Closed(s) PROVE (mGap \/ \A r \in Sockets : InTurn(r))'
    BY <1>9, StreamFacts
    DEF M!Closed, M!Goes, M!WorkerIsIdle, StreamInv, M!TypeOK, InTurn, Expected,
        M!speech, M!socket, M!chunks, M!bounds
  <1>10. ASSUME NEW s \in Sockets, M!Restart(s) PROVE (mGap \/ \A r \in Sockets : InTurn(r))'
    <2> DEFINE q == mQueue[s]  r == Tail(q)
    <2>1. /\ q \in Seq(M!Chunks \cup {None}) /\ q # <<>> /\ mQueue'[s] = r
          /\ UNCHANGED <<mBuffers, mNumbered, mPhase, mGap>> /\ mBusy[s] = None
      BY <1>10 DEF M!Restart, M!TakesChunk, M!Takes, StreamInv, M!TypeOK
    <2>2. Live(s)'
      BY <2>1 DEF StreamInv, QuietAtRest, Live
    <2>3. ASSUME InTurn(s) PROVE InTurn(s)'
      <3>1. Chained(q)
        BY <2>3 DEF InTurn
      <3>2. /\ Chained(r) /\ Head(q) = q[1] /\ q[1] \in M!Chunks \cup {None}
            /\ r # <<>> /\ r[1] # None => ComesAfter(q[1], r[1].number)
            /\ q[Len(q)] = IF r = <<>> THEN q[1] ELSE r[Len(r)]
        BY <2>1, <3>1, ChainShrinks
      <3>3. /\ q[1] = None /\ UNCHANGED mBusy
            /\ mProgress'[StreamOn[s]] = M!Restarted(mProgress[StreamOn[s]])
        BY <1>10, <3>2, StreamFacts DEF M!Restart, StreamInv, M!TypeOK
      <3>4. ASSUME NEW n, ComesAfter(None, n) PROVE Expected(s, n)'
        <4>1. n = 0 /\ mBusy'[s] = None
          BY <3>4, <3>3, <2>1 DEF ComesAfter
        <4>2. CASE mProgress[StreamOn[s]] = None
          BY <4>1, <4>2, <3>3 DEF Expected, M!Restarted
        <4>3. CASE mProgress[StreamOn[s]] # None
          <5>1. mProgress[StreamOn[s]] \in M!Counts
            BY <4>3, StreamFacts DEF StreamInv, M!TypeOK
          <5> QED BY <4>1, <4>3, <3>3, <5>1 DEF Expected, M!Restarted, M!Counts
        <4> QED BY <4>2, <4>3
      <3> HIDE DEF q, r
      <3>5. \A n : r # <<>> /\ r[1] # None /\ n = r[1].number => Expected(s, n)'
        BY <2>1, <3>2, <3>3, <3>4
      <3>6. \A n : mBuffers[s] # None /\ n = mNumbered[s] =>
               IF r = <<>> THEN Expected(s, n)' ELSE ComesAfter(r[Len(r)], n)
        BY <2>1, <2>3, <3>2, <3>3, <3>4 DEF InTurn, q
      <3> QED BY <2>1, <3>2, <3>5, <3>6 DEF InTurn
    <2> QED BY <2>1, <2>2, <2>3, OthersAreInTurn DEF StreamInv
  <1>11. ASSUME NEW s \in Sockets, M!LeaveOut(s) PROVE (mGap \/ \A r \in Sockets : InTurn(r))'
    BY <1>11, StreamFacts
    DEF M!LeaveOut, M!TakesChunk, M!Takes, StreamInv, M!TypeOK, InTurn, Expected,
        M!speech, M!socket, M!chunks, M!bounds
  <1>12. ASSUME NEW s \in Sockets, M!Refuse(s) PROVE (mGap \/ \A r \in Sockets : InTurn(r))'
    BY <1>12, StreamFacts
    DEF M!Refuse, M!TakesChunk, M!Takes, M!InOrder, StreamInv, M!TypeOK, InTurn, Expected,
        M!speech, M!socket, M!chunks, M!bounds, ComesAfter
  <1>13. ASSUME NEW s \in Sockets, M!Transcribe(s) PROVE (mGap \/ \A r \in Sockets : InTurn(r))'
    <2> DEFINE q == mQueue[s]  r == Tail(q)
    <2>1. /\ q \in Seq(M!Chunks \cup {None}) /\ q # <<>> /\ mQueue'[s] = r
          /\ UNCHANGED <<mBuffers, mNumbered, mPhase, mGap>> /\ mBusy[s] = None
      BY <1>13 DEF M!Transcribe, M!TakesChunk, M!Takes, StreamInv, M!TypeOK
    <2>2. Live(s)'
      BY <2>1 DEF StreamInv, QuietAtRest, Live
    <2>3. ASSUME InTurn(s) PROVE InTurn(s)'
      <3>1. Chained(q)
        BY <2>3 DEF InTurn
      <3>2. /\ Chained(r) /\ Head(q) = q[1] /\ q[1] \in M!Chunks \cup {None}
            /\ r # <<>> /\ r[1] # None => ComesAfter(q[1], r[1].number)
            /\ q[Len(q)] = IF r = <<>> THEN q[1] ELSE r[Len(r)]
        BY <2>1, <3>1, ChainShrinks
      <3>3. q[1] # None /\ mBusy'[s] = q[1]
        BY <1>13, <3>2 DEF M!Transcribe, M!TakesChunk, StreamInv, M!TypeOK
      <3>4. ASSUME NEW n, ComesAfter(q[1], n) PROVE Expected(s, n)'
        BY <3>3, <3>4 DEF Expected
      <3> HIDE DEF q, r
      <3>5. \A n : r # <<>> /\ r[1] # None /\ n = r[1].number => Expected(s, n)'
        BY <2>1, <3>2, <3>3, <3>4
      <3>6. \A n : mBuffers[s] # None /\ n = mNumbered[s] =>
               IF r = <<>> THEN Expected(s, n)' ELSE ComesAfter(r[Len(r)], n)
        BY <2>1, <2>3, <3>2, <3>3, <3>4 DEF InTurn, q
      <3> QED BY <2>1, <3>2, <3>5, <3>6 DEF InTurn
    <2> QED BY <2>1, <2>2, <2>3, OthersAreInTurn DEF StreamInv
  <1>14. ASSUME NEW s \in Sockets, M!Transcribed(s) PROVE (mGap \/ \A r \in Sockets : InTurn(r))'
    <2> DEFINE c == mBusy[s]  p == mProgress[StreamOn[s]]
    <2>1. /\ c # None /\ UNCHANGED <<mPhase, mQueue, mBuffers, mNumbered, mGap>>
          /\ mBusy'[s] = None /\ mProgress'[StreamOn[s]] = M!Consumed(p, c)
      BY <1>14, StreamFacts DEF M!Transcribed, M!socket, StreamInv, M!TypeOK
    <2>2. Live(s)'
      BY <2>1 DEF StreamInv, QuietAtRest, Live
    <2>3. c \in M!Chunks /\ p \in M!Counts /\ c.number + p.base = p.next
      BY <2>1, StreamFacts DEF StreamInv, M!TypeOK, BusyIsNext
    <2>4. M!Consumed(p, c) # None
      <3>1. M!Consumed(p, c) \in [next: Nat, base: Nat, final: BOOLEAN]
        BY <2>3, StreamFacts, CountedOn
      <3> QED BY <3>1, StreamFacts
    <2>5. ASSUME NEW n \in Nat PROVE Expected(s, n) => Expected(s, n)'
      BY <2>1, <2>3, <2>4 DEF Expected, ComesAfter, M!Consumed, M!Counts, M!Chunks
    <2>6. InTurn(s) => InTurn(s)'
      BY <2>1, <2>5 DEF InTurn, StreamInv, M!TypeOK, M!Chunks
    <2> QED BY <2>1, <2>2, <2>6, OthersAreInTurn DEF StreamInv
  <1>15. ASSUME NEW i \in Instances, M!Crash(i) PROVE (mGap \/ \A r \in Sockets : InTurn(r))'
    BY <1>15, StreamFacts
    DEF M!Crash, StreamInv, M!TypeOK, InTurn, Expected,
        M!speech, M!socket, M!chunks, M!bounds, QuietAtRest, Live, Chained
  <1>16. ASSUME M!Hold PROVE (mGap \/ \A r \in Sockets : InTurn(r))'
    BY <1>16, StreamFacts
    DEF M!Hold, M!Becomes, StreamInv, M!TypeOK, InTurn, Expected,
        M!speech, M!socket, M!chunks, M!bounds
  <1>17. ASSUME M!Resume PROVE (mGap \/ \A r \in Sockets : InTurn(r))'
    BY <1>17, StreamFacts
    DEF M!Resume, M!Becomes, StreamInv, M!TypeOK, InTurn, Expected,
        M!speech, M!socket, M!chunks, M!bounds
  <1>18. ASSUME M!Complete PROVE (mGap \/ \A r \in Sockets : InTurn(r))'
    BY <1>18, StreamFacts
    DEF M!Complete, M!Becomes, StreamInv, M!TypeOK, InTurn, Expected,
        M!speech, M!socket, M!chunks, M!bounds
  <1> QED
    BY <1>1, <1>2, <1>3, <1>4, <1>5, <1>6, <1>7, <1>8, <1>9, <1>10, <1>11, <1>12, <1>13,
       <1>14, <1>15, <1>16, <1>17, <1>18
    DEF M!Next, M!Receive, M!Follow, M!Work

LEMMA RangeGrows ==
  ASSUME NEW S, NEW q \in Seq(S), NEW x \in S
  PROVE  M!Range(Append(q, x)) = M!Range(q) \cup {x}
  <1> DEFINE r == Append(q, x)
  <1>1. Len(r) = Len(q) + 1 /\ r[Len(r)] = x /\ r \in Seq(S)
    OBVIOUS
  <1>2. \A k \in 1..Len(q) : r[k] = q[k] /\ q[k] \in M!Range(q)
    BY DEF M!Range
  <1> HIDE DEF r
  <1>3. DOMAIN r = 1..Len(r) /\ DOMAIN q = 1..Len(q)
    BY <1>1
  <1>4. ASSUME NEW c \in M!Range(r) PROVE c \in M!Range(q) \cup {x}
    <2>1. PICK k \in 1..Len(r) : c = r[k]
      BY <1>3, <1>4 DEF M!Range
    <2> QED BY <1>1, <1>2, <2>1
  <1>5. x \in M!Range(r)
    BY <1>1, <1>3 DEF M!Range
  <1>6. ASSUME NEW c \in M!Range(q) PROVE c \in M!Range(r)
    <2>1. PICK k \in 1..Len(q) : c = q[k]
      BY <1>3, <1>6 DEF M!Range
    <2>2. k \in 1..Len(r) /\ r[k] = c
      BY <1>1, <1>2, <2>1
    <2> QED BY <1>3, <2>2 DEF M!Range
  <1> QED BY <1>4, <1>5, <1>6 DEF r

LEMMA LineGrows ==
  ASSUME NEW S, NEW q \in Seq(S), NEW x \in S, Sorted(q),
         \A c \in M!Range(q) \ {None} : x # None => Before(c.frames, x.frames)
  PROVE  LET r == Append(q, x) IN Sorted(r) /\ M!Range(r) = M!Range(q) \cup {x}
  <1> DEFINE r == Append(q, x)
  <1>1. Len(r) = Len(q) + 1 /\ r[Len(r)] = x /\ r \in Seq(S)
    OBVIOUS
  <1>2. \A k \in 1..Len(q) : r[k] = q[k] /\ q[k] \in M!Range(q)
    BY DEF M!Range
  <1> HIDE DEF r
  <1>3. Sorted(r)
    <2> SUFFICES ASSUME NEW j \in 1..Len(r), NEW k \in 1..Len(r), j < k, r[j] # None, r[k] # None
                 PROVE  Before(r[j].frames, r[k].frames)
      BY DEF Sorted
    <2>1. j \in 1..Len(q) /\ r[j] = q[j] /\ q[j] \in M!Range(q)
      BY <1>1, <1>2
    <2>2. CASE k = Len(r)
      BY <1>1, <2>1, <2>2
    <2>3. CASE k # Len(r)
      <3>1. k \in 1..Len(q) /\ r[k] = q[k]
        BY <1>1, <1>2, <2>3
      <3> QED BY <2>1, <3>1 DEF Sorted
    <2> QED BY <2>2, <2>3
  <1> QED BY <1>3, RangeGrows DEF r

LEMMA LineShrinks ==
  ASSUME NEW S, NEW q \in Seq(S), Sorted(q), q # <<>>
  PROVE  LET r == Tail(q) IN
         /\ Sorted(r) /\ M!Range(q) = M!Range(r) \cup {Head(q)}
         /\ Head(q) # None => \A c \in M!Range(r) \ {None} : Before(Head(q).frames, c.frames)
  <1> DEFINE r == Tail(q)
  <1>1. /\ r \in Seq(S) /\ Len(r) = Len(q) - 1 /\ Head(q) = q[1] /\ Len(q) \in Nat \ {0}
        /\ \A k \in 1..Len(r) : r[k] = q[k + 1]
    OBVIOUS
  <1>2. DOMAIN q = 1..Len(q) /\ DOMAIN r = 1..Len(r)
    BY <1>1
  <1> HIDE DEF r
  <1>3. Sorted(r)
    <2> SUFFICES ASSUME NEW j \in 1..Len(r), NEW k \in 1..Len(r), j < k, r[j] # None, r[k] # None
                 PROVE  Before(r[j].frames, r[k].frames)
      BY DEF Sorted
    <2>1. j + 1 \in 1..Len(q) /\ k + 1 \in 1..Len(q) /\ j + 1 < k + 1
      BY <1>1
    <2> QED BY <1>1, <2>1 DEF Sorted
  <1>4. M!Range(q) = M!Range(r) \cup {Head(q)}
    <2>1. ASSUME NEW c \in M!Range(q) PROVE c \in M!Range(r) \cup {Head(q)}
      <3>1. PICK k \in 1..Len(q) : c = q[k]
        BY <1>2, <2>1 DEF M!Range
      <3>2. CASE k = 1
        BY <1>1, <3>1, <3>2
      <3>3. CASE k # 1
        <4>1. k - 1 \in 1..Len(r) /\ r[k - 1] = c
          BY <1>1, <3>1, <3>3
        <4> QED BY <1>2, <4>1 DEF M!Range
      <3> QED BY <3>2, <3>3
    <2>2. ASSUME NEW c \in M!Range(r) PROVE c \in M!Range(q)
      <3>1. PICK k \in 1..Len(r) : c = r[k]
        BY <1>2, <2>2 DEF M!Range
      <3>2. k + 1 \in 1..Len(q) /\ q[k + 1] = c
        BY <1>1, <3>1
      <3> QED BY <1>2, <3>2 DEF M!Range
    <2>3. Head(q) \in M!Range(q)
      <3>1. 1 \in 1..Len(q)
        BY <1>1
      <3> QED BY <1>1, <1>2, <3>1 DEF M!Range
    <2> QED BY <2>1, <2>2, <2>3
  <1>5. ASSUME Head(q) # None, NEW c \in M!Range(r) \ {None}
        PROVE  Before(Head(q).frames, c.frames)
    <2>1. PICK k \in 1..Len(r) : c = r[k]
      BY <1>2, <1>5 DEF M!Range
    <2>2. k + 1 \in 1..Len(q) /\ q[k + 1] = c /\ 1 \in 1..Len(q) /\ 1 < k + 1
      BY <1>1, <2>1
    <2> QED BY <1>1, <1>5, <2>2 DEF Sorted
  <1> QED BY <1>3, <1>4, <1>5 DEF r

LEMMA FlushedType ==
  ASSUME StreamInv, NEW s \in Sockets, NEW final \in BOOLEAN, NEW sent \in BOOLEAN
  PROVE  M!Flushed(s, final, sent) \in Seq(M!Chunks \cup {None})
  <1> DEFINE c == [frames |-> mBuffers[s], number |-> mNumbered[s], final |-> final]
  <1>1. CASE mBuffers[s] \in {None, {}} \/ ~sent
    BY <1>1 DEF M!Flushed, StreamInv, M!TypeOK
  <1>2. CASE mBuffers[s] \notin {None, {}} /\ sent
    <2>1. c \in M!Chunks
      BY <1>2 DEF StreamInv, M!TypeOK, M!Chunks
    <2> QED BY <1>2, <2>1 DEF M!Flushed, StreamInv, M!TypeOK
  <1> QED BY <1>1, <1>2

(* A chunk that is transcribed counts one, and has a frame behind it.       *)
LEMMA ConsumedInBounds ==
  ASSUME StreamInv, NEW s \in Sockets, mBusy[s] # None
  PROVE  LET p == mProgress[StreamOn[s]]  r == M!Consumed(p, mBusy[s]) IN
         /\ p \in M!Counts /\ mBusy[s] \in M!Chunks
         /\ r \in M!Counts /\ r # None
         /\ r.next = p.next + 1 /\ r.base = p.base /\ r.next <= mHeard
         /\ \A f \in mBusy[s].frames : r.next <= f
  <1> DEFINE p == mProgress[StreamOn[s]]  c == mBusy[s]  r == M!Consumed(p, c)
  <1>1. p \in M!Counts /\ c \in M!Chunks /\ c.number + p.base = p.next
    BY StreamFacts DEF StreamInv, M!TypeOK, BusyIsNext
  <1>2. r.next = p.next + 1 /\ r.base = p.base /\ r.final = c.final
    BY <1>1 DEF M!Consumed, M!Counts, M!Chunks
  <1>3. r \in [next: Nat, base: Nat, final: BOOLEAN]
    BY <1>1, CountedOn
  <1>4. c.frames # {} /\ c.frames \subseteq M!Frames /\ \A f \in c.frames : p.next < f /\ f <= mHeard
    BY <1>1, StreamFacts DEF StreamInv, BusyIsNext, FramesInLine, StillNew, Past, M!Chunks
  <1>5. p.next \in Nat /\ mHeard \in 0..StreamFrames /\ StreamFrames \in Nat
    BY <1>1, StreamFacts DEF M!Counts, StreamInv, M!TypeOK
  <1>6. \A f \in c.frames : p.next + 1 <= f
    BY <1>4, <1>5 DEF M!Frames
  <1>7. p.next + 1 <= mHeard
    BY <1>4, <1>5, <1>6 DEF M!Frames
  <1>8. r \in M!Counts
    BY <1>1, <1>2, <1>3, <1>5, <1>7 DEF M!Counts
  <1>9. r # None
    BY <1>3, StreamFacts
  <1> HIDE DEF r, p, c
  <1> QED BY <1>1, <1>2, <1>6, <1>7, <1>8, <1>9 DEF r, p, c

LEMMA StreamTypeStays ==
  ASSUME ~Overlapping, StreamInv, M!Next
  PROVE  M!TypeOK'
  <1>1. ASSUME NEW s \in Sockets, M!Connect(s) PROVE M!TypeOK'
    BY <1>1, StreamFacts
    DEF M!Connect, StreamInv, M!TypeOK,
        M!speech, M!socket, M!chunks, M!bounds
  <1>2. ASSUME NEW s \in Sockets, M!Start(s) PROVE M!TypeOK'
    <2>1. UNCHANGED <<mCall, mLanded, mHeard, mBusy, mProgress, mRefused, mGap, mHolds, mMishaps>>
      BY <1>2 DEF M!Start, M!speech, M!chunks
    <2>0. PICK sent \in BOOLEAN :
            /\ mQueue' = [mQueue EXCEPT ![s] = Append(M!Flushed(s, FALSE, sent), None)]
            /\ mUnsent' = M!Unsent(s, sent)
      BY <1>2 DEF M!Start
    <2>2. Append(M!Flushed(s, FALSE, sent), None) \in Seq(M!Chunks \cup {None})
      <3>1. M!Flushed(s, FALSE, sent) \in Seq(M!Chunks \cup {None})
        BY FlushedType
      <3>2. ASSUME NEW q \in Seq(M!Chunks \cup {None})
            PROVE  Append(q, None) \in Seq(M!Chunks \cup {None})
        OBVIOUS
      <3> QED BY <3>1, <3>2
    <2>3. /\ mQueue' \in [Sockets -> Seq(M!Chunks \cup {None})]
          /\ mUnsent' \subseteq M!Frames
      BY <2>0, <2>2 DEF StreamInv, M!TypeOK, M!Unsent
    <2>4. /\ mBuffers' \in [Sockets -> (SUBSET M!Frames) \cup {None}]
          /\ mNumbered' \in [Sockets -> 0..StreamFrames] /\ mStarts' \in 0..StreamStarts
      BY <1>2, StreamFacts DEF M!Start, StreamInv, M!TypeOK
    <2>5. mPhase' \in [Sockets -> {"away", "receiving", "checking", "stopping", "closing", "gone"}]
      BY <1>2 DEF M!Start, StreamInv, M!TypeOK
    <2> QED BY <2>1, <2>3, <2>4, <2>5 DEF StreamInv, M!TypeOK
  <1>3. ASSUME NEW s \in Sockets, M!Media(s) PROVE M!TypeOK'
    <2> DEFINE audio == mBuffers[s] \cup {mHeard + 1}
               c == [frames |-> audio, number |-> mNumbered[s], final |-> FALSE]
    <2>1. UNCHANGED <<mCall, mLanded, mBusy, mProgress, mRefused, mGap, mStarts, mHolds, mMishaps>>
      BY <1>3 DEF M!Media, M!speech, M!chunks, M!bounds
    <2>2. mHeard' \in 0..StreamFrames /\ audio \in SUBSET M!Frames
      BY <1>3, StreamFacts DEF M!Media, StreamInv, M!TypeOK, M!Frames
    <2>3. mPhase' \in [Sockets -> {"away", "receiving", "checking", "stopping", "closing", "gone"}]
      BY <1>3 DEF M!Media, StreamInv, M!TypeOK
    <2>4. c \in M!Chunks /\ Append(mQueue[s], c) \in Seq(M!Chunks \cup {None})
      BY <2>2 DEF StreamInv, M!TypeOK, M!Chunks
    <2>5. mNumbered[s] + 1 \in 0..StreamFrames
      BY <1>3, StreamFacts DEF M!Media, StreamInv, M!TypeOK, NumbersInBounds
    <2> HIDE DEF audio, c
    <2>6. CASE /\ mBuffers' = [mBuffers EXCEPT ![s] = audio]
               /\ UNCHANGED <<mQueue, mNumbered, mUnsent>>
      BY <2>1, <2>2, <2>3, <2>6 DEF StreamInv, M!TypeOK
    <2>7. CASE /\ mUnsent' = mUnsent \cup audio /\ mBuffers' = [mBuffers EXCEPT ![s] = {}]
               /\ UNCHANGED <<mQueue, mNumbered>>
      <3>1. mUnsent' \subseteq M!Frames
        BY <2>2, <2>7 DEF StreamInv, M!TypeOK
      <3>2. mBuffers' \in [Sockets -> (SUBSET M!Frames) \cup {None}]
        BY <2>7 DEF StreamInv, M!TypeOK
      <3> QED BY <2>1, <2>2, <2>3, <2>7, <3>1, <3>2 DEF StreamInv, M!TypeOK
    <2>8. CASE /\ mQueue' = [mQueue EXCEPT ![s] = Append(mQueue[s], c)]
               /\ mNumbered' = [mNumbered EXCEPT ![s] = mNumbered[s] + 1]
               /\ mBuffers' = [mBuffers EXCEPT ![s] = {}] /\ UNCHANGED mUnsent
      <3>1. mQueue' \in [Sockets -> Seq(M!Chunks \cup {None})]
        BY <2>4, <2>8 DEF StreamInv, M!TypeOK
      <3>2. mNumbered' \in [Sockets -> 0..StreamFrames]
        BY <2>5, <2>8 DEF StreamInv, M!TypeOK
      <3>3. mBuffers' \in [Sockets -> (SUBSET M!Frames) \cup {None}]
        BY <2>8 DEF StreamInv, M!TypeOK
      <3> QED BY <2>1, <2>2, <2>3, <2>8, <3>1, <3>2, <3>3 DEF StreamInv, M!TypeOK
    <2> QED BY <1>3, <2>6, <2>7, <2>8 DEF M!Media, audio, c
  <1>4. ASSUME NEW s \in Sockets, M!Stop(s) PROVE M!TypeOK'
    <2>1. UNCHANGED <<mCall, mLanded, mHeard, mNumbered, mBusy, mProgress, mRefused, mGap, mStarts, mHolds, mMishaps>>
      BY <1>4 DEF M!Stop, M!FlushTo, M!speech, M!chunks, M!bounds
    <2>0. PICK sent \in BOOLEAN :
            mQueue' = [mQueue EXCEPT ![s] = M!Flushed(s, TRUE, sent)] /\ mUnsent' = M!Unsent(s, sent)
      BY <1>4 DEF M!Stop, M!FlushTo
    <2>2. /\ mQueue' \in [Sockets -> Seq(M!Chunks \cup {None})]
          /\ mUnsent' \subseteq M!Frames
      BY <2>0, FlushedType DEF StreamInv, M!TypeOK, M!Unsent
    <2>3. mBuffers' \in [Sockets -> (SUBSET M!Frames) \cup {None}]
      BY <1>4 DEF M!Stop, M!FlushTo, StreamInv, M!TypeOK
    <2>4. mPhase' \in [Sockets -> {"away", "receiving", "checking", "stopping", "closing", "gone"}]
      BY <1>4 DEF M!Stop, M!FlushTo, StreamInv, M!TypeOK
    <2> QED BY <2>1, <2>2, <2>3, <2>4 DEF StreamInv, M!TypeOK
  <1>5. ASSUME NEW s \in Sockets, M!Disconnect(s) PROVE M!TypeOK'
    <2>1. UNCHANGED <<mCall, mLanded, mHeard, mNumbered, mBusy, mProgress, mRefused, mGap, mStarts, mHolds, mMishaps>>
      BY <1>5 DEF M!Disconnect, M!FlushTo, M!speech, M!chunks, M!bounds
    <2>0. PICK sent \in BOOLEAN :
            mQueue' = [mQueue EXCEPT ![s] = M!Flushed(s, TRUE, sent)] /\ mUnsent' = M!Unsent(s, sent)
      BY <1>5 DEF M!Disconnect, M!FlushTo
    <2>2. /\ mQueue' \in [Sockets -> Seq(M!Chunks \cup {None})]
          /\ mUnsent' \subseteq M!Frames
      BY <2>0, FlushedType DEF StreamInv, M!TypeOK, M!Unsent
    <2>3. mBuffers' \in [Sockets -> (SUBSET M!Frames) \cup {None}]
      BY <1>5 DEF M!Disconnect, M!FlushTo, StreamInv, M!TypeOK
    <2>4. mPhase' \in [Sockets -> {"away", "receiving", "checking", "stopping", "closing", "gone"}]
      BY <1>5 DEF M!Disconnect, M!FlushTo, StreamInv, M!TypeOK
    <2> QED BY <2>1, <2>2, <2>3, <2>4 DEF StreamInv, M!TypeOK
  <1>6. ASSUME NEW s \in Sockets, M!EndedElsewhere(s) PROVE M!TypeOK'
    <2>1. UNCHANGED <<mCall, mLanded, mHeard, mNumbered, mBusy, mProgress, mRefused, mGap, mStarts, mHolds, mMishaps>>
      BY <1>6 DEF M!EndedElsewhere, M!FlushTo, M!speech, M!chunks, M!bounds
    <2>0. PICK sent \in BOOLEAN :
            mQueue' = [mQueue EXCEPT ![s] = M!Flushed(s, TRUE, sent)] /\ mUnsent' = M!Unsent(s, sent)
      BY <1>6 DEF M!EndedElsewhere, M!FlushTo
    <2>2. /\ mQueue' \in [Sockets -> Seq(M!Chunks \cup {None})]
          /\ mUnsent' \subseteq M!Frames
      BY <2>0, FlushedType DEF StreamInv, M!TypeOK, M!Unsent
    <2>3. mBuffers' \in [Sockets -> (SUBSET M!Frames) \cup {None}]
      BY <1>6 DEF M!EndedElsewhere, M!FlushTo, StreamInv, M!TypeOK
    <2>4. mPhase' \in [Sockets -> {"away", "receiving", "checking", "stopping", "closing", "gone"}]
      BY <1>6 DEF M!EndedElsewhere, M!FlushTo, StreamInv, M!TypeOK
    <2> QED BY <2>1, <2>2, <2>3, <2>4 DEF StreamInv, M!TypeOK
  <1>7. ASSUME NEW s \in Sockets, M!StillOn(s) PROVE M!TypeOK'
    BY <1>7, StreamFacts
    DEF M!StillOn, M!Goes, StreamInv, M!TypeOK,
        M!speech, M!socket, M!chunks, M!bounds
  <1>8. ASSUME NEW s \in Sockets, M!Drained(s) PROVE M!TypeOK'
    BY <1>8, StreamFacts
    DEF M!Drained, M!Goes, M!WorkerIsIdle, StreamInv, M!TypeOK,
        M!speech, M!socket, M!chunks, M!bounds
  <1>9. ASSUME NEW s \in Sockets, M!Closed(s) PROVE M!TypeOK'
    BY <1>9, StreamFacts
    DEF M!Closed, M!Goes, M!WorkerIsIdle, StreamInv, M!TypeOK,
        M!speech, M!socket, M!chunks, M!bounds
  <1>10. ASSUME NEW s \in Sockets, M!Restart(s) PROVE M!TypeOK'
    <2>1. Tail(mQueue[s]) \in Seq(M!Chunks \cup {None}) /\ Head(mQueue[s]) \in M!Chunks \cup {None}
      BY <1>10 DEF M!Restart, M!TakesChunk, M!Takes, StreamInv, M!TypeOK
    <2>2. mQueue' \in [Sockets -> Seq(M!Chunks \cup {None})]
      BY <1>10, <2>1 DEF M!Restart, M!TakesChunk, M!Takes, StreamInv, M!TypeOK
    <2>3. UNCHANGED <<mCall, mLanded, mHeard, mUnsent, mPhase, mBuffers, mNumbered, mStarts, mHolds>>
      BY <1>10 DEF M!Restart, M!TakesChunk, M!Takes, M!speech
    <2>4. UNCHANGED <<mBusy, mRefused, mGap, mMishaps>>
      BY <1>10 DEF M!Restart
    <2>5. M!Restarted(mProgress[StreamOn[s]]) \in M!Counts \cup {None}
      BY StreamFacts DEF StreamInv, M!TypeOK, M!Restarted, M!Counts
    <2>6. mProgress' \in [Instances -> M!Counts \cup {None}]
      BY <1>10, <2>5 DEF M!Restart, StreamInv, M!TypeOK
    <2> QED BY <2>2, <2>3, <2>4, <2>6 DEF StreamInv, M!TypeOK
  <1>11. ASSUME NEW s \in Sockets, M!LeaveOut(s) PROVE M!TypeOK'
    <2>1. Tail(mQueue[s]) \in Seq(M!Chunks \cup {None}) /\ Head(mQueue[s]) \in M!Chunks \cup {None}
      BY <1>11 DEF M!LeaveOut, M!TakesChunk, M!Takes, StreamInv, M!TypeOK
    <2>2. mQueue' \in [Sockets -> Seq(M!Chunks \cup {None})]
      BY <1>11, <2>1 DEF M!LeaveOut, M!TakesChunk, M!Takes, StreamInv, M!TypeOK
    <2>3. UNCHANGED <<mCall, mLanded, mHeard, mUnsent, mPhase, mBuffers, mNumbered, mStarts, mHolds>>
      BY <1>11 DEF M!LeaveOut, M!TakesChunk, M!Takes, M!speech
    <2>4. mMishaps' \in 0..MaxMishaps /\ mGap' = TRUE /\ UNCHANGED <<mBusy, mProgress, mRefused>>
      BY <1>11, StreamFacts DEF M!LeaveOut, StreamInv, M!TypeOK
    <2> QED BY <2>2, <2>3, <2>4 DEF StreamInv, M!TypeOK
  <1>12. ASSUME NEW s \in Sockets, M!Refuse(s) PROVE M!TypeOK'
    <2>1. Tail(mQueue[s]) \in Seq(M!Chunks \cup {None}) /\ Head(mQueue[s]) \in M!Chunks \cup {None}
      BY <1>12 DEF M!Refuse, M!TakesChunk, M!Takes, StreamInv, M!TypeOK
    <2>2. mQueue' \in [Sockets -> Seq(M!Chunks \cup {None})]
      BY <1>12, <2>1 DEF M!Refuse, M!TakesChunk, M!Takes, StreamInv, M!TypeOK
    <2>3. UNCHANGED <<mCall, mLanded, mHeard, mUnsent, mPhase, mBuffers, mNumbered, mStarts, mHolds>>
      BY <1>12 DEF M!Refuse, M!TakesChunk, M!Takes, M!speech
    <2>4. mRefused' \subseteq M!Frames /\ UNCHANGED <<mBusy, mProgress, mGap, mMishaps>>
      BY <1>12, <2>1 DEF M!Refuse, M!TakesChunk, StreamInv, M!TypeOK, M!Chunks
    <2> QED BY <2>2, <2>3, <2>4 DEF StreamInv, M!TypeOK
  <1>13. ASSUME NEW s \in Sockets, M!Transcribe(s) PROVE M!TypeOK'
    <2>1. Tail(mQueue[s]) \in Seq(M!Chunks \cup {None}) /\ Head(mQueue[s]) \in M!Chunks \cup {None}
      BY <1>13 DEF M!Transcribe, M!TakesChunk, M!Takes, StreamInv, M!TypeOK
    <2>2. mQueue' \in [Sockets -> Seq(M!Chunks \cup {None})]
      BY <1>13, <2>1 DEF M!Transcribe, M!TakesChunk, M!Takes, StreamInv, M!TypeOK
    <2>3. UNCHANGED <<mCall, mLanded, mHeard, mUnsent, mPhase, mBuffers, mNumbered, mStarts, mHolds>>
      BY <1>13 DEF M!Transcribe, M!TakesChunk, M!Takes, M!speech
    <2>4. UNCHANGED <<mRefused, mGap, mMishaps>> /\ mBusy' \in [Sockets -> M!Chunks \cup {None}]
      BY <1>13, <2>1 DEF M!Transcribe, StreamInv, M!TypeOK
    <2>5. M!Fresh \in M!Counts
      BY StreamFacts DEF M!Fresh, M!Counts
    <2>6. mProgress' \in [Instances -> M!Counts \cup {None}]
      BY <1>13, <2>5, StreamFacts DEF M!Transcribe, StreamInv, M!TypeOK
    <2> QED BY <2>2, <2>3, <2>4, <2>6 DEF StreamInv, M!TypeOK
  <1>14. ASSUME NEW s \in Sockets, M!Transcribed(s) PROVE M!TypeOK'
    <2>1. mBusy[s] \in M!Chunks /\ mProgress[StreamOn[s]] \in M!Counts
      BY <1>14, StreamFacts DEF M!Transcribed, StreamInv, M!TypeOK, BusyIsNext
    <2>2. M!Consumed(mProgress[StreamOn[s]], mBusy[s]) \in M!Counts
      BY <1>14, <2>1, ConsumedInBounds DEF M!Transcribed
    <2>3. mProgress' \in [Instances -> M!Counts \cup {None}]
      BY <1>14, <2>2, StreamFacts DEF M!Transcribed, StreamInv, M!TypeOK
    <2>4. mLanded' \subseteq M!Frames /\ mBusy' \in [Sockets -> M!Chunks \cup {None}]
      BY <1>14, <2>1 DEF M!Transcribed, StreamInv, M!TypeOK, M!Chunks
    <2>5. UNCHANGED <<mCall, mHeard, mUnsent, mPhase, mBuffers, mNumbered, mQueue, mRefused, mGap, mStarts, mHolds, mMishaps>>
      BY <1>14 DEF M!Transcribed, M!socket, M!bounds
    <2> QED BY <2>3, <2>4, <2>5 DEF StreamInv, M!TypeOK
  <1>15. ASSUME NEW i \in Instances, M!Crash(i) PROVE M!TypeOK'
    BY <1>15, StreamFacts
    DEF M!Crash, StreamInv, M!TypeOK,
        M!speech, M!socket, M!chunks, M!bounds
  <1>16. ASSUME M!Hold PROVE M!TypeOK'
    BY <1>16, StreamFacts
    DEF M!Hold, M!Becomes, StreamInv, M!TypeOK,
        M!speech, M!socket, M!chunks, M!bounds
  <1>17. ASSUME M!Resume PROVE M!TypeOK'
    BY <1>17, StreamFacts
    DEF M!Resume, M!Becomes, StreamInv, M!TypeOK,
        M!speech, M!socket, M!chunks, M!bounds
  <1>18. ASSUME M!Complete PROVE M!TypeOK'
    BY <1>18, StreamFacts
    DEF M!Complete, M!Becomes, StreamInv, M!TypeOK,
        M!speech, M!socket, M!chunks, M!bounds
  <1> QED
    BY <1>1, <1>2, <1>3, <1>4, <1>5, <1>6, <1>7, <1>8, <1>9, <1>10, <1>11, <1>12, <1>13,
       <1>14, <1>15, <1>16, <1>17, <1>18
    DEF M!Next, M!Receive, M!Follow, M!Work

LEMMA NumbersStayInBounds ==
  ASSUME ~Overlapping, StreamInv, M!Next
  PROVE  NumbersInBounds'
  <1>1. ASSUME NEW s \in Sockets, M!Connect(s) PROVE NumbersInBounds'
    BY <1>1, StreamFacts
    DEF M!Connect, StreamInv, M!TypeOK, NumbersInBounds, M!Counts,
        M!speech, M!socket, M!chunks, M!bounds
  <1>2. ASSUME NEW s \in Sockets, M!Start(s) PROVE NumbersInBounds'
    BY <1>2, StreamFacts
    DEF M!Start, M!Flushed, StreamInv, M!TypeOK, NumbersInBounds, M!Counts,
        M!speech, M!socket, M!chunks, M!bounds
  <1>3. ASSUME NEW s \in Sockets, M!Media(s) PROVE NumbersInBounds'
    <2>1. mHeard' = mHeard + 1 /\ UNCHANGED mProgress
      BY <1>3 DEF M!Media, M!chunks
    <2>2. \A r \in Sockets : mNumbered'[r] \in {mNumbered[r], mNumbered[r] + 1}
      BY <1>3 DEF M!Media, StreamInv, M!TypeOK
    <2>3. \A r \in Sockets : mNumbered[r] \in Nat /\ mHeard \in Nat
      BY StreamFacts DEF StreamInv, M!TypeOK
    <2>4. \A i \in Instances : mProgress[i] # None => mProgress[i] \in M!Counts
      BY DEF StreamInv, M!TypeOK
    <2>5. ASSUME NEW r \in Sockets PROVE mNumbered'[r] <= mHeard'
      BY <2>1, <2>2, <2>3 DEF StreamInv, NumbersInBounds
    <2>6. mHeard \in Nat
      BY StreamFacts DEF StreamInv, M!TypeOK
    <2>7. ASSUME NEW i \in Instances, mProgress[i] # None
          PROVE  mProgress[i].base <= mProgress[i].next /\ mProgress[i].next <= mHeard'
      BY <2>1, <2>4, <2>6, <2>7, StreamFacts DEF StreamInv, NumbersInBounds, M!Counts
    <2> QED BY <2>1, <2>5, <2>7 DEF NumbersInBounds
  <1>4. ASSUME NEW s \in Sockets, M!Stop(s) PROVE NumbersInBounds'
    BY <1>4, StreamFacts
    DEF M!Stop, M!FlushTo, M!Flushed, StreamInv, M!TypeOK, NumbersInBounds, M!Counts,
        M!speech, M!socket, M!chunks, M!bounds
  <1>5. ASSUME NEW s \in Sockets, M!Disconnect(s) PROVE NumbersInBounds'
    BY <1>5, StreamFacts
    DEF M!Disconnect, M!FlushTo, M!Flushed, StreamInv, M!TypeOK, NumbersInBounds, M!Counts,
        M!speech, M!socket, M!chunks, M!bounds
  <1>6. ASSUME NEW s \in Sockets, M!EndedElsewhere(s) PROVE NumbersInBounds'
    BY <1>6, StreamFacts
    DEF M!EndedElsewhere, M!FlushTo, M!Flushed, StreamInv, M!TypeOK, NumbersInBounds, M!Counts,
        M!speech, M!socket, M!chunks, M!bounds
  <1>7. ASSUME NEW s \in Sockets, M!StillOn(s) PROVE NumbersInBounds'
    BY <1>7, StreamFacts
    DEF M!StillOn, M!Goes, StreamInv, M!TypeOK, NumbersInBounds, M!Counts,
        M!speech, M!socket, M!chunks, M!bounds
  <1>8. ASSUME NEW s \in Sockets, M!Drained(s) PROVE NumbersInBounds'
    BY <1>8, StreamFacts
    DEF M!Drained, M!Goes, M!WorkerIsIdle, StreamInv, M!TypeOK, NumbersInBounds, M!Counts,
        M!speech, M!socket, M!chunks, M!bounds
  <1>9. ASSUME NEW s \in Sockets, M!Closed(s) PROVE NumbersInBounds'
    BY <1>9, StreamFacts
    DEF M!Closed, M!Goes, M!WorkerIsIdle, StreamInv, M!TypeOK, NumbersInBounds, M!Counts,
        M!speech, M!socket, M!chunks, M!bounds
  <1>10. ASSUME NEW s \in Sockets, M!Restart(s) PROVE NumbersInBounds'
    BY <1>10, StreamFacts
    DEF M!Restart, M!Takes, M!Restarted, StreamInv, M!TypeOK, NumbersInBounds, M!Counts,
        M!speech, M!socket, M!chunks, M!bounds
  <1>11. ASSUME NEW s \in Sockets, M!LeaveOut(s) PROVE NumbersInBounds'
    BY <1>11, StreamFacts
    DEF M!LeaveOut, M!TakesChunk, M!Takes, StreamInv, M!TypeOK, NumbersInBounds, M!Counts,
        M!speech, M!socket, M!chunks, M!bounds
  <1>12. ASSUME NEW s \in Sockets, M!Refuse(s) PROVE NumbersInBounds'
    BY <1>12, StreamFacts
    DEF M!Refuse, M!TakesChunk, M!Takes, M!InOrder, StreamInv, M!TypeOK, NumbersInBounds, M!Counts,
        M!speech, M!socket, M!chunks, M!bounds
  <1>13. ASSUME NEW s \in Sockets, M!Transcribe(s) PROVE NumbersInBounds'
    BY <1>13, StreamFacts
    DEF M!Transcribe, M!TakesChunk, M!Takes, M!InOrder, M!Fresh, StreamInv, M!TypeOK, NumbersInBounds, M!Counts,
        M!speech, M!socket, M!chunks, M!bounds
  <1>14. ASSUME NEW s \in Sockets, M!Transcribed(s) PROVE NumbersInBounds'
    <2> DEFINE r == M!Consumed(mProgress[StreamOn[s]], mBusy[s])
    <2>1. UNCHANGED <<mNumbered, mHeard>> /\ mBusy[s] # None
      BY <1>14 DEF M!Transcribed, M!socket
    <2>2. mProgress' = [mProgress EXCEPT ![StreamOn[s]] = r]
      BY <1>14 DEF M!Transcribed
    <2>3. /\ r.next = mProgress[StreamOn[s]].next + 1 /\ r.base = mProgress[StreamOn[s]].base
          /\ r.next <= mHeard /\ mProgress[StreamOn[s]] \in M!Counts
      BY <2>1, ConsumedInBounds
    <2> HIDE DEF r
    <2>4. r.base <= r.next
      <3>1. mProgress[StreamOn[s]] # None
        BY <2>1 DEF StreamInv, BusyIsNext
      <3> QED BY <2>3, <3>1, StreamFacts DEF StreamInv, NumbersInBounds, M!Counts
    <2>5. ASSUME NEW i \in Instances, mProgress'[i] # None
          PROVE  mProgress'[i].base <= mProgress'[i].next /\ mProgress'[i].next <= mHeard
      <3>1. CASE i = StreamOn[s]
        BY <2>2, <2>3, <2>4, <3>1 DEF StreamInv, M!TypeOK
      <3>2. CASE i # StreamOn[s]
        BY <2>2, <2>5, <3>2 DEF StreamInv, M!TypeOK, NumbersInBounds
      <3> QED BY <3>1, <3>2
    <2> QED BY <2>1, <2>5 DEF StreamInv, NumbersInBounds
  <1>15. ASSUME NEW i \in Instances, M!Crash(i) PROVE NumbersInBounds'
    BY <1>15, StreamFacts
    DEF M!Crash, StreamInv, M!TypeOK, NumbersInBounds, M!Counts,
        M!speech, M!socket, M!chunks, M!bounds
  <1>16. ASSUME M!Hold PROVE NumbersInBounds'
    BY <1>16, StreamFacts
    DEF M!Hold, M!Becomes, StreamInv, M!TypeOK, NumbersInBounds, M!Counts,
        M!speech, M!socket, M!chunks, M!bounds
  <1>17. ASSUME M!Resume PROVE NumbersInBounds'
    BY <1>17, StreamFacts
    DEF M!Resume, M!Becomes, StreamInv, M!TypeOK, NumbersInBounds, M!Counts,
        M!speech, M!socket, M!chunks, M!bounds
  <1>18. ASSUME M!Complete PROVE NumbersInBounds'
    BY <1>18, StreamFacts
    DEF M!Complete, M!Becomes, StreamInv, M!TypeOK, NumbersInBounds, M!Counts,
        M!speech, M!socket, M!chunks, M!bounds
  <1> QED
    BY <1>1, <1>2, <1>3, <1>4, <1>5, <1>6, <1>7, <1>8, <1>9, <1>10, <1>11, <1>12, <1>13,
       <1>14, <1>15, <1>16, <1>17, <1>18
    DEF M!Next, M!Receive, M!Follow, M!Work

LEMMA BusyStaysNext ==
  ASSUME ~Overlapping, StreamInv, M!Next
  PROVE  BusyIsNext'
  <1>1. ASSUME NEW s \in Sockets, M!Connect(s) PROVE BusyIsNext'
    BY <1>1, StreamFacts
    DEF M!Connect, StreamInv, M!TypeOK, BusyIsNext, OneStream, QuietAtRest, Live,
        M!speech, M!socket, M!chunks, M!bounds
  <1>2. ASSUME NEW s \in Sockets, M!Start(s) PROVE BusyIsNext'
    BY <1>2, StreamFacts
    DEF M!Start, M!Flushed, StreamInv, M!TypeOK, BusyIsNext, OneStream, QuietAtRest, Live,
        M!speech, M!socket, M!chunks, M!bounds
  <1>3. ASSUME NEW s \in Sockets, M!Media(s) PROVE BusyIsNext'
    BY <1>3, StreamFacts
    DEF M!Media, StreamInv, M!TypeOK, BusyIsNext, OneStream, QuietAtRest, Live,
        M!speech, M!socket, M!chunks, M!bounds
  <1>4. ASSUME NEW s \in Sockets, M!Stop(s) PROVE BusyIsNext'
    BY <1>4, StreamFacts
    DEF M!Stop, M!FlushTo, M!Flushed, StreamInv, M!TypeOK, BusyIsNext, OneStream, QuietAtRest, Live,
        M!speech, M!socket, M!chunks, M!bounds
  <1>5. ASSUME NEW s \in Sockets, M!Disconnect(s) PROVE BusyIsNext'
    BY <1>5, StreamFacts
    DEF M!Disconnect, M!FlushTo, M!Flushed, StreamInv, M!TypeOK, BusyIsNext, OneStream, QuietAtRest, Live,
        M!speech, M!socket, M!chunks, M!bounds
  <1>6. ASSUME NEW s \in Sockets, M!EndedElsewhere(s) PROVE BusyIsNext'
    BY <1>6, StreamFacts
    DEF M!EndedElsewhere, M!FlushTo, M!Flushed, StreamInv, M!TypeOK, BusyIsNext, OneStream, QuietAtRest, Live,
        M!speech, M!socket, M!chunks, M!bounds
  <1>7. ASSUME NEW s \in Sockets, M!StillOn(s) PROVE BusyIsNext'
    BY <1>7, StreamFacts
    DEF M!StillOn, M!Goes, StreamInv, M!TypeOK, BusyIsNext, OneStream, QuietAtRest, Live,
        M!speech, M!socket, M!chunks, M!bounds
  <1>8. ASSUME NEW s \in Sockets, M!Drained(s) PROVE BusyIsNext'
    BY <1>8, StreamFacts
    DEF M!Drained, M!Goes, M!WorkerIsIdle, StreamInv, M!TypeOK, BusyIsNext, OneStream, QuietAtRest, Live,
        M!speech, M!socket, M!chunks, M!bounds
  <1>9. ASSUME NEW s \in Sockets, M!Closed(s) PROVE BusyIsNext'
    BY <1>9, StreamFacts
    DEF M!Closed, M!Goes, M!WorkerIsIdle, StreamInv, M!TypeOK, BusyIsNext, OneStream, QuietAtRest, Live,
        M!speech, M!socket, M!chunks, M!bounds
  <1>10. ASSUME NEW s \in Sockets, M!Restart(s) PROVE BusyIsNext'
    BY <1>10, StreamFacts
    DEF M!Restart, M!Takes, M!Restarted, StreamInv, M!TypeOK, BusyIsNext, OneStream, QuietAtRest, Live,
        M!speech, M!socket, M!chunks, M!bounds
  <1>11. ASSUME NEW s \in Sockets, M!LeaveOut(s) PROVE BusyIsNext'
    BY <1>11, StreamFacts
    DEF M!LeaveOut, M!TakesChunk, M!Takes, StreamInv, M!TypeOK, BusyIsNext, OneStream, QuietAtRest, Live,
        M!speech, M!socket, M!chunks, M!bounds
  <1>12. ASSUME NEW s \in Sockets, M!Refuse(s) PROVE BusyIsNext'
    BY <1>12, StreamFacts
    DEF M!Refuse, M!TakesChunk, M!Takes, M!InOrder, StreamInv, M!TypeOK, BusyIsNext, OneStream, QuietAtRest, Live,
        M!speech, M!socket, M!chunks, M!bounds
  <1>13. ASSUME NEW s \in Sockets, M!Transcribe(s) PROVE BusyIsNext'
    <2> DEFINE c == Head(mQueue[s])  p == mProgress[StreamOn[s]]
    <2>1. /\ mBusy[s] = None /\ mQueue[s] # <<>> /\ M!InOrder(p, c) /\ c \in M!Chunks
          /\ mBusy' = [mBusy EXCEPT ![s] = c]
          /\ mProgress' = [mProgress EXCEPT ![StreamOn[s]] = IF p = None THEN M!Fresh ELSE p]
      BY <1>13 DEF M!Transcribe, M!TakesChunk, M!Takes, StreamInv, M!TypeOK
    <2> HIDE DEF c, p
    <2>2. ASSUME NEW r \in Sockets, mBusy'[r] # None PROVE r = s
      BY <2>1, <2>2 DEF StreamInv, M!TypeOK, OneStream, QuietAtRest, Live
    <2>3. mBusy'[s] = c /\ mProgress'[StreamOn[s]] = IF p = None THEN M!Fresh ELSE p
      BY <2>1, StreamFacts DEF StreamInv, M!TypeOK
    <2>4. CASE p = None
      <3>1. c.number = 0 /\ M!Fresh.next = 0 /\ M!Fresh.base = 0
        BY <2>1, <2>4 DEF M!InOrder, M!Fresh
      <3>2. M!Fresh \in [next: Nat, base: Nat, final: BOOLEAN]
        BY DEF M!Fresh
      <3> QED BY <2>2, <2>3, <2>4, <3>1, <3>2, StreamFacts DEF BusyIsNext
    <2>5. CASE p # None
      BY <2>1, <2>2, <2>3, <2>5 DEF BusyIsNext, M!InOrder
    <2> QED BY <2>4, <2>5
  <1>14. ASSUME NEW s \in Sockets, M!Transcribed(s) PROVE BusyIsNext'
    BY <1>14, StreamFacts
    DEF M!Transcribed, M!Consumed, StreamInv, M!TypeOK, BusyIsNext, OneStream, QuietAtRest, Live,
        M!speech, M!socket, M!chunks, M!bounds
  <1>15. ASSUME NEW i \in Instances, M!Crash(i) PROVE BusyIsNext'
    BY <1>15, StreamFacts
    DEF M!Crash, StreamInv, M!TypeOK, BusyIsNext, OneStream, QuietAtRest, Live,
        M!speech, M!socket, M!chunks, M!bounds
  <1>16. ASSUME M!Hold PROVE BusyIsNext'
    BY <1>16, StreamFacts
    DEF M!Hold, M!Becomes, StreamInv, M!TypeOK, BusyIsNext, OneStream, QuietAtRest, Live,
        M!speech, M!socket, M!chunks, M!bounds
  <1>17. ASSUME M!Resume PROVE BusyIsNext'
    BY <1>17, StreamFacts
    DEF M!Resume, M!Becomes, StreamInv, M!TypeOK, BusyIsNext, OneStream, QuietAtRest, Live,
        M!speech, M!socket, M!chunks, M!bounds
  <1>18. ASSUME M!Complete PROVE BusyIsNext'
    BY <1>18, StreamFacts
    DEF M!Complete, M!Becomes, StreamInv, M!TypeOK, BusyIsNext, OneStream, QuietAtRest, Live,
        M!speech, M!socket, M!chunks, M!bounds
  <1> QED
    BY <1>1, <1>2, <1>3, <1>4, <1>5, <1>6, <1>7, <1>8, <1>9, <1>10, <1>11, <1>12, <1>13,
       <1>14, <1>15, <1>16, <1>17, <1>18
    DEF M!Next, M!Receive, M!Follow, M!Work

LEMMA OthersAreInLine ==
  ASSUME ~Overlapping, StreamInv, M!Next, NEW s \in Sockets, Live(s)', FramesInLine(s)'
  PROVE  (\A r \in Sockets : FramesInLine(r))'
  <1>1. ASSUME NEW r \in Sockets, ~Live(r)' PROVE FramesInLine(r)'
    <2>1. mQueue'[r] = <<>> /\ mBusy'[r] = None /\ mBuffers'[r] = None
      BY <1>1, QuietStay DEF QuietAtRest
    <2>2. Sorted(mQueue'[r]) /\ M!Range(mQueue'[r]) = {}
      BY <2>1 DEF Sorted, M!Range
    <2> QED BY <2>1, <2>2 DEF FramesInLine, Queued
  <1> QED BY <1>1, OneStreamStays DEF OneStream

LEMMA FlushedInLine ==
  ASSUME StreamInv, NEW s \in Sockets, NEW final \in BOOLEAN, NEW sent \in BOOLEAN
  PROVE  LET q == M!Flushed(s, final, sent) IN
         /\ Sorted(q)
         /\ \A c \in M!Range(q) \ {None} :
               /\ c.frames # {} /\ StillNew(s, c.frames)
               /\ mBusy[s] # None => Before(mBusy[s].frames, c.frames)
  <1> DEFINE q == mQueue[s]
             x == [frames |-> mBuffers[s], number |-> mNumbered[s], final |-> final]
  <1>1. q \in Seq(M!Chunks \cup {None}) /\ FramesInLine(s)
    BY DEF StreamInv, M!TypeOK
  <1>2. CASE mBuffers[s] \in {None, {}} \/ ~sent
    BY <1>1, <1>2 DEF M!Flushed, FramesInLine, Queued
  <1>3. CASE mBuffers[s] \notin {None, {}} /\ sent
    <2>1. x \in M!Chunks
      BY <1>3 DEF StreamInv, M!TypeOK, M!Chunks
    <2>2. x.frames = mBuffers[s] /\ M!Flushed(s, final, sent) = Append(q, x)
      BY <1>3 DEF M!Flushed
    <2>3. \A c \in M!Range(q) \ {None} : Before(c.frames, x.frames)
      BY <1>1, <1>3, <2>2 DEF FramesInLine, Queued
    <2> HIDE DEF q, x
    <2>4. Sorted(Append(q, x)) /\ M!Range(Append(q, x)) = M!Range(q) \cup {x}
      BY <1>1, <2>1, <2>3, LineGrows DEF FramesInLine, q
    <2> QED BY <1>1, <1>3, <2>2, <2>4 DEF FramesInLine, Queued, q
  <1> QED BY <1>2, <1>3

LEMMA FramesStayInLine ==
  ASSUME ~Overlapping, StreamInv, M!Next
  PROVE  (\A r \in Sockets : FramesInLine(r))'
  <1>1. ASSUME NEW s \in Sockets, M!Connect(s) PROVE (\A r \in Sockets : FramesInLine(r))'
    BY <1>1, StreamFacts
    DEF M!Connect, StreamInv, M!TypeOK, FramesInLine, Queued, StillNew, Past,
        M!speech, M!socket, M!chunks, M!bounds
  <1>2. ASSUME NEW s \in Sockets, M!Start(s) PROVE (\A r \in Sockets : FramesInLine(r))'
    <2>0. PICK sent \in BOOLEAN : mQueue'[s] = Append(M!Flushed(s, FALSE, sent), None)
      BY <1>2 DEF M!Start, StreamInv, M!TypeOK
    <2> DEFINE q == M!Flushed(s, FALSE, sent)
    <2>1. /\ Live(s)' /\ UNCHANGED <<mBusy, mProgress, mHeard>>
          /\ mBuffers'[s] = {} /\ mQueue'[s] = Append(q, None)
      BY <1>2, <2>0 DEF M!Start, M!chunks, Live, StreamInv, M!TypeOK
    <2>2. FramesInLine(s)'
      <3>1. /\ Sorted(q) /\ q \in Seq(M!Chunks \cup {None})
            /\ \A c \in M!Range(q) \ {None} :
                  /\ c.frames # {} /\ StillNew(s, c.frames)
                  /\ mBusy[s] # None => Before(mBusy[s].frames, c.frames)
        BY FlushedInLine, FlushedType
      <3> HIDE DEF q
      <3>2. Sorted(mQueue'[s]) /\ M!Range(mQueue'[s]) = M!Range(q) \cup {None}
        BY <2>1, <3>1, LineGrows
      <3> QED BY <2>1, <3>1, <3>2 DEF StreamInv, FramesInLine, Queued, StillNew, Past,
         Before
    <2> QED BY <2>1, <2>2, OthersAreInLine
  <1>3. ASSUME NEW s \in Sockets, M!Media(s) PROVE (\A r \in Sockets : FramesInLine(r))'
    <2> DEFINE q == mQueue[s]  audio == mBuffers[s] \cup {mHeard + 1}
               c == [frames |-> audio, number |-> mNumbered[s], final |-> FALSE]
    <2>1. /\ Live(s)' /\ UNCHANGED <<mBusy, mProgress>> /\ mHeard' = mHeard + 1
          /\ mBuffers[s] # None /\ q \in Seq(M!Chunks \cup {None}) /\ mHeard \in Nat
          /\ s \in DOMAIN mQueue /\ s \in DOMAIN mBuffers
          /\ mHeard' \in M!Frames /\ mBuffers[s] \subseteq M!Frames
      BY <1>3, StreamFacts DEF M!Media, M!chunks, M!bounds, Live, StreamInv, M!TypeOK,
         M!Frames
    <2>2. FramesInLine(s) /\ Past(s) \in Nat /\ Past(s) <= mHeard /\ Past(s)' = Past(s)
      BY <2>1, StreamFacts DEF StreamInv, M!TypeOK, M!Counts, Past, NumbersInBounds
    <2> DEFINE New(F) == \A f \in F : Past(s) < f /\ f <= mHeard + 1
    <2>3. \A F \in SUBSET M!Frames : StillNew(s, F) => New(F)
      <3> SUFFICES ASSUME NEW F \in SUBSET M!Frames, StillNew(s, F), NEW f \in F
                   PROVE  Past(s) < f /\ f <= mHeard + 1
        OBVIOUS
      <3>1. f \in Int /\ mHeard \in Nat
        BY <2>1, StreamFacts DEF M!Frames
      <3>2. Past(s) < f /\ f <= mHeard
        BY DEF StillNew
      <3> HIDE DEF q, audio, c, New
      <3> QED BY <3>1, <3>2
    <2>4. New(audio) /\ audio # {}
      <3>1. New(mBuffers[s])
        BY <2>1, <2>2, <2>3 DEF FramesInLine
      <3>2. Past(s) < mHeard + 1 /\ mHeard + 1 <= mHeard + 1
        BY <2>1, <2>2
      <3> QED BY <3>1, <3>2
    <2>5. /\ \A x \in Queued(s) : x.frames # {} /\ New(x.frames) /\ Before(x.frames, audio)
          /\ mBusy[s] # None => New(mBusy[s].frames) /\ Before(mBusy[s].frames, audio)
      <3>1. \A x \in Queued(s) : x \in M!Chunks
        BY <2>1 DEF Queued, M!Range
      <3>2. mBusy[s] # None => mBusy[s] \in M!Chunks
        BY DEF StreamInv, M!TypeOK
      <3>3. ASSUME NEW F \in SUBSET M!Frames, StillNew(s, F), Before(F, mBuffers[s])
            PROVE  Before(F, audio)
        <4> SUFFICES ASSUME NEW f \in F, NEW g \in audio PROVE f < g
          BY DEF Before
        <4>1. CASE g \in mBuffers[s]
          BY <3>3, <4>1 DEF Before
        <4>2. CASE g = mHeard + 1
          <5>1. f \in Int /\ mHeard \in Nat
            BY <2>1, StreamFacts DEF M!Frames
          <5>2. f <= mHeard
            BY <3>3 DEF StillNew
          <5> HIDE DEF q, audio, c, New
          <5> QED BY <4>2, <5>1, <5>2
        <4> QED BY <4>1, <4>2
      <3> HIDE DEF audio, New
      <3>4. \A x \in M!Chunks : x.frames \in SUBSET M!Frames
        BY DEF M!Chunks
      <3> QED BY <2>1, <2>2, <2>3, <3>1, <3>2, <3>3, <3>4 DEF FramesInLine
    <2> HIDE DEF audio, New
    <2>6. CASE mBuffers' = [mBuffers EXCEPT ![s] = audio] /\ UNCHANGED <<mQueue, mNumbered>>
      <3>1. mBuffers'[s] = audio /\ mQueue'[s] = q /\ Queued(s)' = Queued(s)
        BY <2>1, <2>6 DEF Queued
      <3>2. FramesInLine(s)'
        BY <2>1, <2>2, <2>4, <2>5, <3>1 DEF FramesInLine, StillNew, New
      <3> QED BY <2>1, <3>2, OthersAreInLine
    <2>7. CASE /\ mQueue' = [mQueue EXCEPT ![s] = Append(q, c)]
               /\ mBuffers' = [mBuffers EXCEPT ![s] = {}]
      <3>1. c \in M!Chunks /\ c.frames = audio
        <4>1. audio \in SUBSET M!Frames
          BY <2>1 DEF audio
        <4> QED BY <4>1 DEF StreamInv, M!TypeOK, M!Chunks
      <3>2. mBuffers'[s] = {} /\ mQueue'[s] = Append(q, c)
        BY <2>1, <2>7
      <3> HIDE DEF c
      <3>3. \A x \in M!Range(q) \ {None} : Before(x.frames, c.frames)
        BY <2>5, <3>1 DEF Queued
      <3>4. Sorted(q)
        BY <2>2 DEF FramesInLine
      <3> HIDE DEF q
      <3>5. Sorted(mQueue'[s]) /\ M!Range(mQueue'[s]) = M!Range(q) \cup {c}
        BY <2>1, <3>1, <3>2, <3>3, <3>4, LineGrows
      <3>6. Queued(s)' = (Queued(s) \cup {c}) \ {None}
        BY <3>5 DEF Queued, q
      <3>7. FramesInLine(s)'
        BY <2>1, <2>2, <2>4, <2>5, <3>1, <3>2, <3>5, <3>6 DEF FramesInLine, StillNew, New,
           Before
      <3> QED BY <2>1, <3>7, OthersAreInLine
    <2>8. CASE mBuffers' = [mBuffers EXCEPT ![s] = {}] /\ UNCHANGED <<mQueue, mNumbered>>
      <3>1. mBuffers'[s] = {} /\ mQueue'[s] = q /\ Queued(s)' = Queued(s)
        BY <2>1, <2>8 DEF Queued
      <3>2. FramesInLine(s)'
        BY <2>1, <2>2, <2>5, <3>1 DEF FramesInLine, StillNew, New, Before
      <3> QED BY <2>1, <3>2, OthersAreInLine
    <2> QED BY <1>3, <2>6, <2>7, <2>8 DEF M!Media, c, audio
  <1>4. ASSUME NEW s \in Sockets, M!Stop(s) PROVE (\A r \in Sockets : FramesInLine(r))'
    <2>1. PICK sent \in BOOLEAN :
            /\ Live(s)' /\ UNCHANGED <<mBusy, mProgress, mHeard>>
            /\ mBuffers'[s] = None /\ mQueue'[s] = M!Flushed(s, TRUE, sent)
      BY <1>4 DEF M!Stop, M!FlushTo, M!chunks, Live, StreamInv, M!TypeOK
    <2>2. FramesInLine(s)'
      <3>1. /\ Sorted(mQueue'[s])
            /\ \A c \in M!Range(mQueue'[s]) \ {None} :
                  /\ c.frames # {} /\ StillNew(s, c.frames)
                  /\ mBusy[s] # None => Before(mBusy[s].frames, c.frames)
        BY <2>1, FlushedInLine
      <3> QED BY <2>1, <3>1 DEF StreamInv, FramesInLine, Queued, StillNew, Past
    <2> QED BY <2>1, <2>2, OthersAreInLine
  <1>5. ASSUME NEW s \in Sockets, M!Disconnect(s) PROVE (\A r \in Sockets : FramesInLine(r))'
    <2>1. PICK sent \in BOOLEAN :
            /\ Live(s)' /\ UNCHANGED <<mBusy, mProgress, mHeard>>
            /\ mBuffers'[s] = None /\ mQueue'[s] = M!Flushed(s, TRUE, sent)
      BY <1>5 DEF M!Disconnect, M!FlushTo, M!chunks, Live, StreamInv, M!TypeOK
    <2>2. FramesInLine(s)'
      <3>1. /\ Sorted(mQueue'[s])
            /\ \A c \in M!Range(mQueue'[s]) \ {None} :
                  /\ c.frames # {} /\ StillNew(s, c.frames)
                  /\ mBusy[s] # None => Before(mBusy[s].frames, c.frames)
        BY <2>1, FlushedInLine
      <3> QED BY <2>1, <3>1 DEF StreamInv, FramesInLine, Queued, StillNew, Past
    <2> QED BY <2>1, <2>2, OthersAreInLine
  <1>6. ASSUME NEW s \in Sockets, M!EndedElsewhere(s) PROVE (\A r \in Sockets : FramesInLine(r))'
    <2>1. PICK sent \in BOOLEAN :
            /\ Live(s)' /\ UNCHANGED <<mBusy, mProgress, mHeard>>
            /\ mBuffers'[s] = None /\ mQueue'[s] = M!Flushed(s, TRUE, sent)
      BY <1>6 DEF M!EndedElsewhere, M!FlushTo, M!chunks, Live, StreamInv, M!TypeOK
    <2>2. FramesInLine(s)'
      <3>1. /\ Sorted(mQueue'[s])
            /\ \A c \in M!Range(mQueue'[s]) \ {None} :
                  /\ c.frames # {} /\ StillNew(s, c.frames)
                  /\ mBusy[s] # None => Before(mBusy[s].frames, c.frames)
        BY <2>1, FlushedInLine
      <3> QED BY <2>1, <3>1 DEF StreamInv, FramesInLine, Queued, StillNew, Past
    <2> QED BY <2>1, <2>2, OthersAreInLine
  <1>7. ASSUME NEW s \in Sockets, M!StillOn(s) PROVE (\A r \in Sockets : FramesInLine(r))'
    BY <1>7, StreamFacts
    DEF M!StillOn, M!Goes, StreamInv, M!TypeOK, FramesInLine, Queued, StillNew, Past,
        M!speech, M!socket, M!chunks, M!bounds
  <1>8. ASSUME NEW s \in Sockets, M!Drained(s) PROVE (\A r \in Sockets : FramesInLine(r))'
    BY <1>8, StreamFacts
    DEF M!Drained, M!Goes, M!WorkerIsIdle, StreamInv, M!TypeOK, FramesInLine, Queued, StillNew, Past,
        M!speech, M!socket, M!chunks, M!bounds
  <1>9. ASSUME NEW s \in Sockets, M!Closed(s) PROVE (\A r \in Sockets : FramesInLine(r))'
    BY <1>9, StreamFacts
    DEF M!Closed, M!Goes, M!WorkerIsIdle, StreamInv, M!TypeOK, FramesInLine, Queued, StillNew, Past,
        M!speech, M!socket, M!chunks, M!bounds
  <1>10. ASSUME NEW s \in Sockets, M!Restart(s) PROVE (\A r \in Sockets : FramesInLine(r))'
    <2>1. /\ mQueue[s] \in Seq(M!Chunks \cup {None}) /\ mQueue[s] # <<>>
          /\ mQueue'[s] = Tail(mQueue[s])
          /\ UNCHANGED <<mBuffers, mPhase, mHeard>> /\ mBusy[s] = None
      BY <1>10 DEF M!Restart, M!TakesChunk, M!Takes, StreamInv, M!TypeOK
    <2>2. Live(s)'
      BY <2>1 DEF StreamInv, QuietAtRest, Live
    <2>3. FramesInLine(s)
      BY DEF StreamInv
    <2>4. /\ Sorted(mQueue'[s]) /\ M!Range(mQueue[s]) = M!Range(mQueue'[s]) \cup {Head(mQueue[s])}
          /\ Head(mQueue[s]) # None =>
                \A c \in M!Range(mQueue'[s]) \ {None} : Before(Head(mQueue[s]).frames, c.frames)
      BY <2>1, <2>3, LineShrinks DEF FramesInLine
    <2>5. Queued(s)' \subseteq Queued(s)
      BY <2>4 DEF Queued
    <2>6. UNCHANGED mBusy /\ Past(s)' = Past(s)
      <3>1. mProgress'[StreamOn[s]] = M!Restarted(mProgress[StreamOn[s]]) /\ UNCHANGED mBusy
        BY <1>10, StreamFacts DEF M!Restart, StreamInv, M!TypeOK
      <3>2. CASE mProgress[StreamOn[s]] = None
        BY <3>1, <3>2 DEF M!Restarted, Past
      <3>3. CASE mProgress[StreamOn[s]] # None
        <4>1. mProgress[StreamOn[s]] \in M!Counts
          BY <3>3, StreamFacts DEF StreamInv, M!TypeOK
        <4> DEFINE z == M!Restarted(mProgress[StreamOn[s]])
        <4>2. z.next = mProgress[StreamOn[s]].next
          BY <3>3 DEF M!Restarted
        <4>3. z \in [next: Nat, base: Nat, final: BOOLEAN]
          BY <3>3, <4>1, StreamFacts DEF M!Restarted, M!Counts
        <4>4. z # None
          BY <4>3, StreamFacts
        <4> HIDE DEF z
        <4> QED BY <3>1, <3>3, <4>2, <4>4 DEF Past, z
      <3> QED BY <3>1, <3>2, <3>3
    <2>7. FramesInLine(s)'
      BY <2>1, <2>3, <2>4, <2>5, <2>6 DEF FramesInLine, StillNew
    <2> QED BY <2>2, <2>7, OthersAreInLine
  <1>11. ASSUME NEW s \in Sockets, M!LeaveOut(s) PROVE (\A r \in Sockets : FramesInLine(r))'
    <2>1. /\ mQueue[s] \in Seq(M!Chunks \cup {None}) /\ mQueue[s] # <<>>
          /\ mQueue'[s] = Tail(mQueue[s])
          /\ UNCHANGED <<mBuffers, mPhase, mHeard>> /\ mBusy[s] = None
      BY <1>11 DEF M!LeaveOut, M!TakesChunk, M!Takes, StreamInv, M!TypeOK
    <2>2. Live(s)'
      BY <2>1 DEF StreamInv, QuietAtRest, Live
    <2>3. FramesInLine(s)
      BY DEF StreamInv
    <2>4. /\ Sorted(mQueue'[s]) /\ M!Range(mQueue[s]) = M!Range(mQueue'[s]) \cup {Head(mQueue[s])}
          /\ Head(mQueue[s]) # None =>
                \A c \in M!Range(mQueue'[s]) \ {None} : Before(Head(mQueue[s]).frames, c.frames)
      BY <2>1, <2>3, LineShrinks DEF FramesInLine
    <2>5. Queued(s)' \subseteq Queued(s)
      BY <2>4 DEF Queued
    <2>6. UNCHANGED <<mBusy, mProgress>>
      BY <1>11 DEF M!LeaveOut
    <2>7. FramesInLine(s)'
      BY <2>1, <2>3, <2>4, <2>5, <2>6 DEF FramesInLine, StillNew, Past
    <2> QED BY <2>2, <2>7, OthersAreInLine
  <1>12. ASSUME NEW s \in Sockets, M!Refuse(s) PROVE (\A r \in Sockets : FramesInLine(r))'
    <2>1. /\ mQueue[s] \in Seq(M!Chunks \cup {None}) /\ mQueue[s] # <<>>
          /\ mQueue'[s] = Tail(mQueue[s])
          /\ UNCHANGED <<mBuffers, mPhase, mHeard>> /\ mBusy[s] = None
      BY <1>12 DEF M!Refuse, M!TakesChunk, M!Takes, StreamInv, M!TypeOK
    <2>2. Live(s)'
      BY <2>1 DEF StreamInv, QuietAtRest, Live
    <2>3. FramesInLine(s)
      BY DEF StreamInv
    <2>4. /\ Sorted(mQueue'[s]) /\ M!Range(mQueue[s]) = M!Range(mQueue'[s]) \cup {Head(mQueue[s])}
          /\ Head(mQueue[s]) # None =>
                \A c \in M!Range(mQueue'[s]) \ {None} : Before(Head(mQueue[s]).frames, c.frames)
      BY <2>1, <2>3, LineShrinks DEF FramesInLine
    <2>5. Queued(s)' \subseteq Queued(s)
      BY <2>4 DEF Queued
    <2>6. UNCHANGED <<mBusy, mProgress>>
      BY <1>12 DEF M!Refuse
    <2>7. FramesInLine(s)'
      BY <2>1, <2>3, <2>4, <2>5, <2>6 DEF FramesInLine, StillNew, Past
    <2> QED BY <2>2, <2>7, OthersAreInLine
  <1>13. ASSUME NEW s \in Sockets, M!Transcribe(s) PROVE (\A r \in Sockets : FramesInLine(r))'
    <2>1. /\ mQueue[s] \in Seq(M!Chunks \cup {None}) /\ mQueue[s] # <<>>
          /\ mQueue'[s] = Tail(mQueue[s])
          /\ UNCHANGED <<mBuffers, mPhase, mHeard>> /\ mBusy[s] = None
      BY <1>13 DEF M!Transcribe, M!TakesChunk, M!Takes, StreamInv, M!TypeOK
    <2>2. Live(s)'
      BY <2>1 DEF StreamInv, QuietAtRest, Live
    <2>3. FramesInLine(s)
      BY DEF StreamInv
    <2>4. /\ Sorted(mQueue'[s]) /\ M!Range(mQueue[s]) = M!Range(mQueue'[s]) \cup {Head(mQueue[s])}
          /\ Head(mQueue[s]) # None =>
                \A c \in M!Range(mQueue'[s]) \ {None} : Before(Head(mQueue[s]).frames, c.frames)
      BY <2>1, <2>3, LineShrinks DEF FramesInLine
    <2>5. Queued(s)' \subseteq Queued(s)
      BY <2>4 DEF Queued
    <2> DEFINE c == Head(mQueue[s])
    <2>6. mBusy'[s] = c /\ c # None /\ c \in Queued(s)
      BY <1>13, <2>4 DEF M!Transcribe, M!TakesChunk, StreamInv, M!TypeOK, Queued
    <2>7. Past(s)' = Past(s)
      <3>1. /\ mProgress'[StreamOn[s]] =
                IF mProgress[StreamOn[s]] = None THEN M!Fresh ELSE mProgress[StreamOn[s]]
        BY <1>13, StreamFacts DEF M!Transcribe, StreamInv, M!TypeOK
      <3>2. M!Fresh.next = 0
        BY DEF M!Fresh
      <3> QED BY <3>1, <3>2 DEF Past
    <2> HIDE DEF c
    <2>8. FramesInLine(s)'
      BY <2>1, <2>3, <2>4, <2>5, <2>6, <2>7 DEF FramesInLine, StillNew, Queued, c
    <2> QED BY <2>2, <2>8, OthersAreInLine
  <1>14. ASSUME NEW s \in Sockets, M!Transcribed(s) PROVE (\A r \in Sockets : FramesInLine(r))'
    <2> DEFINE p == mProgress[StreamOn[s]]  b == mBusy[s]
    <2>1. /\ b # None /\ UNCHANGED <<mPhase, mQueue, mBuffers, mHeard>>
          /\ mBusy'[s] = None /\ mProgress'[StreamOn[s]] = M!Consumed(p, b)
      BY <1>14, StreamFacts DEF M!Transcribed, M!socket, StreamInv, M!TypeOK
    <2>2. Live(s)'
      BY <2>1 DEF StreamInv, QuietAtRest, Live
    <2>3. FramesInLine(s) /\ b \in M!Chunks
      BY <2>1 DEF StreamInv, M!TypeOK
    <2>4. Past(s)' \in Nat /\ \A f \in b.frames : Past(s)' <= f
      <3>1. /\ M!Consumed(p, b) # None /\ M!Consumed(p, b) \in M!Counts
            /\ \A f \in b.frames : M!Consumed(p, b).next <= f
        BY <2>1, ConsumedInBounds
      <3> QED BY <2>1, <3>1, StreamFacts DEF Past, M!Counts
    <2>5. PICK f \in b.frames : TRUE
      BY <2>1, <2>3 DEF FramesInLine
    <2>6. f \in M!Frames /\ Past(s)' <= f
      BY <2>3, <2>4, <2>5 DEF M!Chunks
    <2>7. ASSUME NEW F \in SUBSET M!Frames, StillNew(s, F), Before(b.frames, F)
          PROVE  StillNew(s, F)'
      BY <2>1, <2>4, <2>6, <2>7 DEF StillNew, Before, M!Frames
    <2>8. \A c \in Queued(s) : c.frames \in SUBSET M!Frames
      <3>1. mQueue[s] \in Seq(M!Chunks \cup {None})
        BY DEF StreamInv, M!TypeOK
      <3>2. \A c \in Queued(s) : c \in M!Chunks
        BY <3>1 DEF Queued, M!Range
      <3> QED BY <3>2 DEF M!Chunks
    <2>9. mBuffers[s] # None => mBuffers[s] \in SUBSET M!Frames
      BY DEF StreamInv, M!TypeOK
    <2> HIDE DEF b, p
    <2>10. /\ \A c \in Queued(s) : c.frames # {} /\ StillNew(s, c.frames)'
           /\ mBuffers[s] # None => StillNew(s, mBuffers[s])'
      BY <2>1, <2>3, <2>7, <2>8, <2>9 DEF FramesInLine, b
    <2>11. FramesInLine(s)'
      BY <2>1, <2>3, <2>10 DEF FramesInLine, Queued
    <2> QED BY <2>2, <2>11, OthersAreInLine
  <1>15. ASSUME NEW i \in Instances, M!Crash(i) PROVE (\A r \in Sockets : FramesInLine(r))'
    <2> SUFFICES ASSUME NEW r \in Sockets PROVE FramesInLine(r)'
      OBVIOUS
    <2> DEFINE dies == StreamOn[r] = i /\ mPhase[r] # "away"
    <2>1. CASE dies \/ ~Live(r)
      <3>1. mQueue'[r] = <<>> /\ mBusy'[r] = None /\ mBuffers'[r] = None
        BY <1>15, <2>1 DEF M!Crash, StreamInv, M!TypeOK, QuietAtRest
      <3>2. Sorted(mQueue'[r]) /\ M!Range(mQueue'[r]) = {}
        BY <3>1 DEF Sorted, M!Range
      <3> QED BY <3>1, <3>2 DEF FramesInLine, Queued
    <2>2. CASE ~dies /\ Live(r)
      <3>1. /\ mQueue'[r] = mQueue[r] /\ mBusy'[r] = mBusy[r] /\ mBuffers'[r] = mBuffers[r]
            /\ StreamOn[r] # i /\ mHeard' = mHeard
        BY <1>15, <2>2 DEF M!Crash, Live
      <3>2. mProgress'[StreamOn[r]] = mProgress[StreamOn[r]]
        BY <1>15, <3>1, StreamFacts DEF M!Crash, StreamInv, M!TypeOK
      <3> QED BY <3>1, <3>2 DEF StreamInv, FramesInLine, Queued, StillNew, Past
    <2> QED BY <2>1, <2>2
  <1>16. ASSUME M!Hold PROVE (\A r \in Sockets : FramesInLine(r))'
    BY <1>16, StreamFacts
    DEF M!Hold, M!Becomes, StreamInv, M!TypeOK, FramesInLine, Queued, StillNew, Past,
        M!speech, M!socket, M!chunks, M!bounds
  <1>17. ASSUME M!Resume PROVE (\A r \in Sockets : FramesInLine(r))'
    BY <1>17, StreamFacts
    DEF M!Resume, M!Becomes, StreamInv, M!TypeOK, FramesInLine, Queued, StillNew, Past,
        M!speech, M!socket, M!chunks, M!bounds
  <1>18. ASSUME M!Complete PROVE (\A r \in Sockets : FramesInLine(r))'
    BY <1>18, StreamFacts
    DEF M!Complete, M!Becomes, StreamInv, M!TypeOK, FramesInLine, Queued, StillNew, Past,
        M!speech, M!socket, M!chunks, M!bounds
  <1> QED
    BY <1>1, <1>2, <1>3, <1>4, <1>5, <1>6, <1>7, <1>8, <1>9, <1>10, <1>11, <1>12, <1>13,
       <1>14, <1>15, <1>16, <1>17, <1>18
    DEF M!Next, M!Receive, M!Follow, M!Work

(* While no chunk was left out, none is refused.                            *)
LEMMA RefusedOnlyAfterAGap ==
  ASSUME StreamInv, NEW s \in Sockets, M!Refuse(s)
  PROVE  mGap
  <1> DEFINE q == mQueue[s]  p == mProgress[StreamOn[s]]
  <1>1. /\ q \in Seq(M!Chunks \cup {None}) /\ q # <<>> /\ Head(q) # None
        /\ mBusy[s] = None /\ ~M!InOrder(p, Head(q))
    BY DEF M!Refuse, M!TakesChunk, M!Takes, StreamInv, M!TypeOK
  <1>2. Head(q) = q[1]
    BY <1>1
  <1>3. ~Expected(s, q[1].number)
    BY <1>1, <1>2 DEF Expected, M!InOrder
  <1>4. ~InTurn(s)
    BY <1>1, <1>2, <1>3 DEF InTurn
  <1> QED BY <1>4 DEF StreamInv

LEMMA CountsOnStays ==
  ASSUME ~Overlapping, StreamInv, M!Next, M!StreamsCountOn
  PROVE  M!StreamsCountOn'
  <1>1. CASE \E s \in Sockets : M!Refuse(s)
    <2>1. mGap /\ mGap' = mGap
      BY <1>1, RefusedOnlyAfterAGap DEF M!Refuse
    <2> QED BY <2>1 DEF M!StreamsCountOn
  <1>2. CASE UNCHANGED mRefused /\ (mGap => mGap')
    BY <1>2 DEF M!StreamsCountOn
  <1>3. (\E s \in Sockets : M!Refuse(s)) \/ (UNCHANGED mRefused /\ (mGap => mGap'))
    <2>1. ASSUME NEW s \in Sockets, M!Connect(s) PROVE UNCHANGED mRefused /\ (mGap => mGap')
      BY <2>1 DEF M!Connect, M!speech, M!socket, M!chunks, M!bounds
    <2>2. ASSUME NEW s \in Sockets, M!Start(s) PROVE UNCHANGED mRefused /\ (mGap => mGap')
      BY <2>2 DEF M!Start, M!Flushed, M!speech, M!socket, M!chunks, M!bounds
    <2>3. ASSUME NEW s \in Sockets, M!Media(s) PROVE UNCHANGED mRefused /\ (mGap => mGap')
      BY <2>3 DEF M!Media, M!speech, M!socket, M!chunks, M!bounds
    <2>4. ASSUME NEW s \in Sockets, M!Stop(s) PROVE UNCHANGED mRefused /\ (mGap => mGap')
      BY <2>4 DEF M!Stop, M!FlushTo, M!Flushed, M!speech, M!socket, M!chunks, M!bounds
    <2>5. ASSUME NEW s \in Sockets, M!Disconnect(s) PROVE UNCHANGED mRefused /\ (mGap => mGap')
      BY <2>5 DEF M!Disconnect, M!FlushTo, M!Flushed, M!speech, M!socket, M!chunks, M!bounds
    <2>6. ASSUME NEW s \in Sockets, M!EndedElsewhere(s) PROVE UNCHANGED mRefused /\ (mGap => mGap')
      BY <2>6 DEF M!EndedElsewhere, M!FlushTo, M!Flushed, M!speech, M!socket, M!chunks,
         M!bounds
    <2>7. ASSUME NEW s \in Sockets, M!StillOn(s) PROVE UNCHANGED mRefused /\ (mGap => mGap')
      BY <2>7 DEF M!StillOn, M!Goes, M!speech, M!socket, M!chunks, M!bounds
    <2>8. ASSUME NEW s \in Sockets, M!Drained(s) PROVE UNCHANGED mRefused /\ (mGap => mGap')
      BY <2>8 DEF M!Drained, M!Goes, M!WorkerIsIdle, M!speech, M!socket, M!chunks, M!bounds
    <2>9. ASSUME NEW s \in Sockets, M!Closed(s) PROVE UNCHANGED mRefused /\ (mGap => mGap')
      BY <2>9 DEF M!Closed, M!Goes, M!WorkerIsIdle, M!speech, M!socket, M!chunks, M!bounds
    <2>10. ASSUME NEW s \in Sockets, M!Restart(s) PROVE UNCHANGED mRefused /\ (mGap => mGap')
      BY <2>10 DEF M!Restart, M!Takes, M!Restarted, M!speech, M!socket, M!chunks, M!bounds
    <2>11. ASSUME NEW s \in Sockets, M!LeaveOut(s) PROVE UNCHANGED mRefused /\ (mGap => mGap')
      BY <2>11 DEF M!LeaveOut, M!TakesChunk, M!Takes, M!speech, M!socket, M!chunks, M!bounds
    <2>12. ASSUME NEW s \in Sockets, M!Transcribe(s) PROVE UNCHANGED mRefused /\ (mGap => mGap')
      BY <2>12 DEF M!Transcribe, M!TakesChunk, M!Takes, M!InOrder, M!Fresh, M!speech,
         M!socket, M!chunks, M!bounds
    <2>13. ASSUME NEW s \in Sockets, M!Transcribed(s) PROVE UNCHANGED mRefused /\ (mGap => mGap')
      BY <2>13 DEF M!Transcribed, M!Consumed, M!speech, M!socket, M!chunks, M!bounds
    <2>14. ASSUME NEW i \in Instances, M!Crash(i) PROVE UNCHANGED mRefused /\ (mGap => mGap')
      BY <2>14 DEF M!Crash, M!speech, M!socket, M!chunks, M!bounds
    <2>15. ASSUME M!Hold PROVE UNCHANGED mRefused /\ (mGap => mGap')
      BY <2>15 DEF M!Hold, M!Becomes, M!speech, M!socket, M!chunks, M!bounds
    <2>16. ASSUME M!Resume PROVE UNCHANGED mRefused /\ (mGap => mGap')
      BY <2>16 DEF M!Resume, M!Becomes, M!speech, M!socket, M!chunks, M!bounds
    <2>17. ASSUME M!Complete PROVE UNCHANGED mRefused /\ (mGap => mGap')
      BY <2>17 DEF M!Complete, M!Becomes, M!speech, M!socket, M!chunks, M!bounds
    <2> QED
      BY <2>1, <2>2, <2>3, <2>4, <2>5, <2>6, <2>7, <2>8, <2>9, <2>10, <2>11, <2>12, <2>13,
         <2>14, <2>15, <2>16, <2>17
      DEF M!Next, M!Receive, M!Follow, M!Work
  <1> QED BY <1>1, <1>2, <1>3

LEMMA InWaiting ==
  ASSUME NEW s \in Sockets, NEW f
  PROVE  f \in M!Waiting(s) <=>
           \/ mBuffers[s] # None /\ f \in mBuffers[s]
           \/ mBusy[s] # None /\ f \in mBusy[s].frames
           \/ \E c \in Queued(s) : f \in c.frames
  BY DEF M!Waiting, Queued

(* A step keeps the audio that is in the call or on its way when it drops   *)
(* no frame.                                                                *)
Kept(s, f) == f \in mLanded' \/ f \in mUnsent' \/ f \in M!Waiting(s)'

LEMMA AudioStays ==
  ASSUME StreamInv, M!AllAudioLands, NEW s \in Sockets,
         mCall' = mCall, mGap' = mGap, mMishaps' = mMishaps, mLanded \subseteq mLanded',
         mUnsent \subseteq mUnsent',
         \A r \in Sockets \ {s} : mBuffers'[r] = mBuffers[r] /\ mBusy'[r] = mBusy[r] /\ mQueue'[r] = mQueue[r],
         \A f \in M!Waiting(s) : Kept(s, f),
         mHeard' = mHeard \/ (mHeard' = mHeard + 1 /\ Kept(s, mHeard'))
  PROVE  M!AllAudioLands'
  <1>1. SUFFICES ASSUME mCall' # "completed", ~mGap', mMishaps' = 0, NEW f \in 1..mHeard'
                 PROVE  f \in mLanded' \/ f \in mUnsent' \/ \E r \in Sockets : f \in M!Waiting(r)'
    BY DEF M!AllAudioLands
  <1>2. mHeard \in Nat
    BY StreamFacts DEF StreamInv, M!TypeOK
  <1>3. CASE f \in 1..mHeard
    <2>1. f \in mLanded \/ f \in mUnsent \/ \E r \in Sockets : f \in M!Waiting(r)
      BY <1>1, <1>3 DEF M!AllAudioLands
    <2>2. ASSUME NEW r \in Sockets \ {s}, f \in M!Waiting(r) PROVE f \in M!Waiting(r)'
      BY <2>2 DEF M!Waiting
    <2> QED BY <2>1, <2>2 DEF Kept
  <1>4. CASE f \notin 1..mHeard
    <2>1. f = mHeard' /\ Kept(s, mHeard')
      BY <1>1, <1>2, <1>4
    <2> QED BY <2>1 DEF Kept
  <1> QED BY <1>3, <1>4

(* A flush puts the buffer behind what is queued, or with what is not sent. *)
LEMMA FlushedIsQueued ==
  ASSUME StreamInv, NEW s \in Sockets, NEW final \in BOOLEAN, NEW sent \in BOOLEAN
  PROVE  /\ Queued(s) \subseteq M!Range(M!Flushed(s, final, sent)) \ {None}
         /\ mUnsent \subseteq M!Unsent(s, sent)
         /\ ~sent /\ mBuffers[s] # None => mBuffers[s] \subseteq M!Unsent(s, sent)
         /\ sent /\ mBuffers[s] \notin {None, {}} =>
               \E c \in M!Range(M!Flushed(s, final, sent)) \ {None} : c.frames = mBuffers[s]
  <1> DEFINE q == mQueue[s]
             c == [frames |-> mBuffers[s], number |-> mNumbered[s], final |-> final]
  <1>1. q \in Seq(M!Chunks \cup {None})
    BY DEF StreamInv, M!TypeOK
  <1>2. CASE mBuffers[s] \in {None, {}} \/ ~sent
    BY <1>1, <1>2 DEF M!Flushed, Queued, M!Unsent
  <1>3. CASE mBuffers[s] \notin {None, {}} /\ sent
    <2>1. c \in M!Chunks /\ c.frames = mBuffers[s] /\ M!Flushed(s, final, sent) = Append(q, c)
      BY <1>3 DEF StreamInv, M!TypeOK, M!Chunks, M!Flushed
    <2> HIDE DEF c, q
    <2>2. M!Range(Append(q, c)) = M!Range(q) \cup {c}
      BY <1>1, <2>1, RangeGrows
    <2> QED BY <1>3, <2>1, <2>2, StreamFacts DEF Queued, q, M!Unsent
  <1> QED BY <1>2, <1>3

LEMMA AudioIsNotLost ==
  ASSUME ~Overlapping, StreamInv, M!Next, M!AllAudioLands
  PROVE  M!AllAudioLands'
  <1>1. ASSUME NEW s \in Sockets, M!Connect(s) PROVE M!AllAudioLands'
    <2>1. /\ UNCHANGED <<mCall, mGap, mMishaps, mLanded, mBuffers, mBusy, mQueue, mHeard, mUnsent>>
      BY <1>1 DEF M!Connect, M!speech, M!socket, M!chunks, M!bounds
    <2>2. \A r \in Sockets : M!Waiting(r)' = M!Waiting(r)
      BY <2>1 DEF M!Waiting
    <2> QED BY <2>1, <2>2 DEF M!AllAudioLands
  <1>2. ASSUME NEW s \in Sockets, M!Start(s) PROVE M!AllAudioLands'
    <2>0. PICK sent \in BOOLEAN :
            /\ mQueue'[s] = Append(M!Flushed(s, FALSE, sent), None)
            /\ mUnsent' = M!Unsent(s, sent)
      BY <1>2 DEF M!Start, StreamInv, M!TypeOK
    <2> DEFINE q == M!Flushed(s, FALSE, sent)
    <2>1. /\ UNCHANGED <<mCall, mGap, mMishaps, mLanded, mHeard, mBusy>>
          /\ mQueue'[s] = Append(q, None) /\ mUnsent' = M!Unsent(s, sent)
          /\ \A r \in Sockets \ {s} : mQueue'[r] = mQueue[r] /\ mBuffers'[r] = mBuffers[r]
      BY <1>2, <2>0 DEF M!Start, M!speech, M!chunks, M!bounds, StreamInv, M!TypeOK
    <2>2. q \in Seq(M!Chunks \cup {None})
      BY FlushedType
    <2>3. /\ Queued(s) \subseteq M!Range(q) \ {None}
          /\ mUnsent \subseteq M!Unsent(s, sent)
          /\ ~sent /\ mBuffers[s] # None => mBuffers[s] \subseteq M!Unsent(s, sent)
          /\ sent /\ mBuffers[s] \notin {None, {}} =>
                \E c \in M!Range(q) \ {None} : c.frames = mBuffers[s]
      BY FlushedIsQueued
    <2> HIDE DEF q
    <2>4. M!Range(mQueue'[s]) = M!Range(q) \cup {None}
      BY <2>1, <2>2, RangeGrows
    <2>5. ASSUME NEW f \in M!Waiting(s) PROVE Kept(s, f)
      <3>1. CASE mBuffers[s] # None /\ f \in mBuffers[s]
        BY <2>1, <2>3, <2>4, <3>1 DEF Kept, M!Waiting
      <3>2. CASE mBusy[s] # None /\ f \in mBusy[s].frames
        BY <2>1, <3>2 DEF Kept, M!Waiting
      <3>3. CASE \E c \in Queued(s) : f \in c.frames
        BY <2>3, <2>4, <3>3 DEF Kept, M!Waiting
      <3> QED BY <3>1, <3>2, <3>3, InWaiting
    <2> QED BY <2>1, <2>3, <2>5, AudioStays
  <1>3. ASSUME NEW s \in Sockets, M!Media(s) PROVE M!AllAudioLands'
    <2> DEFINE audio == mBuffers[s] \cup {mHeard + 1}
               c == [frames |-> audio, number |-> mNumbered[s], final |-> FALSE]
    <2>1. /\ UNCHANGED <<mCall, mGap, mMishaps, mLanded, mBusy>> /\ mHeard' = mHeard + 1
          /\ mBuffers[s] # None /\ mQueue[s] \in Seq(M!Chunks \cup {None})
          /\ s \in DOMAIN mQueue /\ s \in DOMAIN mBuffers
      BY <1>3 DEF M!Media, M!speech, M!chunks, M!bounds, StreamInv, M!TypeOK
    <2>2. audio \in SUBSET M!Frames
      BY <1>3, StreamFacts DEF M!Media, StreamInv, M!TypeOK, M!Frames
    <2>3. c \in M!Chunks /\ c.frames = audio
      BY <2>2 DEF StreamInv, M!TypeOK, M!Chunks
    <2>4. mBuffers[s] \subseteq audio /\ mHeard' \in audio
      BY <2>1
    <2> HIDE DEF audio, c
    <2>5. CASE /\ mBuffers' = [mBuffers EXCEPT ![s] = audio]
               /\ UNCHANGED <<mQueue, mNumbered, mUnsent>>
      <3>1. mBuffers'[s] = audio /\ audio # None /\ \A r \in Sockets \ {s} : mBuffers'[r] = mBuffers[r]
        BY <2>1, <2>2, <2>5, StreamFacts DEF StreamInv, M!TypeOK
      <3>2. \A f \in M!Waiting(s) \cup {mHeard'} : Kept(s, f)
        BY <2>1, <2>4, <2>5, <3>1 DEF Kept, M!Waiting
      <3> QED BY <2>1, <2>5, <3>1, <3>2, AudioStays
    <2>6. CASE /\ mUnsent' = mUnsent \cup audio
               /\ mBuffers' = [mBuffers EXCEPT ![s] = {}] /\ UNCHANGED <<mQueue, mNumbered>>
      <3>1. \A r \in Sockets \ {s} : mBuffers'[r] = mBuffers[r]
        BY <2>6 DEF StreamInv, M!TypeOK
      <3>2. ASSUME NEW f \in M!Waiting(s) \cup {mHeard'} PROVE Kept(s, f)
        <4>1. CASE f \in audio
          BY <2>6, <4>1 DEF Kept
        <4>2. CASE mBusy[s] # None /\ f \in mBusy[s].frames
          BY <2>1, <4>2 DEF Kept, M!Waiting
        <4>3. CASE \E x \in Queued(s) : f \in x.frames
          BY <2>6, <4>3 DEF Kept, M!Waiting, Queued
        <4> QED BY <2>4, <3>2, <4>1, <4>2, <4>3, InWaiting
      <3> QED BY <2>1, <2>6, <3>1, <3>2, AudioStays
    <2>7. CASE /\ mQueue' = [mQueue EXCEPT ![s] = Append(mQueue[s], c)]
               /\ mBuffers' = [mBuffers EXCEPT ![s] = {}] /\ UNCHANGED mUnsent
      <3>1. /\ mQueue'[s] = Append(mQueue[s], c)
            /\ \A r \in Sockets \ {s} : mQueue'[r] = mQueue[r] /\ mBuffers'[r] = mBuffers[r]
        BY <2>1, <2>7 DEF StreamInv, M!TypeOK
      <3>2. M!Range(mQueue'[s]) = M!Range(mQueue[s]) \cup {c} /\ c # None
        BY <2>1, <2>3, <3>1, RangeGrows, StreamFacts
      <3>3. ASSUME NEW f \in M!Waiting(s) \cup {mHeard'} PROVE Kept(s, f)
        <4>1. CASE f \in audio
          BY <2>3, <3>2, <4>1 DEF Kept, M!Waiting
        <4>2. CASE mBusy[s] # None /\ f \in mBusy[s].frames
          BY <2>1, <4>2 DEF Kept, M!Waiting
        <4>3. CASE \E x \in Queued(s) : f \in x.frames
          BY <3>2, <4>3 DEF Kept, M!Waiting, Queued
        <4> QED BY <2>4, <3>3, <4>1, <4>2, <4>3, InWaiting
      <3> QED BY <2>1, <2>7, <3>1, <3>3, AudioStays
    <2> QED BY <1>3, <2>5, <2>6, <2>7 DEF M!Media, c, audio
  <1>4. ASSUME NEW s \in Sockets, M!Stop(s) PROVE M!AllAudioLands'
    <2>1. PICK sent \in BOOLEAN :
            /\ UNCHANGED <<mCall, mGap, mMishaps, mLanded, mHeard, mBusy>>
            /\ mQueue'[s] = M!Flushed(s, TRUE, sent) /\ mBuffers'[s] = None
            /\ mUnsent' = M!Unsent(s, sent)
            /\ \A r \in Sockets \ {s} : mQueue'[r] = mQueue[r] /\ mBuffers'[r] = mBuffers[r]
      BY <1>4 DEF M!Stop, M!FlushTo, M!speech, M!chunks, M!bounds, StreamInv, M!TypeOK
    <2>2. ASSUME NEW f \in M!Waiting(s) PROVE Kept(s, f)
      <3>1. CASE mBuffers[s] # None /\ f \in mBuffers[s]
        <4>1. CASE sent
          <5>1. PICK c \in M!Range(M!Flushed(s, TRUE, sent)) \ {None} : c.frames = mBuffers[s]
            BY <3>1, <4>1, FlushedIsQueued
          <5>2. c \in M!Range(mQueue'[s]) \ {None} /\ f \in c.frames
            BY <2>1, <3>1, <5>1
          <5> QED BY <5>2 DEF Kept, M!Waiting
        <4>2. CASE ~sent
          BY <2>1, <3>1, <4>2, FlushedIsQueued DEF Kept
        <4> QED BY <4>1, <4>2
      <3>2. CASE mBusy[s] # None /\ f \in mBusy[s].frames
        BY <2>1, <3>2 DEF Kept, M!Waiting
      <3>3. CASE \E c \in Queued(s) : f \in c.frames
        <4>1. Queued(s) \subseteq M!Range(mQueue'[s]) \ {None}
          BY <2>1, FlushedIsQueued
        <4> QED BY <3>3, <4>1 DEF Kept, M!Waiting
      <3> QED BY <3>1, <3>2, <3>3, InWaiting
    <2>3. mUnsent \subseteq mUnsent'
      BY <2>1, FlushedIsQueued
    <2> QED BY <2>1, <2>2, <2>3, AudioStays
  <1>5. ASSUME NEW s \in Sockets, M!Disconnect(s) PROVE M!AllAudioLands'
    <2>1. PICK sent \in BOOLEAN :
            /\ UNCHANGED <<mCall, mGap, mMishaps, mLanded, mHeard, mBusy>>
            /\ mQueue'[s] = M!Flushed(s, TRUE, sent) /\ mBuffers'[s] = None
            /\ mUnsent' = M!Unsent(s, sent)
            /\ \A r \in Sockets \ {s} : mQueue'[r] = mQueue[r] /\ mBuffers'[r] = mBuffers[r]
      BY <1>5 DEF M!Disconnect, M!FlushTo, M!speech, M!chunks, M!bounds, StreamInv, M!TypeOK
    <2>2. ASSUME NEW f \in M!Waiting(s) PROVE Kept(s, f)
      <3>1. CASE mBuffers[s] # None /\ f \in mBuffers[s]
        <4>1. CASE sent
          <5>1. PICK c \in M!Range(M!Flushed(s, TRUE, sent)) \ {None} : c.frames = mBuffers[s]
            BY <3>1, <4>1, FlushedIsQueued
          <5>2. c \in M!Range(mQueue'[s]) \ {None} /\ f \in c.frames
            BY <2>1, <3>1, <5>1
          <5> QED BY <5>2 DEF Kept, M!Waiting
        <4>2. CASE ~sent
          BY <2>1, <3>1, <4>2, FlushedIsQueued DEF Kept
        <4> QED BY <4>1, <4>2
      <3>2. CASE mBusy[s] # None /\ f \in mBusy[s].frames
        BY <2>1, <3>2 DEF Kept, M!Waiting
      <3>3. CASE \E c \in Queued(s) : f \in c.frames
        <4>1. Queued(s) \subseteq M!Range(mQueue'[s]) \ {None}
          BY <2>1, FlushedIsQueued
        <4> QED BY <3>3, <4>1 DEF Kept, M!Waiting
      <3> QED BY <3>1, <3>2, <3>3, InWaiting
    <2>3. mUnsent \subseteq mUnsent'
      BY <2>1, FlushedIsQueued
    <2> QED BY <2>1, <2>2, <2>3, AudioStays
  <1>6. ASSUME NEW s \in Sockets, M!EndedElsewhere(s) PROVE M!AllAudioLands'
    <2>1. PICK sent \in BOOLEAN :
            /\ UNCHANGED <<mCall, mGap, mMishaps, mLanded, mHeard, mBusy>>
            /\ mQueue'[s] = M!Flushed(s, TRUE, sent) /\ mBuffers'[s] = None
            /\ mUnsent' = M!Unsent(s, sent)
            /\ \A r \in Sockets \ {s} : mQueue'[r] = mQueue[r] /\ mBuffers'[r] = mBuffers[r]
      BY <1>6 DEF M!EndedElsewhere, M!FlushTo, M!speech, M!chunks, M!bounds, StreamInv,
         M!TypeOK
    <2>2. ASSUME NEW f \in M!Waiting(s) PROVE Kept(s, f)
      <3>1. CASE mBuffers[s] # None /\ f \in mBuffers[s]
        <4>1. CASE sent
          <5>1. PICK c \in M!Range(M!Flushed(s, TRUE, sent)) \ {None} : c.frames = mBuffers[s]
            BY <3>1, <4>1, FlushedIsQueued
          <5>2. c \in M!Range(mQueue'[s]) \ {None} /\ f \in c.frames
            BY <2>1, <3>1, <5>1
          <5> QED BY <5>2 DEF Kept, M!Waiting
        <4>2. CASE ~sent
          BY <2>1, <3>1, <4>2, FlushedIsQueued DEF Kept
        <4> QED BY <4>1, <4>2
      <3>2. CASE mBusy[s] # None /\ f \in mBusy[s].frames
        BY <2>1, <3>2 DEF Kept, M!Waiting
      <3>3. CASE \E c \in Queued(s) : f \in c.frames
        <4>1. Queued(s) \subseteq M!Range(mQueue'[s]) \ {None}
          BY <2>1, FlushedIsQueued
        <4> QED BY <3>3, <4>1 DEF Kept, M!Waiting
      <3> QED BY <3>1, <3>2, <3>3, InWaiting
    <2>3. mUnsent \subseteq mUnsent'
      BY <2>1, FlushedIsQueued
    <2> QED BY <2>1, <2>2, <2>3, AudioStays
  <1>7. ASSUME NEW s \in Sockets, M!StillOn(s) PROVE M!AllAudioLands'
    <2>1. /\ UNCHANGED <<mCall, mGap, mMishaps, mLanded, mBuffers, mBusy, mQueue, mHeard, mUnsent>>
      BY <1>7 DEF M!StillOn, M!Goes, M!speech, M!socket, M!chunks, M!bounds
    <2>2. \A r \in Sockets : M!Waiting(r)' = M!Waiting(r)
      BY <2>1 DEF M!Waiting
    <2> QED BY <2>1, <2>2 DEF M!AllAudioLands
  <1>8. ASSUME NEW s \in Sockets, M!Drained(s) PROVE M!AllAudioLands'
    <2>1. /\ UNCHANGED <<mCall, mGap, mMishaps, mLanded, mBuffers, mBusy, mQueue, mHeard, mUnsent>>
      BY <1>8 DEF M!Drained, M!Goes, M!WorkerIsIdle, M!speech, M!socket, M!chunks, M!bounds
    <2>2. \A r \in Sockets : M!Waiting(r)' = M!Waiting(r)
      BY <2>1 DEF M!Waiting
    <2> QED BY <2>1, <2>2 DEF M!AllAudioLands
  <1>9. ASSUME NEW s \in Sockets, M!Closed(s) PROVE M!AllAudioLands'
    <2>1. /\ UNCHANGED <<mCall, mGap, mMishaps, mLanded, mBuffers, mBusy, mQueue, mHeard, mUnsent>>
      BY <1>9 DEF M!Closed, M!Goes, M!WorkerIsIdle, M!speech, M!socket, M!chunks, M!bounds
    <2>2. \A r \in Sockets : M!Waiting(r)' = M!Waiting(r)
      BY <2>1 DEF M!Waiting
    <2> QED BY <2>1, <2>2 DEF M!AllAudioLands
  <1>10. ASSUME NEW s \in Sockets, M!Restart(s) PROVE M!AllAudioLands'
    <2>1. /\ mQueue[s] \in Seq(M!Chunks \cup {None}) /\ mQueue[s] # <<>>
          /\ mQueue'[s] = Tail(mQueue[s]) /\ mBusy[s] = None
          /\ \A r \in Sockets \ {s} : mQueue'[r] = mQueue[r]
          /\ UNCHANGED <<mCall, mLanded, mHeard, mBuffers, mUnsent>>
      BY <1>10 DEF M!Restart, M!TakesChunk, M!Takes, M!speech, StreamInv, M!TypeOK
    <2>2. M!Range(mQueue[s]) = M!Range(mQueue'[s]) \cup {Head(mQueue[s])}
      BY <2>1, LineShrinks DEF StreamInv, FramesInLine
    <2>3. Head(mQueue[s]) = None /\ UNCHANGED <<mGap, mMishaps, mBusy>>
      BY <1>10 DEF M!Restart
    <2>4. \A f \in M!Waiting(s) : Kept(s, f)
      BY <2>1, <2>2, <2>3 DEF Kept, M!Waiting
    <2> QED BY <2>1, <2>3, <2>4, AudioStays
  <1>11. ASSUME NEW s \in Sockets, M!LeaveOut(s) PROVE M!AllAudioLands'
    BY <1>11 DEF M!LeaveOut, M!AllAudioLands
  <1>12. ASSUME NEW s \in Sockets, M!Refuse(s) PROVE M!AllAudioLands'
    <2>1. mGap'
      BY <1>12, RefusedOnlyAfterAGap DEF M!Refuse
    <2> QED BY <2>1 DEF M!AllAudioLands
  <1>13. ASSUME NEW s \in Sockets, M!Transcribe(s) PROVE M!AllAudioLands'
    <2>1. /\ mQueue[s] \in Seq(M!Chunks \cup {None}) /\ mQueue[s] # <<>>
          /\ mQueue'[s] = Tail(mQueue[s]) /\ mBusy[s] = None
          /\ \A r \in Sockets \ {s} : mQueue'[r] = mQueue[r]
          /\ UNCHANGED <<mCall, mLanded, mHeard, mBuffers, mUnsent>>
      BY <1>13 DEF M!Transcribe, M!TakesChunk, M!Takes, M!speech, StreamInv, M!TypeOK
    <2>2. M!Range(mQueue[s]) = M!Range(mQueue'[s]) \cup {Head(mQueue[s])}
      BY <2>1, LineShrinks DEF StreamInv, FramesInLine
    <2>3. /\ Head(mQueue[s]) # None /\ UNCHANGED <<mGap, mMishaps>>
          /\ mBusy'[s] = Head(mQueue[s]) /\ \A r \in Sockets \ {s} : mBusy'[r] = mBusy[r]
      BY <1>13 DEF M!Transcribe, M!TakesChunk, StreamInv, M!TypeOK
    <2>4. \A f \in M!Waiting(s) : Kept(s, f)
      BY <2>1, <2>2, <2>3 DEF Kept, M!Waiting
    <2> QED BY <2>1, <2>3, <2>4, AudioStays
  <1>14. ASSUME NEW s \in Sockets, M!Transcribed(s) PROVE M!AllAudioLands'
    <2>1. /\ UNCHANGED <<mCall, mGap, mMishaps, mBuffers, mQueue, mHeard, mUnsent>>
          /\ \A r \in Sockets \ {s} : mBusy'[r] = mBusy[r]
          /\ mLanded' = IF mCall = "completed" THEN mLanded ELSE mLanded \cup mBusy[s].frames
      BY <1>14 DEF M!Transcribed, M!socket, M!bounds, StreamInv, M!TypeOK
    <2>2. CASE mCall = "completed"
      BY <2>1, <2>2 DEF M!AllAudioLands
    <2>3. CASE mCall # "completed"
      <3>1. \A f \in M!Waiting(s) : Kept(s, f)
        BY <2>1, <2>3 DEF Kept, M!Waiting
      <3> QED BY <2>1, <2>3, <3>1, AudioStays
    <2> QED BY <2>2, <2>3
  <1>15. ASSUME NEW i \in Instances, M!Crash(i) PROVE M!AllAudioLands'
    <2>1. mMishaps' # 0
      BY <1>15, StreamFacts DEF M!Crash, StreamInv, M!TypeOK
    <2> QED BY <2>1 DEF M!AllAudioLands
  <1>16. ASSUME M!Hold PROVE M!AllAudioLands'
    <2>1. /\ UNCHANGED <<mGap, mMishaps, mLanded, mBuffers, mBusy, mQueue, mHeard, mUnsent>>
          /\ mCall # "completed"
      BY <1>16 DEF M!Hold, M!Becomes, M!socket, M!chunks
    <2>2. \A r \in Sockets : M!Waiting(r)' = M!Waiting(r)
      BY <2>1 DEF M!Waiting
    <2> QED BY <2>1, <2>2 DEF M!AllAudioLands
  <1>17. ASSUME M!Resume PROVE M!AllAudioLands'
    <2>1. /\ UNCHANGED <<mGap, mMishaps, mLanded, mBuffers, mBusy, mQueue, mHeard, mUnsent>>
          /\ mCall # "completed"
      BY <1>17 DEF M!Resume, M!Becomes, M!socket, M!chunks
    <2>2. \A r \in Sockets : M!Waiting(r)' = M!Waiting(r)
      BY <2>1 DEF M!Waiting
    <2> QED BY <2>1, <2>2 DEF M!AllAudioLands
  <1>18. ASSUME M!Complete PROVE M!AllAudioLands'
    BY <1>18 DEF M!Complete, M!Becomes, M!AllAudioLands
  <1> QED
    BY <1>1, <1>2, <1>3, <1>4, <1>5, <1>6, <1>7, <1>8, <1>9, <1>10, <1>11, <1>12, <1>13,
       <1>14, <1>15, <1>16, <1>17, <1>18
    DEF M!Next, M!Receive, M!Follow, M!Work

LEMMA StreamBegins ==
  M!Init => StreamInv /\ M!StreamsCountOn /\ M!AllAudioLands
  <1> SUFFICES ASSUME M!Init PROVE StreamInv /\ M!StreamsCountOn /\ M!AllAudioLands
    OBVIOUS
  <1>1. M!TypeOK
    <2>1. /\ mHeard \in 0..StreamFrames /\ mStarts \in 0..StreamStarts
          /\ mHolds \in 0..MaxHolds /\ mMishaps \in 0..MaxMishaps
      BY StreamFacts DEF M!Init
    <2>2. mNumbered \in [Sockets -> 0..StreamFrames]
      BY StreamFacts DEF M!Init
    <2>3. mQueue \in [Sockets -> Seq(M!Chunks \cup {None})]
      BY DEF M!Init
    <2> QED BY <2>1, <2>2, <2>3 DEF M!Init, M!TypeOK
  <1>2. OneStream /\ QuietAtRest /\ BusyIsNext /\ NumbersInBounds
    BY StreamFacts DEF M!Init, OneStream, QuietAtRest, BusyIsNext, NumbersInBounds, Live
  <1>3. ASSUME NEW s \in Sockets PROVE FramesInLine(s) /\ InTurn(s)
    <2>1. mQueue[s] = <<>> /\ mBusy[s] = None /\ mBuffers[s] = None
      BY DEF M!Init
    <2>2. Sorted(mQueue[s]) /\ Chained(mQueue[s]) /\ Queued(s) = {}
      BY <2>1 DEF Sorted, Chained, Queued, M!Range
    <2> QED BY <2>1, <2>2 DEF FramesInLine, InTurn
  <1>4. M!StreamsCountOn /\ M!AllAudioLands
    BY DEF M!Init, M!StreamsCountOn, M!AllAudioLands
  <1> QED BY <1>1, <1>2, <1>3, <1>4 DEF StreamInv

LEMMA StreamStep ==
  ASSUME ~Overlapping, StreamInv /\ M!StreamsCountOn /\ M!AllAudioLands, M!Next
  PROVE  (StreamInv /\ M!StreamsCountOn /\ M!AllAudioLands)'
  <1>1. M!TypeOK' /\ OneStream' /\ QuietAtRest' /\ BusyIsNext' /\ NumbersInBounds'
    BY StreamTypeStays, OneStreamStays, QuietStay, BusyStaysNext, NumbersStayInBounds
  <1>2. (\A s \in Sockets : FramesInLine(s))' /\ (mGap \/ \A r \in Sockets : InTurn(r))'
    BY FramesStayInLine, NumbersStayInTurn
  <1>3. M!StreamsCountOn' /\ M!AllAudioLands'
    BY CountsOnStays, AudioIsNotLost
  <1> QED BY <1>1, <1>2, <1>3 DEF StreamInv

LEMMA StreamStays ==
  ASSUME StreamInv /\ M!StreamsCountOn /\ M!AllAudioLands, UNCHANGED mVars
  PROVE  (StreamInv /\ M!StreamsCountOn /\ M!AllAudioLands)'
  <1>1. UNCHANGED <<mCall, mLanded, mHeard, mUnsent, mPhase, mBuffers, mNumbered, mQueue, mBusy, mProgress,
                    mRefused, mGap, mStarts, mHolds, mMishaps>>
    BY DEF mVars
  <1>2. M!TypeOK' /\ OneStream' /\ QuietAtRest' /\ BusyIsNext' /\ NumbersInBounds'
    BY <1>1 DEF StreamInv, M!TypeOK, OneStream, Live, QuietAtRest, BusyIsNext,
       NumbersInBounds
  <1>3. (\A s \in Sockets : FramesInLine(s))'
    BY <1>1 DEF StreamInv, FramesInLine, Queued, StillNew, Past
  <1>4. (mGap \/ \A r \in Sockets : InTurn(r))'
    BY <1>1 DEF StreamInv, InTurn, Expected
  <1>5. M!StreamsCountOn' /\ M!AllAudioLands'
    BY <1>1 DEF M!StreamsCountOn, M!AllAudioLands, M!Waiting
  <1> QED BY <1>2, <1>3, <1>4, <1>5 DEF StreamInv

LEMMA StreamHolds ==
  ASSUME ~Overlapping
  PROVE  TelephonySpec => [](StreamInv /\ M!StreamsCountOn /\ M!AllAudioLands)
  <1> DEFINE Inv == StreamInv /\ M!StreamsCountOn /\ M!AllAudioLands
  <1>1. TelephonyInit => Inv
    BY StreamBegins DEF TelephonyInit
  <1>2. Inv /\ [TelephonyNext]_<<part, mVars, vars>> => Inv'
    <2> SUFFICES ASSUME Inv, [TelephonyNext]_<<part, mVars, vars>> PROVE Inv'
      OBVIOUS
    <2>1. CASE Stream(M!Next)
      BY <2>1, StreamStep DEF Stream
    <2>2. CASE UNCHANGED mVars
      BY <2>2, StreamStays
    <2> QED BY <2>1, <2>2 DEF TelephonyNext, End
  <1> HIDE DEF Inv
  <1>3. TelephonySpec => []Inv
    BY <1>1, <1>2, PTL DEF TelephonySpec
  <1> QED BY <1>3 DEF Inv

(* Every variable of a stream and of a call's end keeps to its domain: no   *)
(* stream counts past its frames.                                           *)
THEOREM TypesHold == ASSUME ~Overlapping PROVE TelephonySpec => []TelephonyTypeOK
  <1>1. EndInv /\ StreamInv => TelephonyTypeOK
    BY DEF EndInv, StreamInv, TelephonyTypeOK
  <1> QED BY <1>1, EndHolds, StreamHolds, PTL

(* However a stream stops and starts again, on one socket or the next, its  *)
(* chunks are taken in turn while none is left out, and what a closing      *)
(* socket still holds is in the call when the socket is gone.               *)
THEOREM AudioKept == ASSUME ~Overlapping PROVE TelephonySpec => []AudioIsKept
  <1>1. M!StreamsCountOn /\ M!AllAudioLands => AudioIsKept
    BY DEF AudioIsKept
  <1> QED BY <1>1, StreamHolds, PTL

(* However many webhooks, sweeps and people end the call, it is processed   *)
(* once and stays ended, and late words stay out of it, until two instances *)
(* have its row in hand at once.                                            *)
THEOREM EndIsTheEnd == ASSUME ~Overlapping PROVE TelephonySpec => TheEndIsTheEnd
  <1> DEFINE Stays == completed /\ ~overlapped => completed' /\ said' = said
  <1>1. EndInv /\ [TelephonyNext]_<<part, mVars, vars>> => Stays
    <2> SUFFICES ASSUME EndInv, [TelephonyNext]_<<part, mVars, vars>>, completed, ~overlapped
                 PROVE completed' /\ said' = said
      OBVIOUS
    <2>1. CASE End(Next)
      <3>1. RowSteps
        BY <2>1, RowIsReadThenSaved DEF End, EndInv
      <3>2. ~Saves
        BY RowInHandAt DEF Saves, EndInv
      <3> QED BY <3>1, <3>2 DEF RowSteps, row, Reads, Fails
    <2>2. CASE UNCHANGED vars
      BY <2>2 DEF vars, record
    <2> QED BY <2>1, <2>2 DEF TelephonyNext, Stream
  <1>2. EndInv => ProcessedOnce
    BY DEF EndInv
  <1>3. TheEndIsTheEnd <=> ProcessedOnce /\ [][ProcessedOnce']_vars /\ [][Stays]_vars
    BY DEF TheEndIsTheEnd, StaysEnded
  <1> HIDE DEF Stays
  <1> QED BY <1>1, <1>2, <1>3, EndHolds, PTL DEF TelephonySpec

(* Where all of them reach one instance no two have the row in hand at once:*)
(* the call is processed once, without exception.                           *)
Alone == \A i, j \in Instances : i = j
THEOREM ProcessedOnceAlone ==
  ASSUME ~Overlapping, Alone
  PROVE  TelephonySpec => [](processed = IF completed THEN 1 ELSE 0)
  <1>1. TelephonyInit => ~overlapped
    BY DEF TelephonyInit, Init
  <1>2. EndInv /\ ~overlapped /\ [TelephonyNext]_<<part, mVars, vars>> => ~overlapped'
    <2> SUFFICES ASSUME EndInv, ~overlapped, [TelephonyNext]_<<part, mVars, vars>>
                 PROVE ~overlapped'
      OBVIOUS
    <2>1. CASE End(Next)
      <3>1. RowSteps
        BY <2>1, RowIsReadThenSaved DEF End, EndInv
      <3>2. Reads => ~overlapped'
        BY DEF Reads, ReadRow, Alone, Free
      <3> QED BY <3>1, <3>2 DEF RowSteps, row, Saves, Fails
    <2>2. CASE UNCHANGED vars
      BY <2>2 DEF vars, record
    <2> QED BY <2>1, <2>2 DEF TelephonyNext, Stream
  <1>3. EndInv /\ ~overlapped => processed = IF completed THEN 1 ELSE 0
    BY DEF EndInv, ProcessedOnce
  <1> QED BY <1>1, <1>2, <1>3, EndHolds, PTL DEF TelephonySpec
=============================================================================
