------------------------------ MODULE MCTelephony ------------------------------
(***************************************************************************)
(* A phone call: its end, and beside it its media stream in detail.         *)
(* CallEnd has of the media sockets what the end needs, so one of the two   *)
(* is chosen at the start and the other stands still.                       *)
(***************************************************************************)
EXTENDS CallEnd, Sequences

CONSTANTS StreamFrames, StreamStarts, MaxHolds      \* MediaStream

\* One instance has the sockets of the stream; the second socket of the end
\* and its webhook reach the other.
StreamOn == [s \in Sockets |-> "api1"]
EndOn == [x \in Sockets \cup Hooks |-> IF x = "k1" THEN "api1" ELSE "api2"]

VARIABLES part,
    mCall, mLanded, mHeard, mUnsent, mPhase, mBuffers, mNumbered, mQueue, mBusy, mProgress,
    mRefused, mGap, mStarts, mHolds, mMishaps

M == INSTANCE MediaStream WITH
    call <- mCall, landed <- mLanded, heard <- mHeard, unsent <- mUnsent, phase <- mPhase,
    buffers <- mBuffers, numbered <- mNumbered, queue <- mQueue, busy <- mBusy,
    progress <- mProgress, refused <- mRefused, gap <- mGap, starts <- mStarts,
    holds <- mHolds, mishaps <- mMishaps, On <- StreamOn, MaxFrames <- StreamFrames,
    MaxStarts <- StreamStarts
mVars == <<mCall, mLanded, mHeard, mUnsent, mPhase, mBuffers, mNumbered, mQueue, mBusy, mProgress,
    mRefused, mGap, mStarts, mHolds, mMishaps>>

ASSUME TelephonyAssumption == M!StreamAssumption /\ EndAssumption

\* What None stands for is none of the values it is told from.
ASSUME NoneIsNothing ==
    /\ \A f \in SUBSET M!Frames : f # None
    /\ None \notin M!Chunks
    /\ None \notin [next: Nat, base: Nat, final: BOOLEAN]

Stream(A) == part = "stream" /\ A /\ UNCHANGED <<part, vars>>
End(A) == part = "end" /\ A /\ UNCHANGED <<part, mVars>>

TelephonyInit == part \in {"stream", "end"} /\ M!Init /\ Init
TelephonyNext == Stream(M!Next) \/ End(Next)

(* The fairness of MediaStream and of CallEnd, each while it is chosen.     *)
TelephonySpec ==
    /\ TelephonyInit /\ [][TelephonyNext]_<<part, mVars, vars>>
    /\ \A s \in Sockets : WF_mVars(Stream(M!Follow(s))) /\ WF_mVars(Stream(M!Work(s)))
    /\ \A s \in Sockets :
        /\ WF_vars(End(Settle(s))) /\ WF_vars(End(Drain(s)))
        /\ SF_vars(End(hungUp /\ Disconnect(s)))
    /\ \A w \in Hooks : WF_vars(End(Follow(w)))
    /\ \A i \in Sweepers :
        /\ WF_vars(End(Sweep(i))) /\ WF_vars(End(CompleteStale(i)))
        /\ WF_vars(End(GrowsOld(i)))
    /\ \A i \in Desks : WF_vars(End(Holds(i, "person") /\ EndByHand(i)))
    /\ WF_vars(End(MarkExpires)) /\ WF_vars(End(RedisReturns))

-----------------------------------------------------------------------------
TelephonyTypeOK == M!TypeOK /\ TypeOK

(* However a stream stops and starts again its chunks count on, and what a  *)
(* closing socket still holds is in the call when the socket is gone        *)
(* (MediaStream).                                                           *)
AudioIsKept == M!StreamsCountOn /\ M!AllAudioLands

(* However many webhooks, sweeps and people end the call, it is processed   *)
(* once and stays ended, and late words stay out of it, unless two instances*)
(* had its row in hand at once (CallEnd).                                   *)
TheEndIsTheEnd == ProcessedOnce /\ [][ProcessedOnce']_vars /\ StaysEnded

(* "Holding the sequence back would reject every later chunk of the call as *)
(* out of order", so no chunk is ever rejected (MediaStream).               *)
ChunksAreTaken == M!NoChunkIsRejected

(* A phone call that is over is completed (CallEnd), and on the way there   *)
(* no socket whose stream stops is held up for ever (MediaStream).          *)
PhoneCallsEnd ==
    /\ part = "end" => HungUpCallsEnd
    /\ part = "stream" => M!StopsAreAnswered
=============================================================================
