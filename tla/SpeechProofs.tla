------------------------------ MODULE SpeechProofs ------------------------------
(***************************************************************************)
(* What holds from audio to what is learnt of it (MCSpeech), for any number *)
(* of requests, calls, lines, threads and connections.  One section proves  *)
(* the invariant of one part from its own Init and Next; the theorems at    *)
(* the end put the parts together.                                          *)
(***************************************************************************)
EXTENDS MCSpeech, FiniteSetTheorems, SequenceTheorems, WellFoundedInduction, TLAPS

(* Only the chosen part moves, and the choice stays.                        *)
LEMMA PartsStandStill ==
    ASSUME [Next]_vars
    PROVE  /\ part' = part
           /\ (UNCHANGED tVars) \/ (part = "tags" /\ T!Next)
           /\ (UNCHANGED kVars) \/ (part = "recording" /\ K!Next)
           /\ (UNCHANGED nVars) \/ (part = "learning" /\ N!Next)
           /\ (UNCHANGED gVars) \/ (part = "catalog" /\ G!Next)
BY DEF Next, vars

(* Of numbers there is a least: the numbers of the set up to one of them    *)
(* are finite, and finite sets are well-founded by inclusion.               *)
LEMMA SomeIsLeast ==
    ASSUME NEW X, \A z \in X : z \in Nat, X # {}
    PROVE  \E x \in X : \A y \in X : x =< y
<1>1. PICK k \in X : TRUE
  OBVIOUS
<1> DEFINE B == 0..k
           UpTo(j) == {z \in X : z <= j}
           F == {Y \in SUBSET B : Y # {} /\ \E j \in Nat : Y = UpTo(j)}
<1>2. IsFiniteSet(B)
  BY FS_Interval
<1>3. F # {} /\ F \subseteq FiniteSubsetsOf(B)
  <2>1. UpTo(k) \in F
    <3>1. \A z \in UpTo(k) : z \in B
      BY <1>1
    <3>2. k \in UpTo(k) /\ k \in Nat
      BY <1>1
    <3> QED BY <3>1, <3>2
  <2>2. \A Y \in SUBSET B : IsFiniteSet(Y)
    BY <1>2, FS_Subset
  <2> QED BY <2>1, <2>2 DEF FiniteSubsetsOf
<1>4. IsWellFoundedOn(StrictSubsetOrdering(B), FiniteSubsetsOf(B))
  BY FS_StrictSubsetOrderingWellFounded
<1>5. PICK Y \in F : \A Z \in F : ~(<<Z, Y>> \in StrictSubsetOrdering(B))
  <2> HIDE DEF F
  <2> QED BY <1>3, <1>4, WFMin
<1>6. PICK j \in Nat : Y = UpTo(j)
  OBVIOUS
<1>7. PICK y \in Y : TRUE
  OBVIOUS
<1>8. \A z \in Y : z \in X /\ z \in Nat /\ z <= j
  BY <1>6
<1>9. ASSUME NEW z \in Y PROVE UpTo(z) = Y
  <2>1. z \in Nat /\ z <= j
    BY <1>8
  <2>2. \A w \in UpTo(z) : w \in Y
    BY <1>6, <2>1
  <2>3. z \in UpTo(z) /\ Y \in SUBSET B
    BY <1>6, <2>1
  <2>4. UpTo(z) \in F
    BY <2>1, <2>2, <2>3
  <2>5. ~(<<UpTo(z), Y>> \in StrictSubsetOrdering(B))
    BY <1>5, <2>4
  <2> QED BY <2>2, <2>4, <2>5 DEF StrictSubsetOrdering
<1>10. \A x \in X : y <= x
  <2> SUFFICES ASSUME NEW x \in X, ~(y <= x) PROVE FALSE
    OBVIOUS
  <2>1. x \in UpTo(y)
    BY <1>8
  <2>2. x \in Y /\ y \in Y
    BY <2>1, <1>9
  <2>3. y \in UpTo(x)
    BY <2>2, <1>9
  <2> QED BY <2>3
<1> QED BY <1>8, <1>10

-----------------------------------------------------------------------------
(* Learning                                                                 *)

(* A correction is given once, and recorded once.                           *)
Recording(f) == nAt[f] = "evidence"
CorrectionsStand ==
    /\ \A c \in Calls : nCorrected[c] # None => nFeedback[c] # None
    /\ \A f \in Feedbacks : Recording(f) =>
         /\ nHand[f] \in [call : Calls]
         /\ nFeedback[nHand[f].call] # None /\ nCorrected[nHand[f].call] = None
    /\ \A f, g \in Feedbacks :
         Recording(f) /\ Recording(g) /\ f # g => nHand[f].call # nHand[g].call

(* The signals a refresh works from are the corrections of some moment, and *)
(* of two refreshes one has read the earlier.                               *)
Within(s, t) == \A c \in Calls : s[c] # None => t[c] = s[c]
Refreshing(f) == nAt[f] \in {"refresh", "proposing"}
SignalsWereThere ==
    /\ \A f \in Feedbacks : Refreshing(f) =>
         /\ nHand[f] \in [signals : N!Corrections, outputs : Nat]
         /\ Within(nHand[f].signals, nCorrected)
    /\ \A f, g \in Feedbacks : Refreshing(f) /\ Refreshing(g) =>
         \/ Within(nHand[f].signals, nHand[g].signals)
         \/ Within(nHand[g].signals, nHand[f].signals)

(* A candidate, the listed and the copied ones too, has enough corrections, *)
(* to its value.                                                            *)
Founded(k) ==
    /\ k \in N!Candidates
    /\ Cardinality(k.evidence) >= MinOccurrences
    /\ \A c \in k.evidence : nCorrected[c] = k.to

Proposing(f) == nAt[f] = "proposing"
Deciding(r) == nAt[r] \in {"deciding", "activating"}
CandidatesAreFounded ==
    /\ \A i \in DOMAIN nCandidates : Founded(nCandidates[i])
    /\ \A f \in Feedbacks : Proposing(f) =>
         /\ nRefreshing = f
         /\ Len(nList[f]) =< Len(nCandidates)
         /\ \A i \in DOMAIN nList[f] :
              Founded(nList[f][i]) /\ nList[f][i].to = nCandidates[i].to
    /\ \A r \in Reviews : Deciding(r) =>
         /\ nCopy[r] \in [id : DOMAIN nCandidates, candidate : N!Candidates]
         /\ Founded(nCopy[r].candidate)
         /\ nCopy[r].candidate.to = nCandidates[nCopy[r].id].to

Open(k) == k.status = "pending_review"
Covered(list, c) == \E i \in DOMAIN list : ~Open(list[i]) /\ c \in list[i].evidence

(* Of one value there is one candidate to review; corrections it is without,*)
(* and no reviewed one has, came after those it has.                        *)
OneIsOpen(list) ==
    \A i, j \in DOMAIN list : Open(list[i]) /\ Open(list[j]) /\ list[i].to = list[j].to => i = j
OpenIsEarliest(list, signals) ==
    \A i \in DOMAIN list : Open(list[i]) =>
        \A c \in Calls :
            signals[c] = list[i].to /\ c \notin list[i].evidence /\ ~Covered(list, c)
            => \A e \in list[i].evidence : signals[e] = list[i].to

(* The list of a refresh is behind only in what was reviewed since, and in  *)
(* the values it has done.                                                  *)
ListIsLate(f) ==
    LET list == nList[f]
    IN  /\ OneIsOpen(list)
        /\ OpenIsEarliest(list, nHand[f].signals)
        /\ \A i \in DOMAIN list : ~Open(list[i]) => nCandidates[i] = list[i]
        /\ \A i \in DOMAIN nCandidates : nCandidates[i].to \in nTodo[f] =>
             /\ i \in DOMAIN list
             /\ Open(nCandidates[i]) => nCandidates[i] = list[i]

CandidatesAreApart ==
    /\ \A i, j \in DOMAIN nCandidates :
         i # j => nCandidates[i].evidence \cap nCandidates[j].evidence = {}
    /\ OneIsOpen(nCandidates)
    /\ \A f \in Feedbacks : Refreshing(f) => OpenIsEarliest(nCandidates, nHand[f].signals)
    /\ \A f \in Feedbacks : Proposing(f) => ListIsLate(f)
    /\ \A r \in Reviews : nAt[r] = "deciding" =>
         /\ Open(nCandidates[nCopy[r].id])
         /\ \A j \in DOMAIN nCandidates :
              j # nCopy[r].id => nCopy[r].candidate.evidence \cap nCandidates[j].evidence = {}

LearningInv ==
    /\ N!TypeOK
    /\ CorrectionsStand
    /\ SignalsWereThere
    /\ CandidatesAreFounded
    /\ nFailures = 0 => CandidatesAreApart

(* A library operator of a part is the library's.                           *)
LEMMA CountsAreCounts == \A X : N!Cardinality(X) = Cardinality(X)
BY DEF N!Cardinality, Cardinality

(* At the start nothing is learnt.                                          *)
LEMMA LearningStarts == N!Init => LearningInv
<1> SUFFICES ASSUME N!Init PROVE LearningInv
  OBVIOUS
<1>1. N!TypeOK
  <2>1. 0 \in 0..MaxFailures
    BY PartsAssumption DEF N!LearningAssumption
  <2>2. nCandidates = <<>> /\ nImprovements = <<>>
    BY DEF N!Init
  <2> QED BY <2>1, <2>2 DEF N!Init, N!TypeOK, N!Corrections, N!Requests
<1>2. \A r \in Feedbacks \cup Reviews : nAt[r] = "rest"
  BY DEF N!Init, N!Requests
<1>3. nCandidates = <<>> /\ \A c \in Calls : nCorrected[c] = None
  BY DEF N!Init
<1>4. CorrectionsStand /\ SignalsWereThere
  BY <1>2, <1>3 DEF CorrectionsStand, SignalsWereThere, Recording, Refreshing
<1>5. CandidatesAreFounded /\ CandidatesAreApart
  BY <1>2, <1>3 DEF CandidatesAreFounded, CandidatesAreApart, Proposing, Deciding,
     Refreshing,
                    OneIsOpen
<1> QED BY <1>1, <1>4, <1>5 DEF LearningInv

(* The least number of a set is in it.                                      *)
LEMMA LeastIsIn ==
    ASSUME NEW X, \A z \in X : z \in Nat, X # {}
    PROVE  N!Min(X) \in X
<1>1. PICK x \in X : \A y \in X : x =< y
  BY SomeIsLeast
<1> QED BY <1>1 DEF N!Min

(* The fresh corrections of a value are corrections to it that no reviewed  *)
(* candidate has, and a proposal has enough.                                *)
LEMMA FreshAreCorrections ==
    ASSUME NEW list, NEW signals, NEW v, NEW outputs
    PROVE  /\ N!Fresh(list, N!To(signals, v)) \in SUBSET Calls
           /\ \A c \in N!Fresh(list, N!To(signals, v)) : signals[c] = v
           /\ N!Proposed(list, N!To(signals, v), outputs) =>
                Cardinality(N!Fresh(list, N!To(signals, v))) >= MinOccurrences
BY CountsAreCounts DEF N!Fresh, N!To, N!Proposed, N!IsPattern

(* The pending candidate of a pattern is one of those listed.               *)
LEMMA PendingIsListed ==
    ASSUME NEW list \in Seq(N!Candidates), NEW calls, N!Pending(list, calls) # {}
    PROVE  /\ N!Min(N!Pending(list, calls)) \in DOMAIN list
           /\ N!Min(N!Pending(list, calls)) \in N!Pending(list, calls)
<1>1. \A i \in N!Pending(list, calls) : i \in DOMAIN list /\ i \in Nat
  BY DEF N!Pending, N!Related
<1> QED BY <1>1, LeastIsIn

(* What a proposal does to the candidates: nothing, one more, or the fresh  *)
(* corrections for the pending one.                                         *)
NewCandidate(f, v) ==
    [to |-> v, evidence |-> N!Fresh(nList[f], N!To(nHand[f].signals, v)),
     status |-> "pending_review"]
Renewed(f, v, m) ==
    [nList[f][m] EXCEPT !.evidence = N!Fresh(nList[f], N!To(nHand[f].signals, v))]

LEMMA ProposalIs ==
    ASSUME N!TypeOK, CandidatesAreFounded, SignalsWereThere,
           NEW f \in Feedbacks, NEW v \in Values, N!Propose(f, v)
    PROVE  /\ Proposing(f) /\ v \in nTodo[f]
           /\ nTodo' = [nTodo EXCEPT ![f] = nTodo[f] \ {v}]
           /\ UNCHANGED <<nObserved, nPredicted, nFeedback, nCorrected, nImprovements,
                          nRefreshing, nAt, nHand, nList, nCopy, nFailures>>
           /\ \/ UNCHANGED nCandidates
              \/ /\ N!Proposed(nList[f], N!To(nHand[f].signals, v), nHand[f].outputs)
                 /\ N!Pending(nList[f], N!To(nHand[f].signals, v)) = {}
                 /\ nCandidates' = Append(nCandidates, NewCandidate(f, v))
              \/ /\ N!Proposed(nList[f], N!To(nHand[f].signals, v), nHand[f].outputs)
                 /\ \E m \in N!Pending(nList[f], N!To(nHand[f].signals, v)) :
                      /\ m \in DOMAIN nList[f] /\ m \in DOMAIN nCandidates
                      /\ nCandidates' = [nCandidates EXCEPT ![m] = Renewed(f, v, m)]
<1> DEFINE calls == N!To(nHand[f].signals, v)
           pending == N!Pending(nList[f], calls)
<1>1. /\ Proposing(f) /\ v \in nTodo[f]
      /\ nTodo' = [nTodo EXCEPT ![f] = nTodo[f] \ {v}]
      /\ UNCHANGED <<nObserved, nPredicted, nFeedback, nCorrected, nImprovements,
                     nRefreshing, nAt, nHand, nList, nCopy, nFailures>>
  BY DEF N!Propose, Proposing, N!evidence
<1>2. nCandidates' = IF ~N!Proposed(nList[f], calls, nHand[f].outputs) THEN nCandidates
                     ELSE IF pending = {} THEN Append(nCandidates, NewCandidate(f, v))
                     ELSE [nCandidates EXCEPT ![N!Min(pending)] = Renewed(f, v, N!Min(pending))]
  BY DEF N!Propose, NewCandidate, Renewed
<1>3. nList[f] \in Seq(N!Candidates) /\ nCandidates \in Seq(N!Candidates)
  BY DEF N!TypeOK
<1>4. Len(nList[f]) =< Len(nCandidates)
  BY <1>1 DEF CandidatesAreFounded
<1>5. ASSUME pending # {}
      PROVE  /\ N!Min(pending) \in pending /\ N!Min(pending) \in DOMAIN nList[f]
             /\ N!Min(pending) \in DOMAIN nCandidates
  <2>1. N!Min(pending) \in pending /\ N!Min(pending) \in DOMAIN nList[f]
    BY <1>3, <1>5, PendingIsListed
  <2> QED BY <2>1, <1>3, <1>4
<1> HIDE DEF calls, pending
<1>6. CASE ~N!Proposed(nList[f], calls, nHand[f].outputs)
  BY <1>1, <1>2, <1>6
<1>7. CASE N!Proposed(nList[f], calls, nHand[f].outputs) /\ pending = {}
  BY <1>1, <1>2, <1>7 DEF calls, pending
<1>8. CASE N!Proposed(nList[f], calls, nHand[f].outputs) /\ pending # {}
  <2>1. nCandidates' = [nCandidates EXCEPT ![N!Min(pending)] = Renewed(f, v, N!Min(pending))]
    BY <1>2, <1>8
  <2> QED BY <1>1, <1>5, <1>8, <2>1 DEF calls, pending
<1> QED BY <1>6, <1>7, <1>8

(* A candidate a proposal makes is founded.                                 *)
LEMMA ProposalIsFounded ==
    ASSUME N!TypeOK, CandidatesAreFounded, SignalsWereThere, NEW f \in Feedbacks, Proposing(f),
           NEW v \in Values,
           N!Proposed(nList[f], N!To(nHand[f].signals, v), nHand[f].outputs)
    PROVE  /\ Founded(NewCandidate(f, v))
           /\ \A m \in N!Pending(nList[f], N!To(nHand[f].signals, v)) :
                m \in DOMAIN nList[f] =>
                  /\ Founded(Renewed(f, v, m)) /\ Renewed(f, v, m).to = v
                  /\ nList[f][m].to = v /\ Open(nList[f][m])
                  /\ Renewed(f, v, m).evidence = NewCandidate(f, v).evidence
                  /\ Renewed(f, v, m).status = nList[f][m].status
<1> DEFINE calls == N!To(nHand[f].signals, v)
           fresh == N!Fresh(nList[f], calls)
<1>1. /\ fresh \in SUBSET Calls /\ Cardinality(fresh) >= MinOccurrences
      /\ \A c \in fresh : nHand[f].signals[c] = v
  BY FreshAreCorrections
<1>2. Within(nHand[f].signals, nCorrected) /\ v # None
  BY NoneIsNothing DEF SignalsWereThere, Refreshing, Proposing
<1>3. \A c \in Calls : nHand[f].signals[c] = v => nCorrected[c] = v
  BY <1>2 DEF Within
<1>4. NewCandidate(f, v) \in N!Candidates /\ NewCandidate(f, v).evidence = fresh
  BY <1>1 DEF NewCandidate, N!Candidates, N!Statuses
<1>5. Founded(NewCandidate(f, v))
  BY <1>1, <1>3, <1>4 DEF Founded, NewCandidate
<1>6. ASSUME NEW m \in N!Pending(nList[f], calls), m \in DOMAIN nList[f]
      PROVE  /\ Founded(Renewed(f, v, m)) /\ Renewed(f, v, m).to = v
             /\ nList[f][m].to = v /\ Open(nList[f][m])
             /\ Renewed(f, v, m).evidence = NewCandidate(f, v).evidence
             /\ Renewed(f, v, m).status = nList[f][m].status
  <2>1. Founded(nList[f][m])
    BY <1>6 DEF CandidatesAreFounded
  <2>2. nList[f][m].evidence \cap calls # {} /\ Open(nList[f][m])
    BY <1>6 DEF N!Pending, N!Related, Open
  <2>3. nList[f][m].to = v
    <3>1. PICK c \in nList[f][m].evidence : c \in Calls /\ nHand[f].signals[c] = v
      BY <2>2 DEF N!To
    <3> QED BY <3>1, <1>3, <2>1 DEF Founded
  <2>4. nList[f][m] \in N!Candidates
    BY <2>1 DEF Founded
  <2>5. /\ Renewed(f, v, m) \in N!Candidates /\ Renewed(f, v, m).evidence = fresh
        /\ Renewed(f, v, m).to = nList[f][m].to
        /\ Renewed(f, v, m).status = nList[f][m].status
    BY <1>1, <2>4 DEF Renewed, N!Candidates
  <2>6. Founded(Renewed(f, v, m))
    BY <1>1, <1>3, <2>3, <2>5 DEF Founded
  <2> QED BY <2>2, <2>3, <2>5, <2>6, <1>4
<1> QED BY <1>5, <1>6


(* The types hold after every step.                                         *)
LEMMA LearningTypes == LearningInv /\ N!Next => N!TypeOK'
<1> SUFFICES ASSUME LearningInv, N!Next PROVE N!TypeOK'
  OBVIOUS
<1> USE DEF LearningInv
<1>0. /\ MaxFailures \in Nat
      /\ nFailures \in 0..MaxFailures
      /\ nFailures' = nFailures \/ (nFailures < MaxFailures /\ nFailures' = nFailures + 1)
         => nFailures' \in 0..MaxFailures
  BY PartsAssumption DEF N!LearningAssumption, N!TypeOK
<1>1. ASSUME NEW c \in Calls, N!Observe(c) PROVE N!TypeOK'
  BY <1>0, <1>1 DEF N!TypeOK, N!Observe, N!requests, N!Failure
<1>2. ASSUME NEW f \in Feedbacks, NEW c \in Calls, NEW v \in Values, N!GiveFeedback(f, c, v)
      PROVE  N!TypeOK'
  BY <1>2 DEF N!TypeOK, N!GiveFeedback, N!Move, N!Requests, N!Corrections
<1>3. ASSUME NEW f \in Feedbacks, N!RecordEvidence(f) PROVE N!TypeOK'
  <2>1. nHand[f].call \in Calls
    BY <1>3 DEF N!RecordEvidence, CorrectionsStand, Recording
  <2>2. nCorrected' \in N!Corrections
    BY <1>3, <2>1 DEF N!RecordEvidence, N!TypeOK, N!Corrections
  <2>3. nAt' \in [N!Requests -> {"rest", "evidence", "signals", "refresh", "proposing",
                                 "deciding", "activating"}]
    BY <1>3 DEF N!RecordEvidence, N!TypeOK, N!Move, N!Requests
  <2> QED BY <1>0, <1>3, <2>2, <2>3 DEF N!RecordEvidence, N!TypeOK, N!Failure
<1>4. ASSUME NEW f \in Feedbacks, N!ReadSignals(f) PROVE N!TypeOK'
  <2>1. nPredicted \subseteq Calls
    BY DEF N!TypeOK
  <2>2. Cardinality(nPredicted) \in Nat /\ Cardinality(Calls) \in Nat
        /\ Cardinality(nPredicted) =< Cardinality(Calls)
    BY <2>1, LearningIsReviewed, FS_Subset, FS_CardinalityType
  <2>3. N!Cardinality(nPredicted) \in 0..N!Cardinality(Calls)
    BY <2>2, CountsAreCounts
  <2>4. nHand'[f] = [signals |-> nCorrected, outputs |-> N!Cardinality(nPredicted)]
    BY <1>4 DEF N!ReadSignals, N!TypeOK
  <2>5. nHand'[f] \in [signals : N!Corrections, outputs : 0..N!Cardinality(Calls)]
    BY <2>3, <2>4 DEF N!TypeOK
  <2> QED BY <1>4, <2>5 DEF N!TypeOK, N!ReadSignals, N!Move, N!Requests, N!evidence
<1>5. ASSUME NEW f \in Feedbacks, N!List(f) PROVE N!TypeOK'
  <2>1. N!Patterns(nHand[f]) \subseteq Values
    BY DEF N!Patterns
  <2> QED BY <1>5, <2>1 DEF N!TypeOK, N!List, N!Move, N!Requests, N!evidence
<1>6. ASSUME NEW f \in Feedbacks, N!Refreshed(f) PROVE N!TypeOK'
  BY <1>6 DEF N!TypeOK, N!Refreshed, N!Move, N!Requests, N!evidence
<1>7. ASSUME NEW r \in Reviews, NEW i \in DOMAIN nCandidates, N!Open(r, i) PROVE N!TypeOK'
  BY <1>7 DEF N!TypeOK, N!Open, N!Move, N!Requests, N!evidence
<1>8. ASSUME NEW f \in Feedbacks, NEW v \in Values, N!Propose(f, v) PROVE N!TypeOK'
  <2>1. nCandidates' \in Seq(N!Candidates) /\ DOMAIN nCandidates \subseteq DOMAIN nCandidates'
    <3>1. CASE UNCHANGED nCandidates
      BY <3>1 DEF N!TypeOK
    <3>2. CASE /\ N!Proposed(nList[f], N!To(nHand[f].signals, v), nHand[f].outputs)
               /\ nCandidates' = Append(nCandidates, NewCandidate(f, v))
      <4>1. Proposing(f)
        BY <1>8, ProposalIs
      <4>2. NewCandidate(f, v) \in N!Candidates
        BY <3>2, <4>1, ProposalIsFounded DEF Founded
      <4> QED BY <3>2, <4>2 DEF N!TypeOK
    <3>3. ASSUME NEW m \in N!Pending(nList[f], N!To(nHand[f].signals, v)),
                 m \in DOMAIN nList[f], m \in DOMAIN nCandidates,
                 N!Proposed(nList[f], N!To(nHand[f].signals, v), nHand[f].outputs),
                 nCandidates' = [nCandidates EXCEPT ![m] = Renewed(f, v, m)]
          PROVE  nCandidates' \in Seq(N!Candidates) /\ DOMAIN nCandidates \subseteq DOMAIN nCandidates'
      <4>1. Proposing(f)
        BY <1>8, ProposalIs
      <4>2. Renewed(f, v, m) \in N!Candidates
        BY <3>3, <4>1, ProposalIsFounded DEF Founded
      <4> QED BY <3>3, <4>2, ExceptSeq DEF N!TypeOK
    <3>4. \/ UNCHANGED nCandidates
          \/ /\ N!Proposed(nList[f], N!To(nHand[f].signals, v), nHand[f].outputs)
             /\ nCandidates' = Append(nCandidates, NewCandidate(f, v))
          \/ /\ N!Proposed(nList[f], N!To(nHand[f].signals, v), nHand[f].outputs)
             /\ \E m \in N!Pending(nList[f], N!To(nHand[f].signals, v)) :
                  /\ m \in DOMAIN nList[f] /\ m \in DOMAIN nCandidates
                  /\ nCandidates' = [nCandidates EXCEPT ![m] = Renewed(f, v, m)]
      BY <1>8, ProposalIs
    <3> DEFINE Goal == nCandidates' \in Seq(N!Candidates)
                       /\ DOMAIN nCandidates \subseteq DOMAIN nCandidates'
               Asked == N!Proposed(nList[f], N!To(nHand[f].signals, v), nHand[f].outputs)
               Changed(m) == nCandidates' = [nCandidates EXCEPT ![m] = Renewed(f, v, m)]
    <3>5. \A m \in N!Pending(nList[f], N!To(nHand[f].signals, v)) :
            m \in DOMAIN nList[f] /\ m \in DOMAIN nCandidates /\ Asked /\ Changed(m) => Goal
      BY <3>3
    <3> HIDE DEF LearningInv, Goal, Changed, Asked
    <3>6. UNCHANGED nCandidates => Goal
      BY <3>1 DEF Goal
    <3>7. Asked /\ nCandidates' = Append(nCandidates, NewCandidate(f, v)) => Goal
      BY <3>2 DEF Goal, Asked
    <3>8. \/ UNCHANGED nCandidates
          \/ Asked /\ nCandidates' = Append(nCandidates, NewCandidate(f, v))
          \/ Asked /\ \E m \in N!Pending(nList[f], N!To(nHand[f].signals, v)) :
                  m \in DOMAIN nList[f] /\ m \in DOMAIN nCandidates /\ Changed(m)
      BY <3>4 DEF Asked, Changed
    <3>9. Goal
      BY <3>5, <3>6, <3>7, <3>8
    <3> QED BY <3>9 DEF Goal
  <2>2. nTodo' \in [Feedbacks -> SUBSET Values]
        /\ UNCHANGED <<nObserved, nPredicted, nFeedback, nCorrected, nImprovements,
                       nRefreshing, nAt, nHand, nList, nCopy, nFailures>>
    <3>1. /\ nTodo' = [nTodo EXCEPT ![f] = nTodo[f] \ {v}]
          /\ UNCHANGED <<nObserved, nPredicted, nFeedback, nCorrected, nImprovements,
                         nRefreshing, nAt, nHand, nList, nCopy, nFailures>>
      BY <1>8, ProposalIs
    <3>2. nTodo \in [Feedbacks -> SUBSET Values] /\ nTodo[f] \ {v} \in SUBSET Values
      BY DEF N!TypeOK
    <3> HIDE DEF LearningInv
    <3> QED BY <3>1, <3>2
  <2>3. nImprovements' \in Seq([candidate : DOMAIN nCandidates', active : BOOLEAN])
    <3>1. [candidate : DOMAIN nCandidates, active : BOOLEAN]
            \subseteq [candidate : DOMAIN nCandidates', active : BOOLEAN]
      BY <2>1
    <3>2. nImprovements \in Seq([candidate : DOMAIN nCandidates, active : BOOLEAN])
      BY DEF N!TypeOK
    <3> QED BY <2>2, <3>1, <3>2, SeqMonotonic
  <2>4. nCopy' \in [Reviews -> [id : DOMAIN nCandidates', candidate : N!Candidates] \cup {None}]
    BY <2>1, <2>2 DEF N!TypeOK
  <2> QED BY <2>1, <2>2, <2>3, <2>4 DEF N!TypeOK
<1>9. ASSUME NEW r \in Reviews, NEW s \in {"approved", "rejected"}, N!SaveReview(r, s)
      PROVE  N!TypeOK'
  <2>1. nCopy[r] \in [id : DOMAIN nCandidates, candidate : N!Candidates]
    BY <1>9 DEF N!SaveReview, N!TypeOK, CandidatesAreFounded, Deciding
  <2>2. [nCopy[r].candidate EXCEPT !.status = s] \in N!Candidates
    BY <2>1 DEF N!Candidates, N!Statuses
  <2>3. nCandidates' \in Seq(N!Candidates) /\ DOMAIN nCandidates' = DOMAIN nCandidates
    BY <1>9, <2>1, <2>2, ExceptSeq DEF N!SaveReview, N!TypeOK
  <2>4. nCopy' \in [Reviews -> [id : DOMAIN nCandidates, candidate : N!Candidates] \cup {None}]
    BY <1>9 DEF N!SaveReview, N!TypeOK
  <2> QED BY <1>9, <2>3, <2>4 DEF N!TypeOK, N!SaveReview, N!Move, N!Requests, N!evidence
<1>10. ASSUME NEW r \in Reviews, N!Activate(r) PROVE N!TypeOK'
  <2>1. nCopy[r].id \in DOMAIN nCandidates
    BY <1>10 DEF N!Activate, N!TypeOK, CandidatesAreFounded, Deciding
  <2>2. [candidate |-> nCopy[r].id, active |-> TRUE] \in [candidate : DOMAIN nCandidates,
                                                          active : BOOLEAN]
    BY <2>1
  <2>3. nImprovements' \in Seq([candidate : DOMAIN nCandidates, active : BOOLEAN])
    <3>1. \/ nImprovements' = nImprovements
          \/ nImprovements' = Append(nImprovements, [candidate |-> nCopy[r].id, active |-> TRUE])
      BY <1>10 DEF N!Activate
    <3> DEFINE Uses == [candidate : DOMAIN nCandidates, active : BOOLEAN]
               new == [candidate |-> nCopy[r].id, active |-> TRUE]
    <3>2. nImprovements \in Seq(Uses) /\ new \in Uses
      BY <2>2 DEF N!TypeOK
    <3>3. nImprovements' = nImprovements \/ nImprovements' = Append(nImprovements, new)
      BY <3>1
    <3> HIDE DEF LearningInv, Uses, new
    <3>4. nImprovements' \in Seq(Uses)
      BY <3>2, <3>3, AppendProperties
    <3> QED BY <3>4 DEF Uses
  <2> QED BY <1>10, <2>3 DEF N!TypeOK, N!Activate, N!Move, N!Requests, N!evidence
<1>11. ASSUME NEW r \in Reviews, N!ActivationFails(r) PROVE N!TypeOK'
  <2>1. nCopy[r] \in [id : DOMAIN nCandidates, candidate : N!Candidates]
    BY <1>11 DEF N!ActivationFails, N!TypeOK, CandidatesAreFounded, Deciding
  <2>2. nCandidates' \in Seq(N!Candidates) /\ DOMAIN nCandidates' = DOMAIN nCandidates
    BY <1>11, <2>1, ExceptSeq DEF N!ActivationFails, N!TypeOK
  <2> QED BY <1>0, <1>11, <2>2
          DEF N!TypeOK, N!ActivationFails, N!Move, N!Requests, N!evidence, N!Failure
<1>12. ASSUME NEW n \in DOMAIN nImprovements, N!Deactivate(n) PROVE N!TypeOK'
  <2>0. nImprovements \in Seq([candidate : DOMAIN nCandidates, active : BOOLEAN])
    BY DEF N!TypeOK
  <2>1. nImprovements[n] \in [candidate : DOMAIN nCandidates, active : BOOLEAN]
    BY <2>0, ElementOfSeq, LenProperties
  <2>2. [nImprovements[n] EXCEPT !.active = FALSE]
           \in [candidate : DOMAIN nCandidates, active : BOOLEAN]
    BY <2>1
  <2>3. nImprovements' \in Seq([candidate : DOMAIN nCandidates, active : BOOLEAN])
    BY <1>12, <2>2, ExceptSeq DEF N!Deactivate, N!TypeOK
  <2> QED BY <1>12, <2>3 DEF N!TypeOK, N!Deactivate, N!evidence, N!requests
<1> QED BY <1>1, <1>2, <1>3, <1>4, <1>5, <1>6, <1>7, <1>8, <1>9, <1>10, <1>11, <1>12
   DEF N!Next

(* A correction once recorded stays.                                        *)
LEMMA CorrectionsGrow ==
    ASSUME N!TypeOK, CorrectionsStand, N!Next
    PROVE  Within(nCorrected, nCorrected')
<1>1. ASSUME NEW f \in Feedbacks, N!RecordEvidence(f) PROVE Within(nCorrected, nCorrected')
  <2>1. nCorrected[nHand[f].call] = None
    BY <1>1 DEF N!RecordEvidence, CorrectionsStand, Recording
  <2> QED BY <1>1, <2>1 DEF N!RecordEvidence, N!TypeOK, N!Corrections, Within
<1>2. ASSUME UNCHANGED nCorrected PROVE Within(nCorrected, nCorrected')
  BY <1>2 DEF Within
<1>3. (\E f \in Feedbacks : N!RecordEvidence(f)) \/ UNCHANGED nCorrected
  BY DEF N!Next, N!Observe, N!GiveFeedback, N!ReadSignals, N!List, N!Refreshed, N!Propose,
         N!Open, N!SaveReview, N!Activate, N!ActivationFails, N!Deactivate, N!evidence
<1> QED BY <1>1, <1>2, <1>3

(* Of the requests that give feedback, one moves at most.                   *)
LEMMA FeedbacksMove ==
    ASSUME N!TypeOK, CorrectionsStand, N!Next
    PROVE  \/ \E f \in Feedbacks, c \in Calls, v \in Values : N!GiveFeedback(f, c, v)
           \/ \E f \in Feedbacks : N!RecordEvidence(f)
           \/ /\ UNCHANGED <<nFeedback, nCorrected>>
              /\ \A g \in Feedbacks : Recording(g)' => Recording(g) /\ nHand'[g] = nHand[g]
<1> DEFINE Rest == /\ UNCHANGED <<nFeedback, nCorrected>>
                   /\ \A g \in Feedbacks : Recording(g)' => Recording(g) /\ nHand'[g] = nHand[g]
<1>1. ASSUME NEW f \in Feedbacks, N!ReadSignals(f) \/ N!List(f) \/ N!Refreshed(f) PROVE Rest
  BY <1>1 DEF N!ReadSignals, N!List, N!Refreshed, N!Move, N!evidence, N!TypeOK, N!Requests,
              Recording
<1>2. ASSUME NEW f \in Feedbacks, NEW v \in Values, N!Propose(f, v) PROVE Rest
  BY <1>2 DEF N!Propose, N!evidence, Recording
<1>3. ASSUME NEW r \in Reviews, NEW i \in DOMAIN nCandidates, N!Open(r, i) PROVE Rest
  BY <1>3, LearningIsReviewed DEF N!Open, N!Move, N!evidence, N!TypeOK, N!Requests,
     Recording
<1>4. ASSUME NEW r \in Reviews, NEW s \in {"approved", "rejected"}, N!SaveReview(r, s)
      PROVE  Rest
  BY <1>4, LearningIsReviewed DEF N!SaveReview, N!Move, N!evidence, N!TypeOK, N!Requests,
                                  Recording
<1>5. ASSUME NEW r \in Reviews, N!Activate(r) \/ N!ActivationFails(r) PROVE Rest
  BY <1>5, LearningIsReviewed DEF N!Activate, N!ActivationFails, N!Move, N!evidence,
     N!TypeOK,
                                  N!Requests, Recording
<1>6. ASSUME NEW n \in DOMAIN nImprovements, N!Deactivate(n) PROVE Rest
  BY <1>6 DEF N!Deactivate, N!evidence, N!requests, Recording
<1>7. ASSUME NEW c \in Calls, N!Observe(c) PROVE Rest
  BY <1>7 DEF N!Observe, N!requests, Recording
<1> QED BY <1>1, <1>2, <1>3, <1>4, <1>5, <1>6, <1>7 DEF N!Next

LEMMA CorrectionsStay ==
    ASSUME N!TypeOK, CorrectionsStand, N!Next
    PROVE  CorrectionsStand'
<1>1. ASSUME NEW f \in Feedbacks, NEW c \in Calls, NEW v \in Values, N!GiveFeedback(f, c, v)
      PROVE  CorrectionsStand'
  <2>1. nFeedback[c] = None /\ nCorrected[c] = None /\ v # None
    BY <1>1, NoneIsNothing DEF N!GiveFeedback, CorrectionsStand
  <2>2. /\ UNCHANGED nCorrected /\ nFeedback'[c] = v
        /\ \A d \in Calls : d # c => nFeedback'[d] = nFeedback[d]
        /\ nHand'[f] = [call |-> c]
        /\ \A g \in Feedbacks : g # f => nHand'[g] = nHand[g] /\ nAt'[g] = nAt[g]
    BY <1>1 DEF N!GiveFeedback, N!Move, N!TypeOK, N!Corrections, N!Requests
  <2>3. \A d \in Calls : nCorrected'[d] # None => nFeedback'[d] # None
    BY <2>1, <2>2 DEF CorrectionsStand
  <2>4. \A g \in Feedbacks : g # f /\ Recording(g) => nHand[g].call # c /\ nHand[g].call \in Calls
    BY <2>1 DEF CorrectionsStand
  <2> QED BY <2>1, <2>2, <2>3, <2>4 DEF CorrectionsStand, Recording
<1>2. ASSUME NEW f \in Feedbacks, N!RecordEvidence(f) PROVE CorrectionsStand'
  <2>1. Recording(f) /\ UNCHANGED nFeedback /\ ~Recording(f)'
    BY <1>2 DEF N!RecordEvidence, Recording, N!Move, N!TypeOK, N!Requests
  <2>2. \A g \in Feedbacks : g # f => nHand'[g] = nHand[g] /\ nAt'[g] = nAt[g]
    BY <1>2 DEF N!RecordEvidence, N!Move, N!TypeOK, N!Requests
  <2>3. \A d \in Calls : \/ nCorrected'[d] = nCorrected[d]
                         \/ d = nHand[f].call /\ nCorrected'[d] = nFeedback[d]
    BY <1>2 DEF N!RecordEvidence, N!TypeOK, N!Corrections
  <2> QED BY <2>1, <2>2, <2>3 DEF CorrectionsStand, Recording
<1>3. ASSUME UNCHANGED <<nFeedback, nCorrected>>,
             \A g \in Feedbacks : Recording(g)' => Recording(g) /\ nHand'[g] = nHand[g]
      PROVE  CorrectionsStand'
  BY <1>3 DEF CorrectionsStand, Recording
<1> QED BY <1>1, <1>2, <1>3, FeedbacksMove

(* A refresh has the signals it read, or those of now.                      *)
LEMMA RefreshesGoOn ==
    ASSUME N!TypeOK, N!Next, NEW g \in Feedbacks, Refreshing(g)'
    PROVE  \/ Refreshing(g) /\ nHand'[g] = nHand[g]
           \/ /\ UNCHANGED nCorrected
              /\ nHand'[g] = [signals |-> nCorrected, outputs |-> N!Cardinality(nPredicted)]
<1> DEFINE Goal == \/ Refreshing(g) /\ nHand'[g] = nHand[g]
                   \/ /\ UNCHANGED nCorrected
                      /\ nHand'[g] = [signals |-> nCorrected,
                                      outputs |-> N!Cardinality(nPredicted)]
<1>1. ASSUME NEW c \in Calls, N!Observe(c) PROVE Goal
  BY <1>1 DEF N!Observe, N!requests, Refreshing
<1>2. ASSUME NEW f \in Feedbacks, NEW c \in Calls, NEW v \in Values, N!GiveFeedback(f, c, v)
      PROVE  Goal
  BY <1>2 DEF N!GiveFeedback, N!Move, N!TypeOK, N!Requests, Refreshing
<1>3. ASSUME NEW f \in Feedbacks, N!RecordEvidence(f) PROVE Goal
  BY <1>3 DEF N!RecordEvidence, N!Move, N!TypeOK, N!Requests, Refreshing
<1>4. ASSUME NEW f \in Feedbacks, N!ReadSignals(f) PROVE Goal
  BY <1>4 DEF N!ReadSignals, N!Move, N!TypeOK, N!Requests, Refreshing, N!evidence
<1>5. ASSUME NEW f \in Feedbacks, N!List(f) \/ N!Refreshed(f) PROVE Goal
  BY <1>5 DEF N!List, N!Refreshed, N!Move, N!TypeOK, N!Requests, Refreshing
<1>6. ASSUME NEW f \in Feedbacks, NEW v \in Values, N!Propose(f, v) PROVE Goal
  BY <1>6 DEF N!Propose, Refreshing
<1>7. ASSUME NEW r \in Reviews, NEW i \in DOMAIN nCandidates, N!Open(r, i) PROVE Goal
  BY <1>7, LearningIsReviewed DEF N!Open, N!Move, N!TypeOK, N!Requests, Refreshing
<1>8. ASSUME NEW r \in Reviews, NEW s \in {"approved", "rejected"}, N!SaveReview(r, s)
      PROVE  Goal
  BY <1>8, LearningIsReviewed DEF N!SaveReview, N!Move, N!TypeOK, N!Requests, Refreshing
<1>9. ASSUME NEW r \in Reviews, N!Activate(r) \/ N!ActivationFails(r) PROVE Goal
  BY <1>9, LearningIsReviewed DEF N!Activate, N!ActivationFails, N!Move, N!TypeOK,
     N!Requests,
                                  Refreshing
<1>10. ASSUME NEW n \in DOMAIN nImprovements, N!Deactivate(n) PROVE Goal
  BY <1>10 DEF N!Deactivate, N!requests, Refreshing
<1> QED BY <1>1, <1>2, <1>3, <1>4, <1>5, <1>6, <1>7, <1>8, <1>9, <1>10 DEF N!Next

LEMMA SignalsStay ==
    ASSUME N!TypeOK, CorrectionsStand, SignalsWereThere, N!Next
    PROVE  SignalsWereThere'
<1>1. Within(nCorrected, nCorrected')
  BY CorrectionsGrow
<1> DEFINE Old(g) == Refreshing(g) /\ nHand'[g] = nHand[g]
           New(g) == UNCHANGED nCorrected /\ nHand'[g].signals = nCorrected
<1>2. \A g \in Feedbacks : Refreshing(g)' => Old(g) \/ New(g)
  BY RefreshesGoOn
<1>3. \A g \in Feedbacks : Refreshing(g)' => nHand'[g] \in [signals : N!Corrections, outputs : Nat]
  <2> SUFFICES ASSUME NEW g \in Feedbacks, Refreshing(g)'
               PROVE  nHand'[g] \in [signals : N!Corrections, outputs : Nat]
    OBVIOUS
  <2>1. N!Cardinality(nPredicted) \in Nat
    <3>1. nPredicted \subseteq Calls
      BY DEF N!TypeOK
    <3> QED BY <3>1, LearningIsReviewed, FS_Subset, FS_CardinalityType, CountsAreCounts
  <2>2. nCorrected \in N!Corrections
    BY DEF N!TypeOK
  <2>3. Refreshing(g) /\ nHand'[g] = nHand[g] => nHand'[g] \in [signals : N!Corrections, outputs : Nat]
    BY DEF SignalsWereThere
  <2> QED BY <2>1, <2>2, <2>3, RefreshesGoOn
<1>4. \A g \in Feedbacks : Old(g) \/ New(g) => Within(nHand'[g].signals, nCorrected')
  BY <1>1 DEF SignalsWereThere, Within
<1>5. \A g, h \in Feedbacks : (Old(g) \/ New(g)) /\ (Old(h) \/ New(h)) =>
        \/ Within(nHand'[g].signals, nHand'[h].signals)
        \/ Within(nHand'[h].signals, nHand'[g].signals)
  BY DEF SignalsWereThere, Within
<1> HIDE DEF Old, New
<1>6. (\A g \in Feedbacks : Refreshing(g) => /\ nHand[g] \in [signals : N!Corrections, outputs : Nat]
                                             /\ Within(nHand[g].signals, nCorrected))'
  BY <1>2, <1>3, <1>4 DEF Within, N!Corrections
<1>7. (\A f, g \in Feedbacks : Refreshing(f) /\ Refreshing(g) =>
         \/ Within(nHand[f].signals, nHand[g].signals)
         \/ Within(nHand[g].signals, nHand[f].signals))'
  BY <1>2, <1>5 DEF Within
<1> QED BY <1>6, <1>7 DEF SignalsWereThere, N!Corrections

(* A founded candidate stays founded, as corrections stay.                  *)
FoundedNext(k) ==
    /\ k \in N!Candidates
    /\ Cardinality(k.evidence) >= MinOccurrences
    /\ \A c \in k.evidence : nCorrected'[c] = k.to

LEMMA FoundedStays ==
    ASSUME Within(nCorrected, nCorrected'), NEW k, Founded(k)
    PROVE  FoundedNext(k)
<1>1. k.to # None /\ k.evidence \in SUBSET Calls
  BY NoneIsNothing DEF Founded, N!Candidates
<1>2. \A c \in k.evidence : nCorrected'[c] = k.to
  BY <1>1 DEF Founded, Within
<1> QED BY <1>2 DEF Founded, FoundedNext

(* What a step does to the candidates: the listed ones stay where they are, *)
(* to the value they have, and what is put there is founded.                *)
CandidatesGo ==
    /\ Len(nCandidates) =< Len(nCandidates')
    /\ \A i \in DOMAIN nCandidates : nCandidates'[i].to = nCandidates[i].to
    /\ \A i \in DOMAIN nCandidates' : Founded(nCandidates'[i])

LEMMA CandidatesMove ==
    ASSUME N!TypeOK, SignalsWereThere, CandidatesAreFounded, N!Next
    PROVE  CandidatesGo
<1>0. nCandidates \in Seq(N!Candidates) /\ \A i \in DOMAIN nCandidates : Founded(nCandidates[i])
  BY DEF N!TypeOK, CandidatesAreFounded
<1>1. ASSUME UNCHANGED nCandidates PROVE CandidatesGo
  BY <1>0, <1>1 DEF CandidatesGo
<1>2. ASSUME NEW f \in Feedbacks, NEW v \in Values, N!Propose(f, v) PROVE CandidatesGo
  <2> DEFINE Asked == N!Proposed(nList[f], N!To(nHand[f].signals, v), nHand[f].outputs)
             pending == N!Pending(nList[f], N!To(nHand[f].signals, v))
             Changed(m) == nCandidates' = [nCandidates EXCEPT ![m] = Renewed(f, v, m)]
             In(m) == m \in DOMAIN nList[f] /\ m \in DOMAIN nCandidates
  <2>1. /\ Proposing(f)
        /\ \/ UNCHANGED nCandidates
           \/ Asked /\ nCandidates' = Append(nCandidates, NewCandidate(f, v))
           \/ Asked /\ \E m \in pending : In(m) /\ Changed(m)
    BY <1>2, ProposalIs
  <2>2. ASSUME Asked, nCandidates' = Append(nCandidates, NewCandidate(f, v)) PROVE CandidatesGo
    <3>1. Founded(NewCandidate(f, v))
      BY <2>1, <2>2, ProposalIsFounded
    <3>2. DOMAIN nCandidates' = 1..(Len(nCandidates) + 1) /\ Len(nCandidates') = Len(nCandidates) + 1
          /\ nCandidates'[Len(nCandidates) + 1] = NewCandidate(f, v)
          /\ \A i \in DOMAIN nCandidates : nCandidates'[i] = nCandidates[i]
      BY <1>0, <2>2
    <3> QED BY <1>0, <3>1, <3>2 DEF CandidatesGo
  <2>3. ASSUME NEW m \in pending, Asked, In(m), Changed(m) PROVE CandidatesGo
    <3>1. Founded(Renewed(f, v, m)) /\ Renewed(f, v, m).to = v /\ nList[f][m].to = v
      BY <2>1, <2>3, ProposalIsFounded
    <3>2. nCandidates[m].to = v
      BY <2>1, <2>3, <3>1 DEF CandidatesAreFounded
    <3>3. DOMAIN nCandidates' = DOMAIN nCandidates /\ Len(nCandidates') = Len(nCandidates)
          /\ nCandidates'[m] = Renewed(f, v, m)
          /\ \A i \in DOMAIN nCandidates : i # m => nCandidates'[i] = nCandidates[i]
      BY <1>0, <2>3
    <3> QED BY <1>0, <3>1, <3>2, <3>3 DEF CandidatesGo
  <2> HIDE DEF Asked, pending, Changed, In
  <2> QED BY <1>1, <2>1, <2>2, <2>3
<1>3. ASSUME NEW r \in Reviews, Deciding(r), NEW k, Founded(k), k.to = nCopy[r].candidate.to,
             nCandidates' = [nCandidates EXCEPT ![nCopy[r].id] = k]
      PROVE  CandidatesGo
  <2>1. nCopy[r].id \in DOMAIN nCandidates
    BY <1>3 DEF CandidatesAreFounded, N!TypeOK
  <2>2. nCandidates[nCopy[r].id].to = k.to
    BY <1>3 DEF CandidatesAreFounded
  <2>3. DOMAIN nCandidates' = DOMAIN nCandidates /\ Len(nCandidates') = Len(nCandidates)
        /\ nCandidates'[nCopy[r].id] = k
        /\ \A i \in DOMAIN nCandidates : i # nCopy[r].id => nCandidates'[i] = nCandidates[i]
    BY <1>0, <1>3, <2>1
  <2> QED BY <1>0, <1>3, <2>2, <2>3 DEF CandidatesGo
<1>4. ASSUME NEW r \in Reviews, NEW s \in {"approved", "rejected"}, N!SaveReview(r, s)
      PROVE  CandidatesGo
  <2>1. Deciding(r) /\ Founded(nCopy[r].candidate)
    BY <1>4 DEF N!SaveReview, Deciding, CandidatesAreFounded
  <2> DEFINE k == [nCopy[r].candidate EXCEPT !.status = s]
  <2>2. k \in N!Candidates /\ k.to = nCopy[r].candidate.to
        /\ k.evidence = nCopy[r].candidate.evidence
    BY <2>1 DEF Founded, N!Candidates, N!Statuses
  <2>3. Founded(k)
    BY <2>1, <2>2 DEF Founded
  <2>4. nCandidates' = [nCandidates EXCEPT ![nCopy[r].id] = k]
    BY <1>4 DEF N!SaveReview
  <2> HIDE DEF k
  <2> QED BY <1>3, <2>1, <2>2, <2>3, <2>4
<1>5. ASSUME NEW r \in Reviews, N!ActivationFails(r) PROVE CandidatesGo
  <2>1. Deciding(r) /\ Founded(nCopy[r].candidate)
    BY <1>5 DEF N!ActivationFails, Deciding, CandidatesAreFounded
  <2>2. nCandidates' = [nCandidates EXCEPT ![nCopy[r].id] = nCopy[r].candidate]
    BY <1>5 DEF N!ActivationFails
  <2> QED BY <1>3, <2>1, <2>2
<1>6. \/ UNCHANGED nCandidates
      \/ \E f \in Feedbacks, v \in Values : N!Propose(f, v)
      \/ \E r \in Reviews, s \in {"approved", "rejected"} : N!SaveReview(r, s)
      \/ \E r \in Reviews : N!ActivationFails(r)
  BY DEF N!Next, N!Observe, N!GiveFeedback, N!RecordEvidence, N!ReadSignals, N!List,
         N!Refreshed, N!Open, N!Activate, N!Deactivate, N!requests
<1> QED BY <1>1, <1>2, <1>4, <1>5, <1>6

(* A refresh that proposes has listed the candidates, and holds the lock.   *)
LEMMA ListsGoOn ==
    ASSUME N!TypeOK, CandidatesAreFounded, N!Next, NEW g \in Feedbacks, Proposing(g)'
    PROVE  /\ nRefreshing' = g
           /\ \/ Proposing(g) /\ nList'[g] = nList[g]
              \/ nList'[g] = nCandidates /\ UNCHANGED nCandidates
<1> DEFINE Goal == /\ nRefreshing' = g
                   /\ \/ Proposing(g) /\ nList'[g] = nList[g]
                      \/ nList'[g] = nCandidates /\ UNCHANGED nCandidates
<1>0. \A f \in Feedbacks : f # None /\ (Proposing(f) => nRefreshing = f)
  BY NoneIsNothing DEF CandidatesAreFounded
<1>1. ASSUME NEW c \in Calls, N!Observe(c) PROVE Goal
  BY <1>0, <1>1 DEF N!Observe, N!requests, Proposing
<1>2. ASSUME NEW f \in Feedbacks, NEW c \in Calls, NEW v \in Values, N!GiveFeedback(f, c, v)
      PROVE  Goal
  BY <1>0, <1>2 DEF N!GiveFeedback, N!Move, N!TypeOK, N!Requests, Proposing
<1>3. ASSUME NEW f \in Feedbacks, N!RecordEvidence(f) PROVE Goal
  BY <1>0, <1>3 DEF N!RecordEvidence, N!Move, N!TypeOK, N!Requests, Proposing
<1>4. ASSUME NEW f \in Feedbacks, N!ReadSignals(f) PROVE Goal
  BY <1>0, <1>4 DEF N!ReadSignals, N!Move, N!TypeOK, N!Requests, Proposing
<1>5. ASSUME NEW f \in Feedbacks, N!List(f) \/ N!Refreshed(f) PROVE Goal
  BY <1>0, <1>5 DEF N!List, N!Refreshed, N!Move, N!TypeOK, N!Requests, Proposing
<1>6. ASSUME NEW f \in Feedbacks, NEW v \in Values, N!Propose(f, v) PROVE Goal
  BY <1>0, <1>6 DEF N!Propose, Proposing
<1>7. ASSUME NEW r \in Reviews, NEW i \in DOMAIN nCandidates, N!Open(r, i) PROVE Goal
  BY <1>0, <1>7, LearningIsReviewed DEF N!Open, N!Move, N!TypeOK, N!Requests, Proposing
<1>8. ASSUME NEW r \in Reviews, NEW s \in {"approved", "rejected"}, N!SaveReview(r, s)
      PROVE  Goal
  BY <1>0, <1>8, LearningIsReviewed DEF N!SaveReview, N!Move, N!TypeOK, N!Requests,
     Proposing
<1>9. ASSUME NEW r \in Reviews, N!Activate(r) \/ N!ActivationFails(r) PROVE Goal
  BY <1>0, <1>9, LearningIsReviewed DEF N!Activate, N!ActivationFails, N!Move, N!TypeOK,
                                        N!Requests, Proposing
<1>10. ASSUME NEW n \in DOMAIN nImprovements, N!Deactivate(n) PROVE Goal
  BY <1>0, <1>10 DEF N!Deactivate, N!requests, Proposing
<1> QED BY <1>1, <1>2, <1>3, <1>4, <1>5, <1>6, <1>7, <1>8, <1>9, <1>10 DEF N!Next

(* A review has the candidate it read, or one there is.                     *)
LEMMA ReviewsGoOn ==
    ASSUME N!TypeOK, N!Next, NEW r \in Reviews, Deciding(r)'
    PROVE  \/ Deciding(r) /\ nCopy'[r] = nCopy[r]
           \/ \E i \in DOMAIN nCandidates :
                nCopy'[r] = [id |-> i, candidate |-> nCandidates[i]] /\ UNCHANGED nCandidates
<1> DEFINE Same == Deciding(r) /\ nCopy'[r] = nCopy[r]
           Goal == \/ Same
                   \/ \E i \in DOMAIN nCandidates :
                        /\ nCopy'[r] = [id |-> i, candidate |-> nCandidates[i]]
                        /\ UNCHANGED nCandidates
<1>1. ASSUME NEW c \in Calls, N!Observe(c) PROVE Goal
  BY <1>1 DEF N!Observe, N!requests, Deciding
<1>2. ASSUME NEW f \in Feedbacks, \/ N!RecordEvidence(f) \/ N!ReadSignals(f)
                                  \/ \E c \in Calls, v \in Values : N!GiveFeedback(f, c, v)
      PROVE  Goal
  <2>1. Same
    BY <1>2, LearningIsReviewed
       DEF N!RecordEvidence, N!ReadSignals, N!GiveFeedback, N!Move, N!TypeOK, N!Requests, Deciding
  <2> QED BY <2>1
<1>3. ASSUME NEW f \in Feedbacks, N!List(f) \/ N!Refreshed(f) \/ \E v \in Values : N!Propose(f, v)
      PROVE  Goal
  <2>1. Same
    BY <1>3, LearningIsReviewed
       DEF N!List, N!Refreshed, N!Propose, N!Move, N!TypeOK, N!Requests, Deciding
  <2> QED BY <2>1
<1>4. ASSUME NEW q \in Reviews, NEW i \in DOMAIN nCandidates, N!Open(q, i) PROVE Goal
  <2>1. q # r => Same
    BY <1>4 DEF N!Open, N!Move, N!TypeOK, N!Requests, Deciding
  <2>2. q = r => nCopy'[r] = [id |-> i, candidate |-> nCandidates[i]] /\ UNCHANGED nCandidates
    BY <1>4 DEF N!Open, N!TypeOK
  <2> QED BY <2>1, <2>2
<1>5. ASSUME NEW q \in Reviews, NEW s \in {"approved", "rejected"}, N!SaveReview(q, s)
      PROVE  Goal
  <2>1. Same
    BY <1>5 DEF N!SaveReview, N!Move, N!TypeOK, N!Requests, Deciding
  <2> QED BY <2>1
<1>6. ASSUME NEW q \in Reviews, N!Activate(q) \/ N!ActivationFails(q) PROVE Goal
  <2>1. Same
    BY <1>6 DEF N!Activate, N!ActivationFails, N!Move, N!TypeOK, N!Requests, Deciding
  <2> QED BY <2>1
<1>7. ASSUME NEW n \in DOMAIN nImprovements, N!Deactivate(n) PROVE Goal
  BY <1>7 DEF N!Deactivate, N!requests, Deciding
<1> HIDE DEF Same, Goal
<1>8. Goal
  BY <1>1, <1>2, <1>3, <1>4, <1>5, <1>6, <1>7 DEF N!Next
<1> QED BY <1>8 DEF Goal, Same

LEMMA CandidatesStayFounded ==
    ASSUME N!TypeOK, N!TypeOK', CorrectionsStand, SignalsWereThere, CandidatesAreFounded, N!Next
    PROVE  CandidatesAreFounded'
<1>1. CandidatesGo
  BY CandidatesMove
<1>2. Within(nCorrected, nCorrected')
  BY CorrectionsGrow
<1>3. \A k : Founded(k) => FoundedNext(k)
  BY <1>2, FoundedStays
<1>0. nCandidates \in Seq(N!Candidates) /\ \A i \in DOMAIN nCandidates : Founded(nCandidates[i])
  BY DEF N!TypeOK, CandidatesAreFounded
<1>4. \A i \in DOMAIN nCandidates' : FoundedNext(nCandidates'[i])
  BY <1>1, <1>3 DEF CandidatesGo
<1>5. ASSUME NEW g \in Feedbacks, Proposing(g)'
      PROVE  /\ nRefreshing' = g
             /\ Len(nList'[g]) =< Len(nCandidates')
             /\ \A i \in DOMAIN nList'[g] :
                  FoundedNext(nList'[g][i]) /\ nList'[g][i].to = nCandidates'[i].to
  <2>1. nRefreshing' = g
    BY <1>5, ListsGoOn
  <2>2. CASE Proposing(g) /\ nList'[g] = nList[g]
    <3>1. /\ Len(nList[g]) =< Len(nCandidates)
          /\ nList[g] \in Seq(N!Candidates)
          /\ \A i \in DOMAIN nList[g] : Founded(nList[g][i]) /\ nList[g][i].to = nCandidates[i].to
      BY <2>2 DEF CandidatesAreFounded, N!TypeOK
    <3>2. \A i \in DOMAIN nList[g] : i \in DOMAIN nCandidates
      BY <1>0, <3>1
    <3>3. Len(nCandidates) =< Len(nCandidates') /\ Len(nCandidates) \in Nat /\ Len(nList[g]) \in Nat
          /\ \A i \in DOMAIN nCandidates : nCandidates'[i].to = nCandidates[i].to
      BY <1>0, <1>1, <3>1 DEF CandidatesGo
    <3>4. Len(nCandidates') \in Nat
      BY DEF N!TypeOK
    <3> QED BY <2>1, <2>2, <1>3, <3>1, <3>2, <3>3, <3>4
  <2>3. CASE nList'[g] = nCandidates /\ UNCHANGED nCandidates
    BY <2>1, <2>3, <1>0, <1>3
  <2> QED BY <2>2, <2>3, <1>5, ListsGoOn
<1>6. ASSUME NEW r \in Reviews, Deciding(r)'
      PROVE  /\ nCopy'[r] \in [id : DOMAIN nCandidates', candidate : N!Candidates]
             /\ FoundedNext(nCopy'[r].candidate)
             /\ nCopy'[r].candidate.to = nCandidates'[nCopy'[r].id].to
  <2>1. CASE Deciding(r) /\ nCopy'[r] = nCopy[r]
    <3>1. /\ nCopy[r] \in [id : DOMAIN nCandidates, candidate : N!Candidates]
          /\ Founded(nCopy[r].candidate)
          /\ nCopy[r].candidate.to = nCandidates[nCopy[r].id].to
      BY <2>1 DEF CandidatesAreFounded
    <3>2. FoundedNext(nCopy[r].candidate)
      BY <1>3, <3>1
    <3>3. nCopy[r].id \in DOMAIN nCandidates' /\ nCopy[r].id \in DOMAIN nCandidates
      BY <3>1, <1>0, <1>1 DEF CandidatesGo, N!TypeOK
    <3>4. nCandidates'[nCopy[r].id].to = nCandidates[nCopy[r].id].to
      BY <3>3, <1>1 DEF CandidatesGo
    <3>5. nCopy[r] \in [id : DOMAIN nCandidates', candidate : N!Candidates]
      BY <3>1, <3>3
    <3> QED BY <2>1, <3>1, <3>2, <3>4, <3>5
  <2>2. ASSUME NEW i \in DOMAIN nCandidates, UNCHANGED nCandidates,
               nCopy'[r] = [id |-> i, candidate |-> nCandidates[i]]
        PROVE  /\ nCopy'[r] \in [id : DOMAIN nCandidates', candidate : N!Candidates]
               /\ FoundedNext(nCopy'[r].candidate)
               /\ nCopy'[r].candidate.to = nCandidates'[nCopy'[r].id].to
    <3>1. Founded(nCandidates[i]) /\ FoundedNext(nCandidates[i])
      BY <1>0, <1>4, <2>2
    <3>2. nCandidates[i] \in N!Candidates
      BY <3>1 DEF Founded
    <3> QED BY <2>2, <3>1, <3>2
  <2>3. \/ Deciding(r) /\ nCopy'[r] = nCopy[r]
        \/ \E i \in DOMAIN nCandidates :
             nCopy'[r] = [id |-> i, candidate |-> nCandidates[i]] /\ UNCHANGED nCandidates
    BY <1>6, ReviewsGoOn
  <2> QED BY <2>1, <2>2, <2>3
<1>7. /\ (\A i \in DOMAIN nCandidates : Founded(nCandidates[i]))'
      /\ (\A r \in Reviews : Deciding(r) =>
           /\ nCopy[r] \in [id : DOMAIN nCandidates, candidate : N!Candidates]
           /\ Founded(nCopy[r].candidate)
           /\ nCopy[r].candidate.to = nCandidates[nCopy[r].id].to)'
  BY <1>4, <1>6 DEF Founded, FoundedNext, N!Candidates, N!Statuses
<1>8. (\A f \in Feedbacks : Proposing(f) =>
         /\ nRefreshing = f
         /\ Len(nList[f]) =< Len(nCandidates)
         /\ \A i \in DOMAIN nList[f] :
              Founded(nList[f][i]) /\ nList[f][i].to = nCandidates[i].to)'
  BY <1>5 DEF Founded, FoundedNext, N!Candidates, N!Statuses
<1> QED BY <1>7, <1>8 DEF CandidatesAreFounded, N!Candidates, N!Statuses

(* With MinOccurrences a correction at least, evidence is of something.     *)
LEMMA SomeAreThere ==
    ASSUME NEW X, Cardinality(X) >= MinOccurrences
    PROVE  X # {}
<1>1. MinOccurrences \in Nat /\ MinOccurrences # 0
  BY PartsAssumption, LearningIsReviewed DEF N!LearningAssumption
<1> QED BY <1>1, FS_EmptySet

(* A proposal puts the fresh corrections at one place; of their value no    *)
(* other candidate is still to be reviewed.                                 *)
Puts(f, v, m) ==
    LET fresh == N!Fresh(nList[f], N!To(nHand[f].signals, v)) IN
    /\ m \in DOMAIN nCandidates'
    /\ DOMAIN nCandidates' = DOMAIN nCandidates \cup {m}
    /\ nCandidates'[m].to = v /\ Open(nCandidates'[m])
    /\ nCandidates'[m].evidence = fresh
    /\ m \in DOMAIN nList[f] => Open(nList[f][m])
    /\ m \in DOMAIN nCandidates => nCandidates[m].to = v
    /\ \A i \in DOMAIN nCandidates : i # m =>
         /\ nCandidates'[i] = nCandidates[i]
         /\ nCandidates[i].to = v =>
              i \in DOMAIN nList[f] /\ ~Open(nList[f][i]) /\ nCandidates[i] = nList[f][i]

\* What is fresh is no reviewed candidate's; the rest of the pattern is.
LEMMA FreshIsUncovered ==
    ASSUME NEW list, NEW signals, NEW v, NEW c
    PROVE  /\ c \in N!Fresh(list, N!To(signals, v)) =>
                signals[c] = v /\ c \in Calls /\ ~Covered(list, c)
           /\ c \in Calls /\ signals[c] = v /\ c \notin N!Fresh(list, N!To(signals, v)) =>
                Covered(list, c)
<1> DEFINE calls == N!To(signals, v)
<1>1. c \in N!Fresh(list, calls) <=> c \in calls /\ c \notin N!Reviewed(list, calls)
  BY DEF N!Fresh
<1>2. c \in calls <=> c \in Calls /\ signals[c] = v
  BY DEF N!To
<1>3. ASSUME c \in calls PROVE c \in N!Reviewed(list, calls) <=> Covered(list, c)
  <2>1. c \in N!Reviewed(list, calls) <=>
          \E i \in N!Related(list, calls) \ N!Pending(list, calls) : c \in list[i].evidence
    BY DEF N!Reviewed
  <2>2. \A i \in DOMAIN list : c \in list[i].evidence =>
          (i \in N!Related(list, calls) \ N!Pending(list, calls) <=> ~Open(list[i]))
    BY <1>3 DEF N!Related, N!Pending, Open
  <2>3. \A i \in N!Related(list, calls) : i \in DOMAIN list
    BY DEF N!Related
  <2> QED BY <2>1, <2>2, <2>3 DEF Covered
<1> HIDE DEF calls
<1> QED BY <1>1, <1>2, <1>3 DEF calls

LEMMA ProposalPuts ==
    ASSUME N!TypeOK, SignalsWereThere, CandidatesAreFounded, CandidatesAreApart,
           NEW f \in Feedbacks, NEW v \in Values, N!Propose(f, v)
    PROVE  UNCHANGED nCandidates \/ \E m : Puts(f, v, m)
<1> DEFINE calls == N!To(nHand[f].signals, v)
           fresh == N!Fresh(nList[f], calls)
           Asked == N!Proposed(nList[f], calls, nHand[f].outputs)
           pending == N!Pending(nList[f], calls)
           Changed(m) == nCandidates' = [nCandidates EXCEPT ![m] = Renewed(f, v, m)]
           In(m) == m \in DOMAIN nList[f] /\ m \in DOMAIN nCandidates
<1>1. /\ Proposing(f) /\ v \in nTodo[f]
      /\ \/ UNCHANGED nCandidates
         \/ Asked /\ pending = {} /\ nCandidates' = Append(nCandidates, NewCandidate(f, v))
         \/ Asked /\ \E m \in pending : In(m) /\ Changed(m)
  BY ProposalIs
<1>2. /\ nCandidates \in Seq(N!Candidates) /\ nList[f] \in Seq(N!Candidates)
      /\ Len(nList[f]) =< Len(nCandidates)
      /\ \A i \in DOMAIN nList[f] : Founded(nList[f][i]) /\ nList[f][i].to = nCandidates[i].to
  BY <1>1 DEF N!TypeOK, CandidatesAreFounded
<1>3. /\ OneIsOpen(nList[f]) /\ OpenIsEarliest(nList[f], nHand[f].signals)
      /\ \A i \in DOMAIN nList[f] : ~Open(nList[f][i]) => nCandidates[i] = nList[f][i]
      /\ \A i \in DOMAIN nCandidates : nCandidates[i].to = v =>
           i \in DOMAIN nList[f] /\ (Open(nCandidates[i]) => nCandidates[i] = nList[f][i])
  BY <1>1 DEF CandidatesAreApart, ListIsLate
\* With no pending candidate related there is no open one of the value.
<1>4. ASSUME Asked, pending = {}, NEW i \in DOMAIN nList[f], Open(nList[f][i]),
             nList[f][i].to = v
      PROVE  FALSE
  <2>1. PICK c \in fresh : c \in Calls /\ nHand[f].signals[c] = v /\ ~Covered(nList[f], c)
    <3>1. Cardinality(fresh) >= MinOccurrences
      BY <1>4, FreshAreCorrections
    <3>2. fresh # {}
      BY <3>1, SomeAreThere
    <3>3. \A c \in fresh : nHand[f].signals[c] = v /\ c \in Calls /\ ~Covered(nList[f], c)
      BY FreshIsUncovered
    <3> QED BY <3>2, <3>3
  <2>2. PICK e \in nList[f][i].evidence : e \in Calls
    BY <1>2, SomeAreThere DEF Founded, N!Candidates
  <2>3. nList[f][i].evidence \cap calls = {}
    BY <1>4 DEF N!Pending, N!Related, Open
  <2>4. c \notin nList[f][i].evidence /\ nHand[f].signals[e] # v
    BY <2>1, <2>2, <2>3 DEF N!To
  <2> QED BY <1>3, <1>4, <2>1, <2>2, <2>4 DEF OpenIsEarliest
<1>5. ASSUME Asked, pending = {}, nCandidates' = Append(nCandidates, NewCandidate(f, v))
      PROVE  Puts(f, v, Len(nCandidates) + 1)
  <2>1. /\ DOMAIN nCandidates' = 1..(Len(nCandidates) + 1)
        /\ DOMAIN nCandidates = 1..Len(nCandidates) /\ Len(nCandidates) \in Nat
        /\ nCandidates'[Len(nCandidates) + 1] = NewCandidate(f, v)
        /\ \A i \in DOMAIN nCandidates : nCandidates'[i] = nCandidates[i]
    BY <1>2, <1>5
  <2>2. Len(nCandidates) + 1 \notin DOMAIN nList[f]
        /\ Len(nCandidates) + 1 \notin DOMAIN nCandidates
    BY <1>2, <2>1
  <2>3. \A i \in DOMAIN nCandidates : nCandidates[i].to = v =>
          i \in DOMAIN nList[f] /\ ~Open(nList[f][i]) /\ nCandidates[i] = nList[f][i]
    BY <1>2, <1>3, <1>4, <1>5
  <2>4. DOMAIN nCandidates' = DOMAIN nCandidates \cup {Len(nCandidates) + 1}
    BY <2>1
  <2>5. NewCandidate(f, v).to = v /\ NewCandidate(f, v).evidence = fresh
        /\ Open(NewCandidate(f, v))
    BY DEF NewCandidate, Open
  <2> QED BY <2>1, <2>2, <2>3, <2>4, <2>5 DEF Puts
<1>6. ASSUME Asked, NEW m \in pending, In(m), Changed(m) PROVE Puts(f, v, m)
  <2>1. /\ Renewed(f, v, m).to = v /\ nList[f][m].to = v /\ Open(nList[f][m])
        /\ Renewed(f, v, m).evidence = NewCandidate(f, v).evidence
        /\ Renewed(f, v, m).status = nList[f][m].status
    BY <1>1, <1>6, ProposalIsFounded
  <2>2. Renewed(f, v, m).evidence = fresh /\ Open(Renewed(f, v, m))
    BY <2>1 DEF NewCandidate, Open
  <2>3. /\ DOMAIN nCandidates' = DOMAIN nCandidates
        /\ nCandidates'[m] = Renewed(f, v, m)
        /\ \A i \in DOMAIN nCandidates : i # m => nCandidates'[i] = nCandidates[i]
    BY <1>2, <1>6
  <2>4. \A i \in DOMAIN nCandidates : i # m /\ nCandidates[i].to = v =>
          i \in DOMAIN nList[f] /\ ~Open(nList[f][i]) /\ nCandidates[i] = nList[f][i]
    BY <1>2, <1>3, <1>6, <2>1 DEF OneIsOpen
  <2>5. nCandidates[m].to = v
    BY <1>2, <1>6, <2>1
  <2> QED BY <1>6, <2>1, <2>2, <2>3, <2>4, <2>5 DEF Puts
<1> HIDE DEF Asked, pending, Changed, In
<1> QED BY <1>1, <1>5, <1>6

\* A correction is to one value: the signals of a refresh are those of now.
LEMMA SignalsAreCorrections ==
    ASSUME SignalsWereThere, NEW g \in Feedbacks, Refreshing(g), NEW c \in Calls,
           NEW v \in Values, nHand[g].signals[c] = v
    PROVE  nCorrected[c] = v
BY NoneIsNothing DEF SignalsWereThere, Within

(* After a proposal the candidates are apart as they were.                  *)
LEMMA ProposalIsApart ==
    ASSUME N!TypeOK, SignalsWereThere, CandidatesAreFounded, CandidatesAreApart,
           NEW f \in Feedbacks, NEW v \in Values, N!Propose(f, v)
    PROVE  CandidatesAreApart'
<1>1. /\ Proposing(f) /\ Refreshing(f) /\ v \in nTodo[f]
      /\ nTodo' = [nTodo EXCEPT ![f] = nTodo[f] \ {v}]
      /\ UNCHANGED <<nCorrected, nAt, nHand, nList, nCopy>>
  BY ProposalIs DEF Proposing, Refreshing
<1>2. nTodo \in [Feedbacks -> SUBSET Values] /\ \A g \in Feedbacks : nTodo'[g] \subseteq nTodo[g]
  BY <1>1 DEF N!TypeOK
<1>3. CASE UNCHANGED nCandidates
  <2>1. \A g \in Feedbacks : Proposing(g) => ListIsLate(g)'
    BY <1>1, <1>2, <1>3
       DEF CandidatesAreApart, ListIsLate, OneIsOpen, OpenIsEarliest, Covered, Open
  <2> QED BY <1>1, <1>3, <2>1
          DEF CandidatesAreApart, OneIsOpen, OpenIsEarliest, Covered, Open, Refreshing, Proposing
<1>4. ASSUME NEW m, Puts(f, v, m) PROVE CandidatesAreApart'
  <2> DEFINE fresh == N!Fresh(nList[f], N!To(nHand[f].signals, v))
             C == nCandidates
             D == nCandidates'
             L == nList[f]
             signals == nHand[f].signals
  <2>0. \A i \in DOMAIN C : Founded(C[i])
    BY DEF CandidatesAreFounded
  <2>1. /\ m \in DOMAIN D /\ DOMAIN D = DOMAIN C \cup {m}
        /\ D[m].to = v /\ Open(D[m]) /\ D[m].evidence = fresh
        /\ m \in DOMAIN L => Open(L[m])
        /\ m \in DOMAIN C => C[m].to = v
        /\ \A i \in DOMAIN C : i # m =>
             /\ D[i] = C[i]
             /\ C[i].to = v => i \in DOMAIN L /\ ~Open(L[i]) /\ C[i] = L[i]
    BY <1>4 DEF Puts
  <2>2. \A c \in fresh : c \in Calls /\ nCorrected[c] = v /\ ~Covered(L, c)
    BY <1>1, FreshIsUncovered, SignalsAreCorrections
  <2>3. \A i \in DOMAIN C : i # m /\ C[i].to = v => ~Open(C[i])
    BY <2>1
  <2>4. ASSUME NEW i \in DOMAIN C, i # m, NEW c \in fresh, c \in C[i].evidence PROVE FALSE
    <3>1. C[i].to = v
      BY <2>0, <2>2, <2>4 DEF Founded
    <3>2. i \in DOMAIN L /\ ~Open(L[i]) /\ C[i] = L[i]
      BY <2>1, <2>4, <3>1
    <3> QED BY <2>2, <2>4, <3>2 DEF Covered
  <2>5. /\ \A i, j \in DOMAIN C : i # j => C[i].evidence \cap C[j].evidence = {}
        /\ OneIsOpen(C)
        /\ \A g \in Feedbacks : Refreshing(g) => OpenIsEarliest(C, nHand[g].signals)
        /\ \A g \in Feedbacks : Proposing(g) => ListIsLate(g)
        /\ \A r \in Reviews : nAt[r] = "deciding" =>
             /\ Open(C[nCopy[r].id])
             /\ \A j \in DOMAIN C :
                  j # nCopy[r].id => nCopy[r].candidate.evidence \cap C[j].evidence = {}
    BY DEF CandidatesAreApart
  <2> HIDE DEF fresh, C, D, L, signals
  <2>6. \A i, j \in DOMAIN D : i # j => D[i].evidence \cap D[j].evidence = {}
    <3> SUFFICES ASSUME NEW i \in DOMAIN D, NEW j \in DOMAIN D, i # j, NEW c \in D[i].evidence,
                        c \in D[j].evidence
                 PROVE  FALSE
      OBVIOUS
    <3>1. CASE i # m /\ j # m
      BY <2>1, <2>5, <3>1
    <3>2. CASE i = m
      BY <2>1, <2>4, <3>2
    <3>3. CASE j = m
      BY <2>1, <2>4, <3>3
    <3> QED BY <3>1, <3>2, <3>3
  <2>7. OneIsOpen(D)
    BY <2>1, <2>3, <2>5 DEF OneIsOpen
  \* What a reviewed candidate had it has, or the proposal has it now.
  <2>8. ASSUME NEW c \in Calls, Covered(C, c) PROVE Covered(D, c) \/ nCorrected[c] = v
    <3>1. PICK i \in DOMAIN C : ~Open(C[i]) /\ c \in C[i].evidence
      BY <2>8 DEF Covered
    <3>2. CASE i # m
      BY <2>1, <3>1, <3>2 DEF Covered
    <3>3. CASE i = m
      <4>1. C[m].to = v
        BY <2>1, <3>3
      <4> QED BY <2>0, <3>1, <3>3, <4>1 DEF Founded
    <3> QED BY <3>2, <3>3
  <2>9. \A g \in Feedbacks : Refreshing(g) => OpenIsEarliest(D, nHand[g].signals)
    <3> SUFFICES ASSUME NEW g \in Feedbacks, Refreshing(g), NEW i \in DOMAIN D, Open(D[i]),
                        NEW c \in Calls, nHand[g].signals[c] = D[i].to, c \notin D[i].evidence,
                        ~Covered(D, c), NEW e \in D[i].evidence
                 PROVE  nHand[g].signals[e] = D[i].to
      BY DEF OpenIsEarliest
    <3>1. ASSUME i # m PROVE nHand[g].signals[e] = D[i].to
      <4>1. i \in DOMAIN C /\ D[i] = C[i]
        BY <2>1, <3>1
      <4>2. C[i].to \in Values
        BY <2>0, <4>1 DEF Founded, N!Candidates
      <4>3. nCorrected[c] = C[i].to
        BY <4>1, <4>2, SignalsAreCorrections
      <4>4. nCorrected[c] # v
        BY <2>3, <3>1, <4>1, <4>3
      <4>5. ~Covered(C, c)
        BY <2>8, <4>4
      <4> QED BY <2>5, <4>1, <4>5 DEF OpenIsEarliest
    <3>2. ASSUME i = m PROVE nHand[g].signals[e] = D[i].to
      <4>1. signals[e] = v /\ e \in Calls /\ v # None
        BY <2>1, <3>2, FreshIsUncovered, NoneIsNothing DEF fresh, signals
      <4>2. nHand[g].signals[c] = v /\ c \notin fresh
        BY <2>1, <3>2
      <4>3. CASE Within(signals, nHand[g].signals)
        BY <2>1, <3>2, <4>1, <4>3 DEF Within
      <4>4. CASE Within(nHand[g].signals, signals)
        <5>1. signals[c] = v
          BY <4>1, <4>2, <4>4 DEF Within
        <5>2. Covered(L, c)
          BY <4>2, <5>1, FreshIsUncovered DEF fresh, signals, L
        <5>3. PICK j \in DOMAIN L : ~Open(L[j]) /\ c \in L[j].evidence
          BY <5>2 DEF Covered
        <5>4. C[j] = L[j] /\ j # m
          BY <1>1, <2>1, <2>5, <5>3 DEF ListIsLate, L, C
        <5>5. j \in DOMAIN C
          BY <1>1, <5>3 DEF L, C, CandidatesAreFounded, N!TypeOK
        <5> QED BY <2>1, <5>3, <5>4, <5>5 DEF Covered
      <4> QED BY <1>1, <4>3, <4>4 DEF SignalsWereThere, signals
    <3> QED BY <3>1, <3>2
  <2>10. ASSUME NEW g \in Feedbacks, Proposing(g) PROVE ListIsLate(g)'
    <3>1. g = f
      BY <1>1, <2>10 DEF CandidatesAreFounded
    <3>2. /\ OneIsOpen(L) /\ OpenIsEarliest(L, signals)
          /\ \A i \in DOMAIN L : ~Open(L[i]) => C[i] = L[i]
          /\ \A i \in DOMAIN C : C[i].to \in nTodo[f] =>
               i \in DOMAIN L /\ (Open(C[i]) => C[i] = L[i])
      BY <1>1, <2>5 DEF ListIsLate, L, C, signals
    <3>3. \A i \in DOMAIN L : i \in DOMAIN C
      BY <1>1 DEF L, C, CandidatesAreFounded, N!TypeOK
    <3>4. nTodo'[f] = nTodo[f] \ {v}
      BY <1>1, <1>2
    <3>5. \A i \in DOMAIN L : ~Open(L[i]) => D[i] = L[i]
      BY <2>1, <3>2, <3>3
    <3>6. \A i \in DOMAIN D : D[i].to \in nTodo'[f] =>
            i \in DOMAIN L /\ (Open(D[i]) => D[i] = L[i])
      BY <2>1, <3>2, <3>4
    <3> QED BY <1>1, <3>1, <3>2, <3>5, <3>6
            DEF ListIsLate, OneIsOpen, OpenIsEarliest, Covered, Open, L, D, signals
  <2>11. ASSUME NEW r \in Reviews, nAt[r] = "deciding"
         PROVE  /\ Open(D[nCopy[r].id])
                /\ \A j \in DOMAIN D :
                     j # nCopy[r].id => nCopy[r].candidate.evidence \cap D[j].evidence = {}
    <3>1. /\ nCopy[r].id \in DOMAIN C /\ Founded(nCopy[r].candidate)
          /\ nCopy[r].candidate.to = C[nCopy[r].id].to
      BY <2>11 DEF CandidatesAreFounded, Deciding, C
    <3>2. Open(D[nCopy[r].id])
      BY <2>1, <2>5, <2>11, <3>1
    <3>3. ASSUME NEW j \in DOMAIN D, j # nCopy[r].id, NEW c \in nCopy[r].candidate.evidence,
                 c \in D[j].evidence
          PROVE  FALSE
      <4>1. CASE j # m
        BY <2>1, <2>5, <2>11, <3>3, <4>1
      <4>2. CASE j = m
        <5>1. nCorrected[c] = v /\ nCorrected[c] = C[nCopy[r].id].to
          BY <2>1, <2>2, <3>1, <3>3, <4>2 DEF Founded
        <5> QED BY <2>3, <2>5, <2>11, <3>1, <3>3, <4>2, <5>1
      <4> QED BY <4>1, <4>2
    <3> QED BY <3>2, <3>3
  <2>12. /\ (\A i, j \in DOMAIN nCandidates :
               i # j => nCandidates[i].evidence \cap nCandidates[j].evidence = {})'
         /\ OneIsOpen(nCandidates)'
    BY <2>6, <2>7 DEF D, OneIsOpen, Open
  <2>13. (\A g \in Feedbacks : Refreshing(g) => OpenIsEarliest(nCandidates, nHand[g].signals))'
    BY <1>1, <2>9 DEF D, OpenIsEarliest, Covered, Open, Refreshing
  <2>14. (\A g \in Feedbacks : Proposing(g) => ListIsLate(g))'
    BY <1>1, <2>10 DEF Proposing
  <2>15. (\A r \in Reviews : nAt[r] = "deciding" =>
            /\ Open(nCandidates[nCopy[r].id])
            /\ \A j \in DOMAIN nCandidates :
                 j # nCopy[r].id =>
                   nCopy[r].candidate.evidence \cap nCandidates[j].evidence = {})'
    BY <1>1, <2>11 DEF D, Open
  <2> QED BY <2>12, <2>13, <2>14, <2>15 DEF CandidatesAreApart
<1> QED BY <1>3, <1>4, ProposalPuts

(* A review leaves the candidates apart: the reviewed one was open, and no  *)
(* other review is under way.                                               *)
LEMMA ReviewIsApart ==
    ASSUME N!TypeOK, CandidatesAreFounded, CandidatesAreApart,
           NEW r \in Reviews, NEW s \in {"approved", "rejected"}, N!SaveReview(r, s)
    PROVE  CandidatesAreApart'
<1> DEFINE C == nCandidates
           D == nCandidates'
           m == nCopy[r].id
           k == [nCopy[r].candidate EXCEPT !.status = s]
<1>1. /\ nAt[r] = "deciding" /\ D = [C EXCEPT ![m] = k]
      /\ UNCHANGED <<nHand, nList, nTodo>>
      /\ nAt'[r] # "deciding"
      /\ \A g \in Feedbacks : nAt'[g] = nAt[g]
  BY LearningIsReviewed DEF N!SaveReview, N!Move, N!TypeOK, N!Requests
<1>2. C \in Seq(N!Candidates)
  BY DEF N!TypeOK
<1>3. /\ m \in DOMAIN C /\ Open(C[m]) /\ nCopy[r].candidate \in N!Candidates
      /\ nCopy[r].candidate.to = C[m].to
      /\ \A j \in DOMAIN C : j # m => nCopy[r].candidate.evidence \cap C[j].evidence = {}
  BY <1>1 DEF CandidatesAreFounded, CandidatesAreApart, Deciding, Founded
<1>4. /\ k.evidence = nCopy[r].candidate.evidence /\ k.to = nCopy[r].candidate.to
      /\ k.status = s /\ ~Open(k)
  BY <1>3 DEF N!Candidates, Open
<1>5. /\ DOMAIN D = DOMAIN C /\ D[m] = k
      /\ \A i \in DOMAIN C : i # m => D[i] = C[i]
  BY <1>1, <1>2, <1>3
<1>6. /\ \A i, j \in DOMAIN C : i # j => C[i].evidence \cap C[j].evidence = {}
      /\ OneIsOpen(C)
      /\ \A g \in Feedbacks : Refreshing(g) => OpenIsEarliest(C, nHand[g].signals)
      /\ \A g \in Feedbacks : Proposing(g) => ListIsLate(g)
  BY DEF CandidatesAreApart
<1>7. \A q \in Reviews : nAt'[q] # "deciding"
  BY <1>1, LearningIsReviewed
<1> HIDE DEF C, D, m, k
<1>8. \A i, j \in DOMAIN D : i # j => D[i].evidence \cap D[j].evidence = {}
  <2> SUFFICES ASSUME NEW i \in DOMAIN D, NEW j \in DOMAIN D, i # j, NEW c \in D[i].evidence,
                      c \in D[j].evidence
               PROVE  FALSE
    OBVIOUS
  <2>1. CASE i # m /\ j # m
    BY <1>5, <1>6, <2>1
  <2>2. CASE i = m
    BY <1>3, <1>4, <1>5, <2>2 DEF m
  <2>3. CASE j = m
    BY <1>3, <1>4, <1>5, <2>3 DEF m
  <2> QED BY <2>1, <2>2, <2>3
<1>9. OneIsOpen(D)
  BY <1>4, <1>5, <1>6 DEF OneIsOpen
<1>10. \A c : Covered(C, c) => Covered(D, c)
  BY <1>3, <1>5 DEF Covered
<1>11. \A g \in Feedbacks : Refreshing(g) => OpenIsEarliest(D, nHand[g].signals)
  BY <1>4, <1>5, <1>6, <1>10 DEF OpenIsEarliest
<1>12. ASSUME NEW g \in Feedbacks, Proposing(g) PROVE ListIsLate(g)'
  <2>1. /\ OneIsOpen(nList[g]) /\ OpenIsEarliest(nList[g], nHand[g].signals)
        /\ \A i \in DOMAIN nList[g] : ~Open(nList[g][i]) => C[i] = nList[g][i]
        /\ \A i \in DOMAIN C : C[i].to \in nTodo[g] =>
             i \in DOMAIN nList[g] /\ (Open(C[i]) => C[i] = nList[g][i])
    BY <1>6, <1>12 DEF ListIsLate, C
  <2>2. \A i \in DOMAIN nList[g] : i \in DOMAIN C
    BY <1>12 DEF C, CandidatesAreFounded, N!TypeOK
  <2>3. \A i \in DOMAIN nList[g] : ~Open(nList[g][i]) => D[i] = nList[g][i]
    BY <1>3, <1>5, <2>1, <2>2
  <2>4. \A i \in DOMAIN D : D[i].to \in nTodo[g] =>
          i \in DOMAIN nList[g] /\ (Open(D[i]) => D[i] = nList[g][i])
    BY <1>3, <1>4, <1>5, <2>1
  <2> QED BY <1>1, <2>1, <2>3, <2>4 DEF ListIsLate, OneIsOpen, OpenIsEarliest, Covered,
     Open, D
<1>13. /\ (\A i, j \in DOMAIN nCandidates :
             i # j => nCandidates[i].evidence \cap nCandidates[j].evidence = {})'
       /\ OneIsOpen(nCandidates)'
  BY <1>8, <1>9 DEF D, OneIsOpen, Open
<1>14. (\A g \in Feedbacks : Refreshing(g) => OpenIsEarliest(nCandidates, nHand[g].signals))'
  BY <1>1, <1>11 DEF D, OpenIsEarliest, Covered, Open, Refreshing
<1>15. (\A g \in Feedbacks : Proposing(g) => ListIsLate(g))'
  BY <1>1, <1>12 DEF Proposing
<1> QED BY <1>7, <1>13, <1>14, <1>15 DEF CandidatesAreApart

\* The same, where no candidate is touched.
LEMMA StillApart ==
    ASSUME N!TypeOK, CandidatesAreFounded, CandidatesAreApart, UNCHANGED nCandidates,
           \A g \in Feedbacks : Refreshing(g)' =>
             \/ Refreshing(g) /\ nHand'[g] = nHand[g]
             \/ nHand'[g].signals = nCorrected,
           \A g \in Feedbacks : Proposing(g)' => Refreshing(g) /\ nHand'[g] = nHand[g] /\
             (\/ Proposing(g) /\ nList'[g] = nList[g] /\ nTodo'[g] = nTodo[g]
              \/ nList'[g] = nCandidates),
           \A r \in Reviews : nAt'[r] = "deciding" =>
             \/ nAt[r] = "deciding" /\ nCopy'[r] = nCopy[r]
             \/ \E i \in DOMAIN nCandidates :
                  Open(nCandidates[i]) /\ nCopy'[r] = [id |-> i, candidate |-> nCandidates[i]]
    PROVE  CandidatesAreApart'
<1>1. OpenIsEarliest(nCandidates, nCorrected)
  BY DEF OpenIsEarliest, CandidatesAreFounded, Founded
<1>2. /\ \A i, j \in DOMAIN nCandidates :
           i # j => nCandidates[i].evidence \cap nCandidates[j].evidence = {}
      /\ OneIsOpen(nCandidates)
      /\ \A f \in Feedbacks : Refreshing(f) => OpenIsEarliest(nCandidates, nHand[f].signals)
      /\ \A f \in Feedbacks : Proposing(f) => ListIsLate(f)
      /\ \A r \in Reviews : nAt[r] = "deciding" =>
           /\ Open(nCandidates[nCopy[r].id])
           /\ \A j \in DOMAIN nCandidates :
                j # nCopy[r].id =>
                  nCopy[r].candidate.evidence \cap nCandidates[j].evidence = {}
  BY DEF CandidatesAreApart
<1>3. \A g \in Feedbacks : Refreshing(g)' => OpenIsEarliest(nCandidates, nHand'[g].signals)
  BY <1>1, <1>2
<1>4. ASSUME NEW g \in Feedbacks, Proposing(g)' PROVE ListIsLate(g)'
  <2>1. CASE Proposing(g) /\ nList'[g] = nList[g] /\ nTodo'[g] = nTodo[g] /\ nHand'[g] = nHand[g]
    BY <1>2, <2>1 DEF ListIsLate, OneIsOpen, OpenIsEarliest, Covered, Open
  <2>2. CASE nList'[g] = nCandidates /\ Refreshing(g) /\ nHand'[g] = nHand[g]
    BY <1>2, <2>2 DEF ListIsLate, OneIsOpen, OpenIsEarliest, Covered, Open
  <2> QED BY <1>4, <2>1, <2>2
<1>5. ASSUME NEW r \in Reviews, nAt'[r] = "deciding"
      PROVE  /\ Open(nCandidates[nCopy'[r].id])
             /\ \A j \in DOMAIN nCandidates :
                  j # nCopy'[r].id =>
                    nCopy'[r].candidate.evidence \cap nCandidates[j].evidence = {}
  <2>1. CASE nAt[r] = "deciding" /\ nCopy'[r] = nCopy[r]
    BY <1>2, <2>1
  <2>2. ASSUME NEW i \in DOMAIN nCandidates, Open(nCandidates[i]),
               nCopy'[r] = [id |-> i, candidate |-> nCandidates[i]]
        PROVE  /\ Open(nCandidates[nCopy'[r].id])
               /\ \A j \in DOMAIN nCandidates :
                    j # nCopy'[r].id =>
                      nCopy'[r].candidate.evidence \cap nCandidates[j].evidence = {}
    <3>1. nCopy'[r].id = i /\ nCopy'[r].candidate = nCandidates[i]
      BY <2>2
    <3> QED BY <1>2, <2>2, <3>1
  <2> QED BY <1>5, <2>1, <2>2
<1> QED BY <1>2, <1>3, <1>4, <1>5
        DEF CandidatesAreApart, OneIsOpen, OpenIsEarliest, Covered, Open, Refreshing, Proposing

LEMMA CandidatesStayApart ==
    ASSUME LearningInv, N!Next, nFailures' = 0
    PROVE  CandidatesAreApart'
<1>0. /\ N!TypeOK /\ SignalsWereThere /\ CandidatesAreFounded
      /\ nFailures \in Nat
  BY DEF LearningInv, N!TypeOK
<1>1. CandidatesAreApart
  <2>1. nFailures = 0
    <3> DEFINE Kept == nFailures' = nFailures \/ nFailures' = nFailures + 1
    <3>1. ASSUME NEW f \in Feedbacks,
                 \/ \E c \in Calls, v \in Values : N!GiveFeedback(f, c, v)
                 \/ N!RecordEvidence(f) \/ N!ReadSignals(f)
          PROVE  Kept
      BY <3>1 DEF N!GiveFeedback, N!RecordEvidence, N!ReadSignals, N!Failure
    <3>2. ASSUME NEW f \in Feedbacks,
                 N!List(f) \/ N!Refreshed(f) \/ \E v \in Values : N!Propose(f, v)
          PROVE  Kept
      BY <3>2 DEF N!List, N!Refreshed, N!Propose
    <3>3. ASSUME NEW r \in Reviews,
                 \/ \E i \in DOMAIN nCandidates : N!Open(r, i)
                 \/ \E s \in {"approved", "rejected"} : N!SaveReview(r, s)
                 \/ N!Activate(r) \/ N!ActivationFails(r)
          PROVE  Kept
      BY <3>3 DEF N!Open, N!SaveReview, N!Activate, N!ActivationFails, N!Failure
    <3>4. ASSUME \/ \E c \in Calls : N!Observe(c)
                 \/ \E n \in DOMAIN nImprovements : N!Deactivate(n)
          PROVE  Kept
      BY <3>4 DEF N!Observe, N!Deactivate, N!Failure
    <3> HIDE DEF Kept
    <3>5. Kept
      BY <3>1, <3>2, <3>3, <3>4 DEF N!Next
    <3> QED BY <1>0, <3>5 DEF Kept
  <2> QED BY <2>1 DEF LearningInv
<1>2. ASSUME NEW f \in Feedbacks, NEW v \in Values, N!Propose(f, v) PROVE CandidatesAreApart'
  BY <1>0, <1>1, <1>2, ProposalIsApart
<1>3. ASSUME NEW r \in Reviews, NEW s \in {"approved", "rejected"}, N!SaveReview(r, s)
      PROVE  CandidatesAreApart'
  BY <1>0, <1>1, <1>3, ReviewIsApart
<1>4. ASSUME NEW r \in Reviews, N!ActivationFails(r) PROVE CandidatesAreApart'
  BY <1>0, <1>4 DEF N!ActivationFails, N!Failure
<1> DEFINE Reads == \A g \in Feedbacks : Refreshing(g)' =>
                      \/ Refreshing(g) /\ nHand'[g] = nHand[g]
                      \/ nHand'[g].signals = nCorrected
           Lists == \A g \in Feedbacks : Proposing(g)' => Refreshing(g) /\ nHand'[g] = nHand[g] /\
                      (\/ Proposing(g) /\ nList'[g] = nList[g] /\ nTodo'[g] = nTodo[g]
                       \/ nList'[g] = nCandidates)
           Copies == \A r \in Reviews : nAt'[r] = "deciding" =>
                       \/ nAt[r] = "deciding" /\ nCopy'[r] = nCopy[r]
                       \/ \E i \in DOMAIN nCandidates :
                            /\ Open(nCandidates[i])
                            /\ nCopy'[r] = [id |-> i, candidate |-> nCandidates[i]]
           Still == UNCHANGED nCandidates /\ Reads /\ Lists /\ Copies
<1>5. Still => CandidatesAreApart'
  BY <1>0, <1>1, StillApart
<1>6. ASSUME NEW c \in Calls, N!Observe(c) PROVE Still
  BY <1>6 DEF N!Observe, N!requests, Refreshing, Proposing
<1>7. ASSUME NEW f \in Feedbacks, NEW c \in Calls, NEW v \in Values, N!GiveFeedback(f, c, v)
      PROVE  Still
  BY <1>0, <1>7, LearningIsReviewed
     DEF N!GiveFeedback, N!Move, N!TypeOK, N!Requests, Refreshing, Proposing
<1>8. ASSUME NEW f \in Feedbacks, N!RecordEvidence(f) PROVE Still
  BY <1>0, <1>8, LearningIsReviewed
     DEF N!RecordEvidence, N!Move, N!TypeOK, N!Requests, Refreshing, Proposing
<1>9. ASSUME NEW f \in Feedbacks, N!ReadSignals(f) PROVE Still
  BY <1>0, <1>9, LearningIsReviewed
     DEF N!ReadSignals, N!Move, N!TypeOK, N!Requests, Refreshing, Proposing
<1>10. ASSUME NEW f \in Feedbacks, N!List(f) PROVE Still
  BY <1>0, <1>10, LearningIsReviewed
     DEF N!List, N!Move, N!TypeOK, N!Requests, Refreshing, Proposing
<1>11. ASSUME NEW f \in Feedbacks, N!Refreshed(f) PROVE Still
  BY <1>0, <1>11, LearningIsReviewed
     DEF N!Refreshed, N!Move, N!TypeOK, N!Requests, Refreshing, Proposing
<1>12. ASSUME NEW r \in Reviews, NEW i \in DOMAIN nCandidates, N!Open(r, i) PROVE Still
  <2>1. UNCHANGED nCandidates /\ Reads /\ Lists
    BY <1>0, <1>12, LearningIsReviewed
       DEF N!Open, N!Move, N!TypeOK, N!Requests, Refreshing, Proposing
  <2>2. Copies
    <3>1. Open(nCandidates[i]) /\ nCopy'[r] = [id |-> i, candidate |-> nCandidates[i]]
      BY <1>0, <1>12 DEF N!Open, N!TypeOK, Open
    <3>2. \A q \in Reviews : q = r
      BY LearningIsReviewed
    <3> QED BY <3>1, <3>2
  <2> QED BY <2>1, <2>2
<1>13. ASSUME NEW r \in Reviews, N!Activate(r) PROVE Still
  BY <1>0, <1>13, LearningIsReviewed
     DEF N!Activate, N!Move, N!TypeOK, N!Requests, Refreshing, Proposing
<1>14. ASSUME NEW n \in DOMAIN nImprovements, N!Deactivate(n) PROVE Still
  BY <1>14 DEF N!Deactivate, N!requests, Refreshing, Proposing
<1> HIDE DEF Still
<1> QED BY <1>2, <1>3, <1>4, <1>5, <1>6, <1>7, <1>8, <1>9, <1>10, <1>11, <1>12, <1>13, <1>14
        DEF N!Next

LEMMA LearningSteps == LearningInv /\ N!Next => LearningInv'
<1> SUFFICES ASSUME LearningInv, N!Next PROVE LearningInv'
  OBVIOUS
<1>1. /\ N!TypeOK /\ CorrectionsStand /\ SignalsWereThere /\ CandidatesAreFounded
      /\ N!TypeOK'
  BY LearningTypes DEF LearningInv
<1>2. CorrectionsStand' /\ SignalsWereThere' /\ CandidatesAreFounded'
  BY <1>1, CorrectionsStay, SignalsStay, CandidatesStayFounded
<1>3. nFailures' = 0 => CandidatesAreApart'
  BY CandidatesStayApart
<1> QED BY <1>1, <1>2, <1>3 DEF LearningInv

LEMMA LearningRests == LearningInv /\ UNCHANGED nVars => LearningInv'
<1> SUFFICES ASSUME LearningInv, UNCHANGED nVars PROVE LearningInv'
  OBVIOUS
<1>0. N!TypeOK'
  BY DEF LearningInv, nVars, N!TypeOK, N!Requests, N!Corrections, N!Candidates, N!Statuses
<1>1. CorrectionsStand' /\ SignalsWereThere'
  BY DEF LearningInv, nVars, CorrectionsStand, SignalsWereThere, Recording, Refreshing,
     Within,
         N!Corrections
<1>2. CandidatesAreFounded'
  BY DEF LearningInv, nVars, CandidatesAreFounded, Founded, Proposing, Deciding,
     N!Candidates,
         N!Statuses
<1>3. nFailures' = 0 => CandidatesAreApart'
  BY DEF LearningInv, nVars, CandidatesAreApart, OneIsOpen, OpenIsEarliest, ListIsLate,
     Covered,
         Open, Refreshing, Proposing
<1> QED BY <1>0, <1>1, <1>2, <1>3 DEF LearningInv

LEMMA CandidatesAreProposedOnce == LearningInv => N!ProposedOnce
BY CountsAreCounts
   DEF LearningInv, CandidatesAreApart, CandidatesAreFounded, Founded, N!ProposedOnce

-----------------------------------------------------------------------------
(* Categories                                                               *)

(* What is decided is of a theme or of a row; what is being read is rows;   *)
(* and one thread reads.                                                    *)
AllRows == [G!Keys -> {None} \cup G!Rows]
OfTheme(x) == "theme" \in DOMAIN x /\ x.theme \in Themes /\ x.name \in Names \cup {None}
OfRow(x) == "theme" \notin DOMAIN x /\ x.key \in G!Keys /\ x.entry \in G!Entries
ThreadsHaveTheirOwn ==
    /\ \A d \in Deciders :
         /\ gAt[d] \in {"rest", "saving", "announcing"}
         /\ gAt[d] = "saving" => OfTheme(gCopy[d]) \/ OfRow(gCopy[d])
    /\ \A r \in Readers :
         /\ gAt[r] \in {"rest", "reading", "reading themes"}
         /\ gAt[r] # "rest" => gRefreshing = r
         /\ gAt[r] = "reading themes" => gCopy[r] \in AllRows
    /\ DOMAIN gCopy = G!Threads

Announcing == \E d \in Deciders : gAt[d] = "announcing"

(* A decision made while the rows are read is announced, so what the reader *)
(* holds is stale only while the entries are.                               *)
ReadsAreCurrent ==
    gFresh /\ ~Announcing =>
        /\ gRefreshing = None => gHeld = G!EntriesOf(gManaged, gAccepted)
        /\ \A r \in Readers : gAt[r] = "reading themes" => gCopy[r] = gManaged

CatalogInv ==
    /\ G!TypeOK
    /\ gManaged \in AllRows
    /\ ThreadsHaveTheirOwn
    /\ gFailures = 0 => ReadsAreCurrent

(* The entries made of rows and accepted themes are entries.                *)
LEMMA EntriesAreMade ==
    ASSUME NEW rows \in AllRows, NEW themes \in [Themes -> Names \cup {None}]
    PROVE  G!EntriesOf(rows, themes) \subseteq G!Entries
<1>1. Other \in Names
  BY PartsAssumption DEF G!CategoriesAssumption
<1>2. /\ \A t \in Themes : t \in G!Keys
      /\ \A k \in AdminKeys : k \in G!Keys
      /\ Other \in G!Keys
  BY DEF G!Keys
<1>3. \A k \in G!Keys, row \in G!Rows : G!Entry(k, row) \in G!Entries
  BY DEF G!Entry, G!Rows, G!Entries
<1>4. \A n \in Names : G!Named(n) \in G!Rows
  BY DEF G!Named, G!Rows
<1>5. (rows[Other] # None /\ rows[Other].retired) \in BOOLEAN
  BY <1>2 DEF AllRows, G!Rows
<1>6. [G!Named(Other) EXCEPT !.retired = rows[Other] # None /\ rows[Other].retired] \in G!Rows
  BY <1>1, <1>4, <1>5 DEF G!Rows, G!Named
<1>7. \A t \in Themes : themes[t] # None =>
        (IF rows[t] = None THEN G!Named(themes[t]) ELSE rows[t]) \in G!Rows
  BY <1>2, <1>4 DEF AllRows
<1>8. \A k \in AdminKeys : rows[k] # None => rows[k] \in G!Rows
  BY <1>2 DEF AllRows
<1> QED BY <1>2, <1>3, <1>6, <1>7, <1>8 DEF G!EntriesOf

LEMMA CatalogStarts == G!Init => CatalogInv
<1> SUFFICES ASSUME G!Init PROVE CatalogInv
  OBVIOUS
<1>1. /\ gAccepted \in [Themes -> Names \cup {None}] /\ gManaged \in AllRows
      /\ gHeld = G!EntriesOf(gManaged, gAccepted)
      /\ gFresh = FALSE /\ gHasRead = FALSE /\ gRefreshing = None
      /\ gDecisions = 0 /\ gFailures = 0
  BY DEF G!Init, AllRows
<1>2. gHeld \subseteq G!Entries
  BY <1>1, EntriesAreMade
<1>3. \A k \in G!Keys : gManaged[k] = None \/ gManaged[k] \in G!Rows
  BY <1>1 DEF AllRows
<1>4. gAt = [x \in G!Threads |-> "rest"] /\ gCopy = [x \in G!Threads |-> None]
  BY DEF G!Init
<1>5. gDecisions \in 0..MaxDecisions /\ gFailures \in 0..MaxFailures
  BY <1>1, PartsAssumption DEF G!CategoriesAssumption
<1>6. G!TypeOK
  BY <1>1, <1>2, <1>3, <1>4, <1>5 DEF G!TypeOK
<1>7. ThreadsHaveTheirOwn
  BY <1>4 DEF ThreadsHaveTheirOwn, G!Threads
<1> QED BY <1>1, <1>6, <1>7 DEF CatalogInv, ReadsAreCurrent

(* A decision is kept by the thread that takes it.                          *)
LEMMA DecidingStays ==
    ASSUME CatalogInv, NEW d \in Deciders, NEW x, OfTheme(x) \/ OfRow(x), G!Decide(d, x)
    PROVE  CatalogInv'
<1>1. /\ gAt[d] = "rest" /\ gAt' = [gAt EXCEPT ![d] = "saving"]
      /\ gCopy' = [gCopy EXCEPT ![d] = x]
      /\ gDecisions < MaxDecisions /\ gDecisions' = gDecisions + 1
      /\ UNCHANGED <<gAccepted, gManaged, gHeld, gFresh, gHasRead, gRefreshing, gFailures>>
  BY DEF G!Decide, G!Move, G!stored, G!catalog
<1>2. G!TypeOK /\ gManaged \in AllRows /\ ThreadsHaveTheirOwn
  BY DEF CatalogInv
<1>3. gDecisions' \in 0..MaxDecisions
  <2>1. MaxDecisions \in Nat
    BY PartsAssumption DEF G!CategoriesAssumption
  <2>2. gDecisions \in 0..MaxDecisions
    BY <1>2 DEF G!TypeOK
  <2> QED BY <1>1, <2>1, <2>2
<1>4. gAt' \in [G!Threads -> {"rest", "saving", "announcing", "reading", "reading themes"}]
  BY <1>1, <1>2 DEF G!TypeOK
<1>5. G!TypeOK' /\ gManaged' \in AllRows
  BY <1>1, <1>2, <1>3, <1>4 DEF G!TypeOK, G!Keys, G!Rows, G!Entries, G!Threads
<1>6. /\ gAt'[d] = "saving" /\ gCopy'[d] = x /\ DOMAIN gCopy' = G!Threads
      /\ \A y \in G!Threads : y # d => gAt'[y] = gAt[y] /\ gCopy'[y] = gCopy[y]
  BY <1>1, <1>2 DEF G!TypeOK, ThreadsHaveTheirOwn, G!Threads
<1>7. \A r \in Readers : gAt'[r] = gAt[r] /\ gCopy'[r] = gCopy[r]
  BY <1>6, DecidersDoNotRead DEF G!Threads
<1>8. ThreadsHaveTheirOwn'
  BY <1>1, <1>2, <1>6, <1>7
     DEF ThreadsHaveTheirOwn, G!Threads, AllRows, G!Keys, G!Rows, OfTheme, OfRow, G!Entries
<1>9. Announcing => Announcing'
  BY <1>1, <1>6 DEF Announcing, G!Threads
<1>10. gFailures' = 0 => ReadsAreCurrent'
  BY <1>1, <1>7, <1>9 DEF CatalogInv, ReadsAreCurrent
<1> QED BY <1>5, <1>8, <1>10 DEF CatalogInv, AllRows, G!Keys, G!Rows

\* What administrators and supervisors ask for.
LEMMA DecisionsAreAllowed ==
    ASSUME CatalogInv, NEW d \in Deciders,
           \/ \E t \in Themes : G!Withdraw(d, t) \/ \E n \in Names : G!Accept(d, t, n)
           \/ \E k \in AdminKeys, n \in Names : G!Add(d, k, n)
           \/ \E e \in G!EntriesOf(gManaged, gAccepted) :
                \/ \E n \in Names : G!Rename(d, e, n)
                \/ \E retired \in BOOLEAN : G!Retire(d, e, retired)
                \/ G!Describe(d, e)
    PROVE  CatalogInv'
<1>1. \A e \in G!EntriesOf(gManaged, gAccepted) : e \in G!Entries
  BY EntriesAreMade DEF CatalogInv, G!TypeOK
<1>2. \A x : (OfTheme(x) \/ OfRow(x)) /\ G!Decide(d, x) => CatalogInv'
  BY DecidingStays
<1> HIDE DEF CatalogInv
<1>3. ASSUME NEW t \in Themes, G!Withdraw(d, t) \/ \E n \in Names : G!Accept(d, t, n)
      PROVE  CatalogInv'
  <2>1. \A n \in Names \cup {None} : OfTheme([theme |-> t, name |-> n])
    BY DEF OfTheme
  <2> QED BY <1>2, <1>3, <2>1 DEF G!Withdraw, G!Accept
<1>4. ASSUME NEW k \in AdminKeys, NEW n \in Names, G!Add(d, k, n) PROVE CatalogInv'
  <2>1. OfRow([key |-> k, entry |-> G!Entry(k, G!Named(n)), fields |-> {}])
    BY DEF OfRow, G!Entry, G!Named, G!Entries, G!Keys
  <2> QED BY <1>2, <1>4, <2>1 DEF G!Add
<1>5. ASSUME NEW e \in G!EntriesOf(gManaged, gAccepted), NEW n \in Names, G!Rename(d, e, n)
      PROVE  CatalogInv'
  <2> DEFINE entry == [e EXCEPT !.name = n, !.former = (e.former \cup {e.name}) \ {n}]
             x == [key |-> e.key, fields |-> {"name", "former"}, entry |-> entry]
  <2>1. entry \in G!Entries /\ e.key \in G!Keys
    BY <1>1, <1>5 DEF G!Entries
  <2>2. OfRow(x)
    BY <2>1 DEF OfRow
  <2>3. G!Decide(d, x)
    BY <1>5 DEF G!Rename
  <2> QED BY <1>2, <2>2, <2>3
<1>6. ASSUME NEW e \in G!EntriesOf(gManaged, gAccepted), NEW retired \in BOOLEAN,
             G!Retire(d, e, retired)
      PROVE  CatalogInv'
  <2> DEFINE x == [key |-> e.key, fields |-> {"retired"}, entry |-> [e EXCEPT !.retired = retired]]
  <2>1. OfRow(x)
    BY <1>1, <1>6 DEF OfRow, G!Entries
  <2>2. G!Decide(d, x)
    BY <1>6 DEF G!Retire
  <2> QED BY <1>2, <2>1, <2>2
<1>7. ASSUME NEW e \in G!EntriesOf(gManaged, gAccepted), G!Describe(d, e) PROVE CatalogInv'
  <2> DEFINE x == [key |-> e.key, fields |-> {}, entry |-> e]
  <2>1. OfRow(x)
    BY <1>1, <1>7 DEF OfRow, G!Entries
  <2>2. G!Decide(d, x)
    BY <1>7 DEF G!Describe
  <2> QED BY <1>2, <2>1, <2>2
<1> QED BY <1>3, <1>4, <1>5, <1>6, <1>7

(* A row keeps the fields nobody asked to change.                           *)
LEMMA MergedIsARow ==
    ASSUME gManaged \in AllRows, NEW key \in G!Keys, NEW entry \in G!Entries, NEW fields
    PROVE  G!Merged(key, entry, fields) \in G!Rows
<1> DEFINE row == IF gManaged[key] = None THEN entry ELSE gManaged[key]
           f(x) == IF x \in fields THEN entry[x] ELSE row[x]
<1>1. /\ entry.name \in Names /\ entry.former \in SUBSET Names /\ entry.retired \in BOOLEAN
      /\ row.name \in Names /\ row.former \in SUBSET Names /\ row.retired \in BOOLEAN
  BY DEF AllRows, G!Rows, G!Entries
<1>2. f("name") \in Names /\ f("former") \in SUBSET Names /\ f("retired") \in BOOLEAN
  BY <1>1
<1>3. G!Merged(key, entry, fields) = [x \in {"name", "former", "retired"} |-> f(x)]
  BY DEF G!Merged
<1> HIDE DEF f
<1>4. [x \in {"name", "former", "retired"} |-> f(x)]
        = [name |-> f("name"), former |-> f("former"), retired |-> f("retired")]
  OBVIOUS
<1> QED BY <1>2, <1>3, <1>4 DEF G!Rows

\* A decision is stored, and then announced.
LEMMA DecisionsAreStored ==
    ASSUME CatalogInv, NEW d \in Deciders, G!Save(d) \/ G!Announce(d)
    PROVE  CatalogInv'
<1>1. /\ G!TypeOK /\ gManaged \in AllRows /\ ThreadsHaveTheirOwn
      /\ gFailures = 0 => ReadsAreCurrent
  BY DEF CatalogInv
<1>2. CASE G!Save(d)
  <2>1. /\ gAt[d] = "saving" /\ gAt' = [gAt EXCEPT ![d] = "announcing"]
        /\ gCopy' = [gCopy EXCEPT ![d] = None]
        /\ UNCHANGED <<gHeld, gFresh, gHasRead, gRefreshing, gDecisions, gFailures>>
    BY <1>2 DEF G!Save, G!Move, G!catalog
  <2>2. /\ gAt'[d] = "announcing" /\ DOMAIN gCopy' = G!Threads
        /\ \A y \in G!Threads : y # d => gAt'[y] = gAt[y] /\ gCopy'[y] = gCopy[y]
        /\ gAt' \in [G!Threads -> {"rest", "saving", "announcing", "reading", "reading themes"}]
    BY <1>1, <2>1 DEF G!TypeOK, ThreadsHaveTheirOwn, G!Threads
  <2>3. \A r \in Readers : gAt'[r] = gAt[r] /\ gCopy'[r] = gCopy[r]
    BY <2>2, DecidersDoNotRead DEF G!Threads
  <2>4. gAccepted' \in [Themes -> Names \cup {None}] /\ gManaged' \in AllRows
    <3>1. CASE "theme" \in DOMAIN gCopy[d]
      <4>1. OfTheme(gCopy[d])
        BY <1>1, <2>1, <3>1 DEF ThreadsHaveTheirOwn, OfRow
      <4> QED BY <1>1, <1>2, <3>1, <4>1 DEF G!Save, OfTheme, G!TypeOK
    <3>2. CASE "theme" \notin DOMAIN gCopy[d]
      <4>1. OfRow(gCopy[d])
        BY <1>1, <2>1, <3>2 DEF ThreadsHaveTheirOwn, OfTheme
      <4>2. G!Merged(gCopy[d].key, gCopy[d].entry, gCopy[d].fields) \in G!Rows
        BY <1>1, <4>1, MergedIsARow DEF OfRow
      <4> QED BY <1>1, <1>2, <3>2, <4>1, <4>2 DEF G!Save, OfRow, G!TypeOK, AllRows
    <3> QED BY <3>1, <3>2
  <2>5. \A k \in G!Keys : gManaged'[k] = None \/ gManaged'[k] \in G!Rows
    BY <2>4 DEF AllRows
  <2>6. G!TypeOK'
    BY <1>1, <2>1, <2>2, <2>4, <2>5 DEF G!TypeOK, G!Keys, G!Rows, G!Entries, G!Threads
  <2>7. ThreadsHaveTheirOwn'
    BY <1>1, <2>1, <2>2, <2>3
       DEF ThreadsHaveTheirOwn, G!Threads, AllRows, G!Keys, G!Rows, OfTheme, OfRow, G!Entries
  <2>8. Announcing'
    BY <2>2 DEF Announcing
  <2> QED BY <2>4, <2>6, <2>7, <2>8 DEF CatalogInv, ReadsAreCurrent, AllRows, G!Keys, G!Rows
<1>3. CASE G!Announce(d)
  <2>1. /\ gAt[d] = "announcing" /\ gAt' = [gAt EXCEPT ![d] = "rest"] /\ gFresh' = FALSE
        /\ UNCHANGED <<gAccepted, gManaged, gHeld, gHasRead, gRefreshing, gCopy, gDecisions,
                       gFailures>>
    BY <1>3 DEF G!Announce, G!Move, G!stored
  <2>2. /\ gAt'[d] = "rest"
        /\ \A y \in G!Threads : y # d => gAt'[y] = gAt[y]
        /\ gAt' \in [G!Threads -> {"rest", "saving", "announcing", "reading", "reading themes"}]
    BY <1>1, <2>1 DEF G!TypeOK, G!Threads
  <2>3. \A r \in Readers : gAt'[r] = gAt[r]
    BY <2>2, DecidersDoNotRead DEF G!Threads
  <2>4. G!TypeOK'
    BY <1>1, <2>1, <2>2 DEF G!TypeOK, G!Keys, G!Rows, G!Entries, G!Threads
  <2>5. ThreadsHaveTheirOwn'
    BY <1>1, <2>1, <2>2, <2>3
       DEF ThreadsHaveTheirOwn, G!Threads, AllRows, G!Keys, G!Rows, OfTheme, OfRow, G!Entries
  <2> QED BY <1>1, <2>1, <2>4, <2>5 DEF CatalogInv, ReadsAreCurrent, AllRows, G!Keys, G!Rows
<1> QED BY <1>2, <1>3

(* A thread reads the rows, then the accepted themes, and holds the entries.*)
LEMMA EntriesAreRead ==
    ASSUME CatalogInv, NEW r \in Readers,
           G!Refresh(r) \/ G!ReadManaged(r) \/ G!Hold(r) \/ G!ReadFails(r)
    PROVE  CatalogInv'
<1>1. /\ G!TypeOK /\ gManaged \in AllRows /\ ThreadsHaveTheirOwn
      /\ gFailures = 0 => ReadsAreCurrent
  BY DEF CatalogInv
<1>2. r # None /\ \A d \in Deciders : d # r
  BY NoneIsNothing, DecidersDoNotRead
<1> DEFINE Stages == {"rest", "reading", "reading themes"}
           Moves(stage) ==
             /\ gAt' = [gAt EXCEPT ![r] = stage]
             /\ \A y \in G!Threads : y # r => gCopy'[y] = gCopy[y]
             /\ DOMAIN gCopy' = G!Threads
             /\ UNCHANGED <<gAccepted, gManaged, gDecisions>>
\* The other threads have what they had.
<1>3. ASSUME NEW stage \in Stages, Moves(stage),
             stage # "rest" => gRefreshing' = r,
             gRefreshing' \in Readers \cup {None},
             gFresh' \in BOOLEAN /\ gHasRead' \in BOOLEAN /\ gHeld' \subseteq G!Entries,
             gFailures' \in 0..MaxFailures,
             stage = "reading themes" => gCopy'[r] \in AllRows,
             \A q \in Readers : q # r => gAt[q] = "rest"
      PROVE  /\ G!TypeOK' /\ gManaged' \in AllRows /\ ThreadsHaveTheirOwn'
             /\ (Announcing' <=> Announcing)
             /\ gAt'[r] = stage
             /\ \A q \in Readers : q # r => gAt'[q] = "rest"
  <2>1. /\ gAt' \in [G!Threads -> {"rest", "saving", "announcing", "reading", "reading themes"}]
        /\ gAt'[r] = stage
        /\ \A y \in G!Threads : y # r => gAt'[y] = gAt[y]
    BY <1>1, <1>3 DEF G!TypeOK, G!Threads
  <2>2. G!TypeOK'
    BY <1>1, <1>3, <2>1 DEF G!TypeOK, G!Keys, G!Rows, G!Entries, G!Threads
  <2>3. \A d \in Deciders : gAt'[d] = gAt[d] /\ gCopy'[d] = gCopy[d]
    BY <1>2, <1>3, <2>1 DEF G!Threads
  <2>4. \A q \in Readers : q # r => gAt'[q] = "rest"
    BY <1>3, <2>1 DEF G!Threads
  <2>5. ThreadsHaveTheirOwn'
    BY <1>1, <1>3, <2>1, <2>3, <2>4
       DEF ThreadsHaveTheirOwn, G!Threads, AllRows, G!Keys, G!Rows, OfTheme, OfRow, G!Entries
  <2>6. Announcing' <=> Announcing
    BY <2>3 DEF Announcing
  <2> QED BY <1>1, <1>3, <2>1, <2>2, <2>4, <2>5, <2>6
<1>4. gFresh \in BOOLEAN /\ gHasRead \in BOOLEAN /\ gHeld \subseteq G!Entries
      /\ gFailures \in 0..MaxFailures /\ gRefreshing \in Readers \cup {None}
      /\ \A q \in Readers : gAt[q] # "rest" => gRefreshing = q
  BY <1>1 DEF G!TypeOK, ThreadsHaveTheirOwn
<1>5. CASE G!Refresh(r)
  <2>1. Moves("reading") /\ gRefreshing = None /\ gRefreshing' = r /\ gFresh' = TRUE
        /\ UNCHANGED <<gHeld, gHasRead, gFailures>>
    BY <1>1, <1>5 DEF G!Refresh, G!Move, G!stored, ThreadsHaveTheirOwn
  <2>2. \A q \in Readers : gAt[q] = "rest"
    BY <1>4, <2>1, NoneIsNothing
  <2>3. /\ G!TypeOK' /\ gManaged' \in AllRows /\ ThreadsHaveTheirOwn'
        /\ gAt'[r] = "reading" /\ \A q \in Readers : q # r => gAt'[q] = "rest"
    BY <1>3, <1>4, <2>1, <2>2
  <2>4. ReadsAreCurrent'
    BY <1>2, <2>1, <2>3 DEF ReadsAreCurrent
  <2> QED BY <2>3, <2>4 DEF CatalogInv, AllRows, G!Keys, G!Rows
<1>6. CASE G!ReadManaged(r)
  <2>1. Moves("reading themes") /\ gAt[r] = "reading"
        /\ gCopy'[r] = gManaged
        /\ UNCHANGED <<gHeld, gFresh, gHasRead, gRefreshing, gFailures>>
    BY <1>1, <1>6 DEF G!ReadManaged, G!Move, G!stored, G!catalog, ThreadsHaveTheirOwn,
       G!Threads
  <2>2. gRefreshing = r /\ \A q \in Readers : q # r => gAt[q] = "rest"
    BY <1>4, <2>1
  <2>3. /\ G!TypeOK' /\ gManaged' \in AllRows /\ ThreadsHaveTheirOwn'
        /\ \A q \in Readers : q # r => gAt'[q] = "rest"
    BY <1>1, <1>3, <1>4, <2>1, <2>2
  <2>4. ReadsAreCurrent'
    BY <1>2, <2>1, <2>2, <2>3 DEF ReadsAreCurrent
  <2> QED BY <2>3, <2>4 DEF CatalogInv, AllRows, G!Keys, G!Rows
<1>7. CASE G!Hold(r)
  <2>1. Moves("rest") /\ gAt[r] = "reading themes"
        /\ gHeld' = G!EntriesOf(gCopy[r], gAccepted) /\ gHasRead' = TRUE /\ gRefreshing' = None
        /\ UNCHANGED <<gFresh, gFailures>>
    BY <1>1, <1>7 DEF G!Hold, G!Move, G!stored, ThreadsHaveTheirOwn, G!Threads
  <2>2. gRefreshing = r /\ \A q \in Readers : q # r => gAt[q] = "rest"
    BY <1>4, <2>1
  <2>3. gHeld' \subseteq G!Entries
    BY <1>1, <2>1, EntriesAreMade DEF ThreadsHaveTheirOwn, G!TypeOK
  <2>4. /\ G!TypeOK' /\ gManaged' \in AllRows /\ ThreadsHaveTheirOwn'
        /\ (Announcing' <=> Announcing)
        /\ \A q \in Readers : gAt'[q] = "rest"
    BY <1>1, <1>3, <1>4, <2>1, <2>2, <2>3
  <2>5. gFailures' = 0 => ReadsAreCurrent'
    BY <1>1, <2>1, <2>4 DEF ReadsAreCurrent
  <2> QED BY <2>4, <2>5 DEF CatalogInv, AllRows, G!Keys, G!Rows
<1>8. CASE G!ReadFails(r)
  <2>1. Moves("rest") /\ gAt[r] # "rest"
        /\ gRefreshing' = None /\ gFailures < MaxFailures /\ gFailures' = gFailures + 1
        /\ UNCHANGED <<gHeld, gFresh, gHasRead>>
    BY <1>1, <1>8
       DEF G!ReadFails, G!Failure, G!Move, G!stored, ThreadsHaveTheirOwn, G!Threads
  <2>2. gRefreshing = r /\ \A q \in Readers : q # r => gAt[q] = "rest"
    BY <1>4, <2>1
  <2>3. gFailures' \in 0..MaxFailures /\ gFailures' # 0
    <3>1. MaxFailures \in Nat
      BY PartsAssumption DEF G!CategoriesAssumption
    <3> QED BY <1>4, <2>1, <3>1
  <2>4. G!TypeOK' /\ gManaged' \in AllRows /\ ThreadsHaveTheirOwn'
    BY <1>1, <1>3, <1>4, <2>1, <2>2, <2>3
  <2> QED BY <2>3, <2>4 DEF CatalogInv, AllRows, G!Keys, G!Rows
<1> QED BY <1>5, <1>6, <1>7, <1>8

LEMMA CatalogSteps == CatalogInv /\ G!Next => CatalogInv'
<1> SUFFICES ASSUME CatalogInv, G!Next PROVE CatalogInv'
  OBVIOUS
<1>1. ASSUME G!CacheAges PROVE CatalogInv'
  <2>1. G!TypeOK' /\ gManaged' \in AllRows
    BY <1>1 DEF CatalogInv, G!CacheAges, G!stored, G!TypeOK, G!Keys, G!Rows, G!Entries,
                G!Threads, AllRows
  <2>2. ThreadsHaveTheirOwn'
    BY <1>1 DEF CatalogInv, G!CacheAges, G!stored, ThreadsHaveTheirOwn, G!Threads, AllRows,
                G!Keys, G!Rows, OfTheme, OfRow, G!Entries
  <2> QED BY <1>1, <2>1, <2>2 DEF CatalogInv, G!CacheAges, ReadsAreCurrent
<1> HIDE DEF CatalogInv
<1> QED BY <1>1, DecisionsAreAllowed, DecisionsAreStored, EntriesAreRead DEF G!Next

LEMMA CatalogRests == CatalogInv /\ UNCHANGED gVars => CatalogInv'
<1> SUFFICES ASSUME CatalogInv, UNCHANGED gVars PROVE CatalogInv'
  OBVIOUS
<1>1. G!TypeOK' /\ gManaged' \in AllRows
  BY DEF CatalogInv, gVars, G!TypeOK, G!Keys, G!Rows, G!Entries, G!Threads, AllRows
<1>2. ThreadsHaveTheirOwn'
  BY DEF CatalogInv, gVars, ThreadsHaveTheirOwn, G!Threads, AllRows, G!Keys, G!Rows,
     OfTheme,
         OfRow, G!Entries
<1>3. Announcing' <=> Announcing
  BY DEF gVars, Announcing
<1> QED BY <1>1, <1>2, <1>3 DEF CatalogInv, gVars, ReadsAreCurrent

LEMMA ChangesShow == CatalogInv => G!ChangesShowAtOnce
BY DEF CatalogInv, ReadsAreCurrent, Announcing, G!ChangesShowAtOnce

-----------------------------------------------------------------------------
(* Recordings                                                               *)

(* What a recording holds is a call's frames, and, unless it was cut, every *)
(* word of it that was heard live.                                          *)
Recs == [audio : Seq(Nat), truncated : BOOLEAN]
WordsIn(audio) == {audio[i] : i \in K!Loud(audio, 1, Len(audio))}
HoldsTheCall(recording, live) == recording.truncated \/ live \subseteq WordsIn(recording.audio)

(* A call that comes in one stream is recorded once, and nothing is kept of *)
(* it before its stream is over.                                            *)
StreamIsOne ==
    /\ kSocket \in [Sockets -> [open : BOOLEAN, buffers : BOOLEAN, recording : {None} \cup Recs]]
    /\ kStreams \in [begun : Nat, frames : Nat]
    /\ \A s \in Sockets : kSocket[s].recording # None =>
         /\ kSocket[s].buffers /\ kHeld = None /\ kJobs = {} /\ kRow = None
    /\ \A s, t \in Sockets : kSocket[s].buffers /\ kSocket[t].buffers => s = t
    /\ kStreams.begun = 0 =>
         /\ \A s \in Sockets : ~kSocket[s].buffers
         /\ kLive = {} /\ kHeld = None /\ kJobs = {} /\ kRow = None

(* The recording in the store is of a stream that is over, and the          *)
(* transcript has all that was heard.                                       *)
HeldIsTheCall ==
    /\ kHeld \in {None} \cup Recs
    /\ kHeld # None => HoldsTheCall(kHeld, kLive) /\ \A s \in Sockets : ~kSocket[s].buffers
    /\ \A s \in Sockets :
         kSocket[s].recording # None => HoldsTheCall(kSocket[s].recording, kLive)
    /\ kLive \subseteq kTranscript

(* One recording is archived, its file before its row; and the file goes    *)
(* once the row's day has come.                                             *)
FileIsTheRows ==
    /\ kClock \in Nat
    /\ \A j \in kJobs : j \in [recording : Recs, at : {"check", "file", "row"}]
    /\ \A i, j \in kJobs : i = j
    /\ \A j \in kJobs : j.at = "row" => kFile = Len(j.recording.audio)
    /\ kRow # None => kJobs = {} /\ kRow \in [length : Nat, until : Nat, deleted : {None} \cup Nat]
    /\ kSweep # None => /\ kRow # None /\ kSweep.row = kRow /\ kSweep.now \in Nat
                        /\ kRow.until <= kClock
    /\ K!KeptIsPlayable

RecordingInv == StreamIsOne /\ HeldIsTheCall /\ FileIsTheRows

(* The windows a recording is transcribed in, from the frame p on: where    *)
(* the first of them starts, where it ends, and whether it is one.          *)
FirstLoud(audio, p) == K!Earliest(K!Loud(audio, p, Len(audio)))
WindowStart(audio, p) ==
    IF FirstLoud(audio, p) - LeadIn > p THEN FirstLoud(audio, p) - LeadIn ELSE p
WindowLimit(audio, p) ==
    IF WindowStart(audio, p) + Window > Len(audio) + 1 THEN Len(audio) + 1
    ELSE WindowStart(audio, p) + Window
WindowEnd(audio, p) ==
    IF WindowLimit(audio, p) > Len(audio) THEN WindowLimit(audio, p)
    ELSE K!CutPoint(audio, WindowStart(audio, p) + Window \div 2, WindowLimit(audio, p))
WindowAt(audio, p) ==
    IF K!Loud(audio, WindowStart(audio, p), WindowEnd(audio, p) - 1) # {}
    THEN {<<WindowStart(audio, p), WindowEnd(audio, p)>>} ELSE {}

(* Such windows, from the frames in P on                                    *)
AreWindows(f, audio, P) ==
    f = [p \in P |->
           IF K!Loud(audio, p, Len(audio)) = {} THEN {}
           ELSE WindowAt(audio, p) \cup f[WindowEnd(audio, p)]]

LEMMA WindowsAre ==
    ASSUME NEW audio
    PROVE  K!Windows(audio) = (CHOOSE f : AreWindows(f, audio, 1..(Len(audio) + 1)))[1]
BY DEF K!Windows, AreWindows, FirstLoud, WindowStart, WindowLimit, WindowEnd, WindowAt

LEMMA WindowConstants ==
    /\ Window \in Nat \ {0} /\ LeadIn \in Nat
    /\ Window \div 2 \in Nat /\ Window \div 2 > LeadIn /\ Window \div 2 <= Window
<1>1. K!RecordingsAssumption
  BY PartsAssumption
<1>2. Window \in Nat \ {0} /\ LeadIn \in Nat /\ Window \div 2 > LeadIn
  BY <1>1 DEF K!RecordingsAssumption
<1>3. Window \div 2 \in Nat /\ Window \div 2 <= Window
  BY <1>2
<1> QED BY <1>2, <1>3

\* The earliest of some numbers is one of them, and none is earlier.
LEMMA EarliestIs ==
    ASSUME NEW X, \A z \in X : z \in Nat, X # {}
    PROVE  K!Earliest(X) \in X /\ \A y \in X : K!Earliest(X) <= y
BY SomeIsLeast DEF K!Earliest

\* A window is cut within the frames it may be cut in.
LEMMA CutWithin ==
    ASSUME NEW audio, NEW first \in Nat, NEW limit \in Nat, first <= limit
    PROVE  K!CutPoint(audio, first, limit) \in Nat
           /\ first <= K!CutPoint(audio, first, limit) /\ K!CutPoint(audio, first, limit) <= limit
<1> DEFINE pauses == K!Pauses(audio, first, limit)
           longest == {p \in pauses : \A q \in pauses : q[2] <= p[2]}
           start == K!Earliest({p[1] : p \in longest})
           length == (CHOOSE p \in longest : p[1] = start)[2]
<1>1. ASSUME NEW p \in pauses
      PROVE  /\ p[1] \in Nat /\ p[2] \in Nat /\ first <= p[1] /\ p[1] + p[2] <= limit
  <2>1. p \in {<<a, n>> : a \in first..(limit - 1), n \in 1..Window} /\ p[1] + p[2] <= limit
    BY <1>1 DEF K!Pauses
  <2>2. PICK a \in first..(limit - 1), n \in 1..Window : p = <<a, n>>
    BY <2>1
  <2> QED BY <2>1, <2>2, WindowConstants
<1>2. K!CutPoint(audio, first, limit) = IF pauses = {} THEN limit ELSE start + length \div 2
  BY DEF K!CutPoint
<1>3. CASE pauses = {}
  BY <1>2, <1>3
<1>4. CASE pauses # {}
  <2> HIDE DEF pauses
  <2>1. longest # {}
    <3> DEFINE Short == {limit - p[2] : p \in pauses}
    <3>1. \A z \in Short : z \in Nat
      BY <1>1
    <3>2. Short # {}
      BY <1>4
    <3> HIDE DEF Short
    <3>3. PICK x \in Short : \A y \in Short : x =< y
      BY <3>1, <3>2, SomeIsLeast
    <3>4. PICK p \in pauses : x = limit - p[2]
      BY DEF Short
    <3>5. \A q \in pauses : q[2] <= p[2]
      <4> TAKE q \in pauses
      <4>1. limit - q[2] \in Short
        BY DEF Short
      <4>2. x <= limit - q[2]
        BY <3>3, <4>1
      <4>3. q[2] \in Nat /\ p[2] \in Nat
        BY <1>1, <3>4
      <4> QED BY <3>4, <4>2, <4>3
    <3> QED BY <3>4, <3>5
  <2>2. start \in {p[1] : p \in longest}
    <3> DEFINE X == {p[1] : p \in longest}
    <3>1. X # {} /\ \A z \in X : z \in Nat
      BY <1>1, <2>1
    <3> HIDE DEF X
    <3>2. K!Earliest(X) \in X
      BY <3>1, EarliestIs
    <3> QED BY <3>2 DEF X
  <2> HIDE DEF start
  <2>3. PICK p \in longest : p[1] = start /\ length = p[2]
    BY <2>2
  <2>4. p \in pauses
    BY <2>3
  <2> HIDE DEF length, longest
  <2>5. /\ start \in Nat /\ length \in Nat /\ first <= start /\ start + length <= limit
    BY <1>1, <2>3, <2>4
  <2>6. length \div 2 \in Nat /\ length \div 2 <= length
    BY <2>5
  <2> QED BY <1>2, <1>4, <2>5, <2>6
<1> QED BY <1>3, <1>4

(* A window begins no later than the first word still to come, and is of    *)
(* some frames and no more than may be.                                     *)
LEMMA WindowIs ==
    ASSUME NEW audio \in Seq(Nat), NEW p \in 1..(Len(audio) + 1),
           K!Loud(audio, p, Len(audio)) # {}
    PROVE  /\ WindowStart(audio, p) \in Nat /\ WindowEnd(audio, p) \in Nat
           /\ p <= WindowStart(audio, p) /\ WindowStart(audio, p) < WindowEnd(audio, p)
           /\ WindowEnd(audio, p) <= Len(audio) + 1
           /\ WindowEnd(audio, p) - WindowStart(audio, p) <= Window
           /\ \A i \in p..Len(audio) : audio[i] # 0 => WindowStart(audio, p) <= i
<1> DEFINE n == Len(audio)
           first == FirstLoud(audio, p)
           a == WindowStart(audio, p)
           limit == WindowLimit(audio, p)
           b == WindowEnd(audio, p)
<1>1. n \in Nat /\ p \in Nat /\ 1 <= p
  OBVIOUS
<1>2. first \in K!Loud(audio, p, n) /\ \A i \in K!Loud(audio, p, n) : first <= i
  <2>1. \A z \in K!Loud(audio, p, n) : z \in Nat
    BY <1>1 DEF K!Loud
  <2> QED BY <2>1, EarliestIs DEF FirstLoud
<1>3. first \in p..n /\ \A i \in p..n : audio[i] # 0 => first <= i
  BY <1>2 DEF K!Loud
<1> HIDE DEF n, first
<1>4. a = IF first - LeadIn > p THEN first - LeadIn ELSE p
  BY DEF WindowStart, first
<1>5. limit = IF a + Window > n + 1 THEN n + 1 ELSE a + Window
  BY DEF WindowLimit, n
<1>6. b = IF limit > n THEN limit ELSE K!CutPoint(audio, a + Window \div 2, limit)
  BY DEF WindowEnd, n
<1> HIDE DEF a, limit, b
<1>7. /\ a \in Nat /\ p <= a /\ a <= first /\ first <= a + LeadIn
  BY <1>1, <1>3, <1>4, WindowConstants
<1>8. /\ limit \in Nat /\ first < limit /\ limit <= n + 1 /\ limit - a <= Window
      /\ limit <= n => limit = a + Window
  BY <1>1, <1>3, <1>5, <1>7, WindowConstants
<1>9. b \in Nat /\ a < b /\ b <= limit
  <2>1. CASE limit > n
    BY <1>3, <1>6, <1>7, <1>8, <2>1
  <2>2. CASE ~(limit > n)
    <3> DEFINE c == a + Window \div 2
    <3>1. c \in Nat /\ c <= limit /\ a < c
      BY <1>1, <1>7, <1>8, <2>2, WindowConstants
    <3>2. b = K!CutPoint(audio, c, limit)
      BY <1>6, <2>2
    <3> HIDE DEF c
    <3> QED BY <1>7, <1>8, <3>1, <3>2, CutWithin
  <2> QED BY <2>1, <2>2
<1>10. \A i \in p..n : audio[i] # 0 => a <= i
  BY <1>1, <1>3, <1>7
<1>11. b <= n + 1 /\ b - a <= Window
  BY <1>1, <1>7, <1>8, <1>9, WindowConstants
<1> QED BY <1>7, <1>9, <1>10, <1>11 DEF a, b, n

(* Such windows there are: none from past the last word on, and before it   *)
(* those that are cut from where the first of them ends.                    *)
LEMMA WindowsFrom ==
    ASSUME NEW audio \in Seq(Nat)
    PROVE  \A p \in 1..(Len(audio) + 1) : \E f : AreWindows(f, audio, p..(Len(audio) + 1))
<1> DEFINE n == Len(audio)
           Has(p) == \E f : AreWindows(f, audio, p..(n + 1))
           Later == {n + 1 - p : p \in {q \in 1..(n + 1) : ~Has(q)}}
<1>1. n \in Nat
  OBVIOUS
<1>2. SUFFICES ASSUME Later # {} PROVE FALSE
  <2>1. Later = {} => \A p \in 1..(n + 1) : Has(p)
    OBVIOUS
  <2> HIDE DEF Later
  <2> QED BY <1>2, <2>1
<1>3. \A z \in Later : z \in Nat
  BY <1>1
<1> HIDE DEF Later
<1>4. PICK least \in Later : \A y \in Later : least =< y
  BY <1>2, <1>3, SomeIsLeast
<1>5. PICK p \in 1..(n + 1) : ~Has(p) /\ least = n + 1 - p
  BY <1>4 DEF Later
<1>6. ASSUME NEW q \in 1..(n + 1), q > p PROVE Has(q)
  <2>1. ~Has(q) => n + 1 - q \in Later
    BY <1>6 DEF Later
  <2> HIDE DEF Has
  <2> QED BY <1>1, <1>4, <1>5, <1>6, <2>1
<1>7. \E g : \A m \in (p + 1)..(n + 1) :
        g[m] = IF K!Loud(audio, m, n) = {} THEN {} ELSE WindowAt(audio, m) \cup g[WindowEnd(audio, m)]
  <2>1. CASE p = n + 1
    BY <1>1, <2>1
  <2>2. CASE p # n + 1
    <3>1. Has(p + 1)
      BY <1>1, <1>5, <1>6, <2>2
    <3>2. PICK g : AreWindows(g, audio, (p + 1)..(n + 1))
      BY <3>1
    <3>3. \A m \in (p + 1)..(n + 1) :
            g[m] = IF K!Loud(audio, m, n) = {} THEN {}
                   ELSE WindowAt(audio, m) \cup g[WindowEnd(audio, m)]
      BY <3>2 DEF AreWindows
    <3> QED BY <3>3
  <2> QED BY <2>1, <2>2
<1>8. PICK g : \A m \in (p + 1)..(n + 1) :
        g[m] = IF K!Loud(audio, m, n) = {} THEN {} ELSE WindowAt(audio, m) \cup g[WindowEnd(audio, m)]
  BY <1>7
<1> DEFINE f == [m \in p..(n + 1) |->
                   IF K!Loud(audio, m, n) = {} THEN {}
                   ELSE WindowAt(audio, m) \cup g[WindowEnd(audio, m)]]
<1>9. ASSUME NEW m \in p..(n + 1), K!Loud(audio, m, n) # {}
      PROVE  f[WindowEnd(audio, m)] = g[WindowEnd(audio, m)]
  <2>1. m \in 1..(n + 1)
    BY <1>1, <1>5, <1>9
  <2>2. WindowEnd(audio, m) \in (p + 1)..(n + 1)
    BY <1>1, <1>5, <1>9, <2>1, WindowIs
  <2> DEFINE e == WindowEnd(audio, m)
  <2>3. e \in p..(n + 1) /\ e \in (p + 1)..(n + 1)
    BY <1>1, <1>5, <2>2
  <2> HIDE DEF e
  <2>4. f[e] = g[e]
    BY <1>8, <2>3
  <2> QED BY <2>4 DEF e
<1>10. f = [m \in p..(n + 1) |->
              IF K!Loud(audio, m, n) = {} THEN {}
              ELSE WindowAt(audio, m) \cup f[WindowEnd(audio, m)]]
  BY <1>9
<1>11. AreWindows(f, audio, p..(n + 1))
  <2> HIDE DEF f
  <2> QED BY <1>10 DEF AreWindows
<1> QED BY <1>5, <1>11

LEMMA WindowsAreCut ==
    ASSUME NEW audio \in Seq(Nat)
    PROVE  \E f : /\ AreWindows(f, audio, 1..(Len(audio) + 1))
                  /\ K!Windows(audio) = f[1]
<1> DEFINE P == 1..(Len(audio) + 1)
<1>1. \E f : AreWindows(f, audio, P)
  <2>1. 1 \in P
    OBVIOUS
  <2> QED BY <2>1, WindowsFrom
<1>2. AreWindows(CHOOSE f : AreWindows(f, audio, P), audio, P)
  <2> HIDE DEF P
  <2> QED BY <1>1
<1> QED BY <1>2, WindowsAre

(* The windows from p on hold every word from p on, none is longer than may *)
(* be and no two overlap.                                                   *)
HoldFrom(ws, audio, p) ==
    /\ \A w \in ws : /\ w[1] \in Nat /\ w[2] \in Nat
                     /\ p <= w[1] /\ w[1] < w[2] /\ w[2] <= Len(audio) + 1
                     /\ w[2] - w[1] <= Window
    /\ \A v, w \in ws : v = w \/ v[2] <= w[1] \/ w[2] <= v[1]
    /\ \A i \in p..Len(audio) : audio[i] # 0 => \E w \in ws : w[1] <= i /\ i < w[2]

LEMMA WindowsHold ==
    ASSUME NEW audio \in Seq(Nat), NEW f, AreWindows(f, audio, 1..(Len(audio) + 1))
    PROVE  \A p \in 1..(Len(audio) + 1) : HoldFrom(f[p], audio, p)
<1> DEFINE n == Len(audio)
           Holds(p) == HoldFrom(f[p], audio, p)
           Later == {n + 1 - p : p \in {q \in 1..(n + 1) : ~Holds(q)}}
<1>1. n \in Nat
  OBVIOUS
<1>2. SUFFICES ASSUME Later # {} PROVE FALSE
  <2>1. Later = {} => \A p \in 1..(n + 1) : Holds(p)
    OBVIOUS
  <2> HIDE DEF Later
  <2> QED BY <1>2, <2>1
<1>3. \A z \in Later : z \in Nat
  BY <1>1
<1> HIDE DEF Later
<1>4. PICK least \in Later : \A y \in Later : least =< y
  BY <1>2, <1>3, SomeIsLeast
<1>5. PICK p \in 1..(n + 1) : ~Holds(p) /\ least = n + 1 - p
  BY <1>4 DEF Later
<1>6. ASSUME NEW q \in 1..(n + 1), q > p PROVE Holds(q)
  <2>1. ~Holds(q) => n + 1 - q \in Later
    BY <1>6 DEF Later
  <2> HIDE DEF Holds
  <2> QED BY <1>1, <1>4, <1>5, <1>6, <2>1
<1>7. f[p] = IF K!Loud(audio, p, n) = {} THEN {}
             ELSE WindowAt(audio, p) \cup f[WindowEnd(audio, p)]
  BY <1>5 DEF AreWindows
<1>8. CASE K!Loud(audio, p, n) = {}
  <2>1. f[p] = {} /\ \A i \in p..n : audio[i] = 0
    BY <1>7, <1>8 DEF K!Loud
  <2> QED BY <1>5, <2>1 DEF HoldFrom
<1>9. CASE K!Loud(audio, p, n) # {}
  <2> DEFINE a == WindowStart(audio, p)
             b == WindowEnd(audio, p)
             here == WindowAt(audio, p)
  <2>1. /\ a \in Nat /\ b \in Nat /\ p <= a /\ a < b /\ b <= n + 1 /\ b - a <= Window
        /\ \A i \in p..n : audio[i] # 0 => a <= i
    BY <1>5, <1>9, WindowIs
  <2>2. /\ \A w \in here : w = <<a, b>>
        /\ here = {} => \A i \in a..(b - 1) : audio[i] = 0
        /\ here # {} => <<a, b>> \in here
    BY DEF WindowAt, K!Loud
  <2>3. f[p] = here \cup f[b]
    BY <1>7, <1>9
  <2> HIDE DEF a, b, here
  <2>4. b \in 1..(n + 1) /\ b > p /\ p \in Nat /\ 1 <= p
    BY <1>1, <1>5, <2>1
  <2>5. HoldFrom(f[b], audio, b)
    BY <1>6, <2>4
  <2>6. \A w \in f[b] : /\ w[1] \in Nat /\ w[2] \in Nat
                        /\ b <= w[1] /\ w[1] < w[2] /\ w[2] <= n + 1
                        /\ w[2] - w[1] <= Window
    BY <2>5 DEF HoldFrom
  <2>7. \A w \in f[p] : /\ w[1] \in Nat /\ w[2] \in Nat
                        /\ p <= w[1] /\ w[1] < w[2] /\ w[2] <= n + 1
                        /\ w[2] - w[1] <= Window
    BY <2>1, <2>2, <2>3, <2>4, <2>6
  <2>8. \A v, w \in f[p] : v = w \/ v[2] <= w[1] \/ w[2] <= v[1]
    <3>1. \A v \in here, w \in f[b] : v[2] <= w[1]
      BY <2>2, <2>6
    <3>2. \A v, w \in f[b] : v = w \/ v[2] <= w[1] \/ w[2] <= v[1]
      BY <2>5 DEF HoldFrom
    <3>3. \A v, w \in here : v = w
      BY <2>2
    <3> QED BY <2>3, <3>1, <3>2, <3>3
  <2>9. ASSUME NEW i \in p..n, audio[i] # 0 PROVE \E w \in f[p] : w[1] <= i /\ i < w[2]
    <3>1. i \in Nat /\ a <= i
      BY <1>1, <2>1, <2>4, <2>9
    <3>2. CASE i < b
      <4>1. i \in a..(b - 1)
        BY <2>1, <3>1, <3>2
      <4>2. <<a, b>> \in f[p]
        BY <2>2, <2>3, <2>9, <4>1
      <4> QED BY <3>1, <3>2, <4>2
    <3>3. CASE ~(i < b)
      <4>1. i \in b..n
        BY <1>1, <2>1, <2>4, <2>9, <3>1, <3>3
      <4>2. PICK w \in f[b] : w[1] <= i /\ i < w[2]
        BY <2>5, <2>9, <4>1 DEF HoldFrom
      <4> QED BY <2>3, <4>2
    <3> QED BY <3>2, <3>3
  <2>10. Holds(p)
    BY <2>7, <2>8, <2>9 DEF HoldFrom
  <2> QED BY <1>5, <2>10
<1> QED BY <1>8, <1>9

(* What is transcribed again is all that was said.                          *)
LEMMA AllIsInWindows ==
    ASSUME NEW audio \in Seq(Nat)
    PROVE  K!WindowsHoldTheSpeech(audio) /\ K!WordsOf(audio) = WordsIn(audio)
<1> DEFINE n == Len(audio)
           ws == K!Windows(audio)
<1>1. HoldFrom(ws, audio, 1)
  <2>1. PICK f : AreWindows(f, audio, 1..(Len(audio) + 1)) /\ K!Windows(audio) = f[1]
    BY WindowsAreCut
  <2>2. 1 \in 1..(Len(audio) + 1)
    OBVIOUS
  <2> QED BY <2>1, <2>2, WindowsHold
<1> HIDE DEF ws
<1>2. \A w \in ws : /\ w[1] \in Nat /\ w[2] \in Nat
                    /\ 1 <= w[1] /\ w[1] < w[2] /\ w[2] <= n + 1
                    /\ w[2] - w[1] <= Window
  BY <1>1 DEF HoldFrom
<1>3. \A i \in 1..n : audio[i] # 0 => \E w \in ws : w[1] <= i /\ i < w[2]
  BY <1>1 DEF HoldFrom
<1>4. n \in Nat
  OBVIOUS
<1>5. K!WordsOf(audio) = UNION {{audio[i] : i \in K!Loud(audio, w[1], w[2] - 1)} : w \in ws}
  BY DEF K!WordsOf, ws
<1> HIDE DEF n
<1>6. \A w \in ws : \A i : i \in K!Loud(audio, w[1], w[2] - 1) => i \in K!Loud(audio, 1, n)
  BY <1>2, <1>4 DEF K!Loud
<1>7. \A i \in K!Loud(audio, 1, n) : \E w \in ws : i \in K!Loud(audio, w[1], w[2] - 1)
  <2> TAKE i \in K!Loud(audio, 1, n)
  <2>1. i \in 1..n /\ audio[i] # 0
    BY DEF K!Loud
  <2>2. PICK w \in ws : w[1] <= i /\ i < w[2]
    BY <1>3, <2>1
  <2>3. i \in w[1]..(w[2] - 1)
    BY <1>2, <1>4, <2>1, <2>2
  <2> QED BY <2>1, <2>2, <2>3 DEF K!Loud
<1>8. K!WordsOf(audio) = {audio[i] : i \in K!Loud(audio, 1, n)}
  BY <1>5, <1>6, <1>7
<1>9. \A w \in ws : w[2] - w[1] \in 1..Window
  BY <1>2, WindowConstants
<1>10. \A v, w \in ws : v = w \/ v[2] <= w[1] \/ w[2] <= v[1]
  BY <1>1 DEF HoldFrom
<1> QED BY <1>8, <1>9, <1>10 DEF K!WindowsHoldTheSpeech, WordsIn, ws, n

-----------------------------------------------------------------------------
(* The one recording of a call of one stream                                *)

LEMMA RecordingStarts ==
    ASSUME K!Init
    PROVE  RecordingInv
<1>1. /\ kSocket = [s \in Sockets |-> K!Closed] /\ kStreams = [begun |-> 0, frames |-> 0]
      /\ kLive = {} /\ kTranscript = {} /\ kHeld = None /\ kJobs = {} /\ kRow = None
      /\ kSweep = None /\ kClock = 0
  BY DEF K!Init
<1>2. \A s \in Sockets : kSocket[s] = K!Closed
  BY <1>1
<1>3. /\ K!Closed \in [open : BOOLEAN, buffers : BOOLEAN, recording : {None} \cup Recs]
      /\ ~K!Closed.buffers /\ K!Closed.recording = None
  BY DEF K!Closed
<1>4. kSocket \in [Sockets -> [open : BOOLEAN, buffers : BOOLEAN, recording : {None} \cup Recs]]
  BY <1>1, <1>3
<1>5. StreamIsOne
  BY <1>1, <1>2, <1>3, <1>4 DEF StreamIsOne
<1>6. HeldIsTheCall
  BY <1>1, <1>2, <1>3 DEF HeldIsTheCall
<1>7. FileIsTheRows
  BY <1>1 DEF FileIsTheRows, K!KeptIsPlayable
<1> QED BY <1>5, <1>6, <1>7 DEF RecordingInv


LEMMA ArchiveRests ==
    ASSUME FileIsTheRows, UNCHANGED <<kJobs, kFile, kRow, kSweep, kClock>>
    PROVE  FileIsTheRows'
BY DEF FileIsTheRows, K!KeptIsPlayable

LEMMA ArchiveMoves ==
    ASSUME RecordingInv,
           K!Archiving \/ K!SweepRemoves \/ K!SweepMarks \/ K!Tick
    PROVE  RecordingInv'
<1>1. StreamIsOne /\ HeldIsTheCall /\ FileIsTheRows
  BY DEF RecordingInv
<1>2. UNCHANGED <<kSocket, kStreams, kLive, kTranscript, kHeld>>
  BY DEF K!Archiving, K!SweepRemoves, K!SweepMarks, K!Tick, K!ArchiveChecks,
     K!ArchiveWrites,
         K!ArchiveKeeps, K!streamVars
<1>3. HeldIsTheCall'
  BY <1>1, <1>2 DEF HeldIsTheCall
<1>4. K!RecordingsAssumption
  BY PartsAssumption
<1>5. Retention \in Nat
  BY <1>4 DEF K!RecordingsAssumption
<1>6. kClock \in Nat
  BY <1>1 DEF FileIsTheRows
<1>7. ASSUME NEW j \in kJobs
      PROVE  /\ j \in [recording : Recs, at : {"check", "file", "row"}] /\ kJobs = {j}
             /\ kRow = None /\ kSweep = None
             /\ j.recording.audio \in Seq(Nat) /\ Len(j.recording.audio) \in Nat
             /\ j.at = "row" => kFile = Len(j.recording.audio)
  <2>1. /\ j \in [recording : Recs, at : {"check", "file", "row"}]
        /\ \A i \in kJobs : i = j
        /\ kRow = None /\ kSweep = None
        /\ j.at = "row" => kFile = Len(j.recording.audio)
    BY <1>1, <1>7 DEF FileIsTheRows
  <2>2. j.recording.audio \in Seq(Nat)
    BY <2>1 DEF Recs
  <2> QED BY <1>7, <2>1, <2>2, LenProperties
<1>8. ASSUME NEW j \in kJobs, NEW stage \in {"check", "file", "row"}, kJobs' = K!Rows(j, stage)
      PROVE  LET k == [j EXCEPT !.at = stage] IN
             /\ kJobs' = {k} /\ k \in [recording : Recs, at : {"check", "file", "row"}]
             /\ k.at = stage /\ k.recording = j.recording
  BY <1>7, <1>8 DEF K!Rows
<1>9. ASSUME NEW j \in kJobs, K!ArchiveChecks(j) PROVE FileIsTheRows' /\ (kJobs # {} /\ UNCHANGED kRow)
  <2>1. UNCHANGED <<kFile, kRow, kSweep, kClock>> /\ kJobs' = K!Rows(j, "file")
    BY <1>7, <1>9 DEF K!ArchiveChecks
  <2>2. PICK k \in [recording : Recs, at : {"check", "file", "row"}] :
          kJobs' = {k} /\ k.at = "file"
    BY <1>8, <2>1
  <2>3. kClock' \in Nat /\ kRow' = None /\ kSweep' = None /\ kJobs # {} /\ UNCHANGED kRow
    BY <1>6, <1>7, <2>1
  <2>4. \A i \in kJobs' : i = k
    BY <2>2
  <2> QED BY <2>2, <2>3, <2>4 DEF FileIsTheRows, K!KeptIsPlayable
<1>10. ASSUME NEW j \in kJobs, K!ArchiveWrites(j) PROVE FileIsTheRows' /\ (kJobs # {} /\ UNCHANGED kRow)
  <2>1. /\ UNCHANGED <<kRow, kSweep, kClock>> /\ kJobs' = K!Rows(j, "row")
        /\ kFile' = Len(j.recording.audio)
    BY <1>10 DEF K!ArchiveWrites
  <2> QED BY <1>6, <1>7, <1>8, <2>1 DEF FileIsTheRows, K!KeptIsPlayable
<1>11. ASSUME NEW j \in kJobs, K!ArchiveKeeps(j) PROVE FileIsTheRows' /\ kJobs # {}
  <2>1. /\ UNCHANGED <<kFile, kSweep, kClock>> /\ kJobs' = {} /\ j.at = "row"
        /\ kRow' = K!RowFor(j)
    BY <1>7, <1>11 DEF K!ArchiveKeeps
  <2>2. /\ K!RowFor(j) \in [length : Nat, until : Nat, deleted : {None} \cup Nat]
        /\ K!RowFor(j).length = Len(j.recording.audio)
    BY <1>5, <1>6, <1>7 DEF K!RowFor
  <2> QED BY <1>6, <1>7, <2>1, <2>2 DEF FileIsTheRows, K!KeptIsPlayable
<1>12. ASSUME K!SweepRemoves PROVE FileIsTheRows' /\ UNCHANGED <<kJobs, kRow>>
  <2>1. /\ UNCHANGED <<kJobs, kRow, kClock>> /\ kSweep' = [row |-> kRow, now |-> kClock]
        /\ kRow # None /\ kRow.until <= kClock
    BY <1>12 DEF K!SweepRemoves, K!Expired
  <2>2. kSweep'.row = kRow /\ kSweep'.now = kClock
    BY <2>1
  <2>3. kRow.until \in Nat
    BY <1>1, <2>1 DEF FileIsTheRows
  <2>4. K!KeptIsPlayable'
    BY <1>6, <2>1, <2>3 DEF K!KeptIsPlayable
  <2> QED BY <1>1, <1>6, <2>1, <2>2, <2>4 DEF FileIsTheRows
<1>13. ASSUME K!SweepMarks PROVE FileIsTheRows' /\ UNCHANGED kJobs /\ kRow # None
  <2>1. /\ UNCHANGED <<kJobs, kFile, kClock>> /\ kSweep' = None
        /\ kRow' = [kRow EXCEPT !.deleted = kSweep.now] /\ kSweep.now \in Nat
        /\ kRow # None /\ kJobs = {} /\ kRow.until <= kClock
        /\ kRow \in [length : Nat, until : Nat, deleted : {None} \cup Nat]
    BY <1>1, <1>13 DEF K!SweepMarks, FileIsTheRows
  <2>2. /\ kRow' \in [length : Nat, until : Nat, deleted : {None} \cup Nat]
        /\ kRow'.until = kRow.until /\ kRow.until \in Nat
    BY <2>1
  <2>3. K!KeptIsPlayable'
    BY <1>6, <2>1, <2>2 DEF K!KeptIsPlayable
  <2> QED BY <1>6, <2>1, <2>2, <2>3 DEF FileIsTheRows
<1>14. ASSUME K!Tick PROVE FileIsTheRows' /\ UNCHANGED <<kJobs, kRow>>
  <2>1. UNCHANGED <<kJobs, kFile, kRow, kSweep>> /\ kClock' = kClock + 1
    BY <1>14 DEF K!Tick, K!archiveVars
  <2>2. kRow # None => kRow.until \in Nat
    BY <1>1 DEF FileIsTheRows
  <2>3. K!KeptIsPlayable'
    BY <1>1, <1>6, <2>1, <2>2 DEF FileIsTheRows, K!KeptIsPlayable
  <2> QED BY <1>1, <1>6, <2>1, <2>2, <2>3 DEF FileIsTheRows
<1>15. FileIsTheRows'
  BY <1>9, <1>10, <1>11, <1>12, <1>13, <1>14 DEF K!Archiving
<1>16. (kJobs = {} /\ kRow = None) => (kJobs' = {} /\ kRow' = None)
  BY <1>12, <1>13, <1>14 DEF K!Archiving
<1>17. StreamIsOne'
  BY <1>1, <1>2, <1>16 DEF StreamIsOne
<1> QED BY <1>3, <1>15, <1>17 DEF RecordingInv

LEMMA CallMoves ==
    ASSUME RecordingInv,
           K!CallEnds \/ K!Evicted \/ K!Revise \/ K!ReviseFails \/ K!SweepFails \/ K!Crash
    PROVE  RecordingInv'
<1>1. StreamIsOne /\ HeldIsTheCall /\ FileIsTheRows
  BY DEF RecordingInv
<1>2. CASE K!CallEnds \/ K!SweepFails
  <2>1. UNCHANGED <<kSocket, kStreams, kLive, kTranscript, kHeld, kJobs, kFile, kRow, kSweep, kClock>>
    BY <1>2 DEF K!CallEnds, K!SweepFails, K!streamVars, K!archiveVars
  <2>2. StreamIsOne' /\ HeldIsTheCall'
    BY <1>1, <2>1 DEF StreamIsOne, HeldIsTheCall
  <2> QED BY <1>1, <2>1, <2>2, ArchiveRests DEF RecordingInv
<1>3. CASE K!Evicted \/ K!Revise \/ K!ReviseFails
  <2>1. /\ UNCHANGED <<kSocket, kStreams, kLive, kJobs, kFile, kRow, kSweep, kClock>>
        /\ kHeld' = None
    BY <1>3 DEF K!Evicted, K!Revise, K!ReviseFails, K!streamVars, K!archiveVars
  <2>2. kLive \subseteq kTranscript'
    <3>1. CASE UNCHANGED kTranscript
      BY <1>1, <3>1 DEF HeldIsTheCall
    <3>2. CASE kTranscript' = K!Revised(kHeld)
      <4>1. CASE kHeld = None \/ kHeld.truncated
        BY <3>2, <4>1 DEF K!Revised
      <4>2. CASE kHeld # None /\ ~kHeld.truncated
        <5>1. kHeld \in Recs /\ HoldsTheCall(kHeld, kLive)
          BY <1>1, <4>2 DEF HeldIsTheCall
        <5>2. kHeld.audio \in Seq(Nat) /\ kLive \subseteq WordsIn(kHeld.audio)
          BY <4>2, <5>1 DEF HoldsTheCall, Recs
        <5>3. K!WordsOf(kHeld.audio) = WordsIn(kHeld.audio)
          BY <5>2, AllIsInWindows
        <5>4. kTranscript' = kLive \/ kTranscript' = K!WordsOf(kHeld.audio)
          BY <3>2 DEF K!Revised
        <5> QED BY <5>2, <5>3, <5>4
      <4> QED BY <4>1, <4>2
    <3> QED BY <1>3, <3>1, <3>2 DEF K!Evicted, K!Revise, K!ReviseFails
  <2>3. StreamIsOne' /\ HeldIsTheCall'
    BY <1>1, <2>1, <2>2 DEF StreamIsOne, HeldIsTheCall
  <2> QED BY <1>1, <2>1, <2>3, ArchiveRests DEF RecordingInv
<1>4. CASE K!Crash
  <2>1. /\ kSocket' = [s \in Sockets |-> K!Closed] /\ kHeld' = None /\ kJobs' = {} /\ kSweep' = None
        /\ UNCHANGED <<kStreams, kLive, kTranscript, kFile, kRow, kClock>>
    BY <1>4 DEF K!Crash
  <2>2. /\ K!Closed \in [open : BOOLEAN, buffers : BOOLEAN, recording : {None} \cup Recs]
        /\ ~K!Closed.buffers /\ K!Closed.recording = None
    BY DEF K!Closed
  <2>3. \A s \in Sockets : kSocket'[s] = K!Closed
    BY <2>1
  <2>4. kSocket' \in [Sockets -> [open : BOOLEAN, buffers : BOOLEAN, recording : {None} \cup Recs]]
    BY <2>1, <2>2
  <2>5. StreamIsOne'
    BY <1>1, <2>1, <2>2, <2>3, <2>4 DEF StreamIsOne
  <2>6. HeldIsTheCall'
    BY <1>1, <2>1, <2>2, <2>3 DEF HeldIsTheCall
  <2>7. FileIsTheRows'
    BY <1>1, <2>1 DEF FileIsTheRows, K!KeptIsPlayable
  <2> QED BY <2>5, <2>6, <2>7 DEF RecordingInv
<1> QED BY <1>2, <1>3, <1>4

\* A stream is over, and what was kept of it is stored.
LEMMA StreamIsStored ==
    ASSUME RecordingInv, NEW s \in Sockets,
           NEW left \in [open : BOOLEAN, buffers : BOOLEAN, recording : {None} \cup Recs],
           ~left.buffers, left.recording = None,
           K!Stores(kSocket[s].recording), kSocket' = [kSocket EXCEPT ![s] = left],
           UNCHANGED <<kStreams, kLive, kTranscript, kFile, kRow, kSweep, kClock>>
    PROVE  RecordingInv'
<1>1. StreamIsOne /\ HeldIsTheCall /\ FileIsTheRows
  BY DEF RecordingInv
<1> DEFINE recording == kSocket[s].recording
<1>2. /\ left \in [open : BOOLEAN, buffers : BOOLEAN, recording : {None} \cup Recs]
      /\ ~left.buffers /\ left.recording = None
  OBVIOUS
<1>3. kSocket' = [kSocket EXCEPT ![s] = left]
  OBVIOUS
<1>4. /\ kSocket \in [Sockets -> [open : BOOLEAN, buffers : BOOLEAN, recording : {None} \cup Recs]]
      /\ kStreams \in [begun : Nat, frames : Nat]
      /\ \A t \in Sockets : kSocket[t].recording # None =>
           /\ kSocket[t].buffers /\ kHeld = None /\ kJobs = {} /\ kRow = None
      /\ \A t, u \in Sockets : kSocket[t].buffers /\ kSocket[u].buffers => t = u
      /\ kStreams.begun = 0 =>
           /\ \A t \in Sockets : ~kSocket[t].buffers
           /\ kLive = {} /\ kHeld = None /\ kJobs = {} /\ kRow = None
  BY <1>1 DEF StreamIsOne
<1>5. /\ kSocket' \in [Sockets -> [open : BOOLEAN, buffers : BOOLEAN, recording : {None} \cup Recs]]
      /\ kSocket'[s] = left /\ \A t \in Sockets : t # s => kSocket'[t] = kSocket[t]
  BY <1>2, <1>3, <1>4
<1>6. \A t, u \in Sockets : kSocket'[t].buffers /\ kSocket'[u].buffers => t = u
  BY <1>2, <1>4, <1>5
<1>7. \A t \in Sockets : kSocket'[t].recording # None =>
        t # s /\ kSocket[t].recording # None /\ kSocket'[t] = kSocket[t]
  BY <1>2, <1>5
<1>8. CASE UNCHANGED <<kHeld, kJobs>>
  <2>1. StreamIsOne'
    BY <1>2, <1>4, <1>5, <1>6, <1>7, <1>8 DEF StreamIsOne
  <2>2. \A t \in Sockets : kSocket'[t].buffers => kSocket[t].buffers
    BY <1>2, <1>5
  <2>3. HeldIsTheCall'
    BY <1>1, <1>7, <1>8, <2>2 DEF HeldIsTheCall
  <2> QED BY <1>1, <1>8, <2>1, <2>3, ArchiveRests DEF RecordingInv
<1>9. CASE recording # None /\ kHeld' = recording
           /\ kJobs' = kJobs \cup {[recording |-> recording, at |-> "check"]}
  <2>1. /\ recording \in Recs /\ kSocket[s].buffers
        /\ kHeld = None /\ kJobs = {} /\ kRow = None /\ kStreams.begun # 0
    BY <1>4, <1>9
  <2>2. HoldsTheCall(recording, kLive)
    BY <1>1, <1>9 DEF HeldIsTheCall
  <2>3. kSweep = None
    BY <1>1, <2>1 DEF FileIsTheRows
  <2>4. \A t \in Sockets : ~kSocket'[t].buffers /\ kSocket'[t].recording = None
    BY <1>2, <1>4, <1>5, <2>1
  <2> HIDE DEF recording
  <2>5. StreamIsOne'
    BY <1>4, <1>5, <2>1, <2>4 DEF StreamIsOne
  <2>6. HeldIsTheCall'
    BY <1>1, <1>9, <2>1, <2>2, <2>4 DEF HeldIsTheCall
  <2>7. FileIsTheRows'
    <3> DEFINE job == [recording |-> recording, at |-> "check"]
    <3>1. job \in [recording : Recs, at : {"check", "file", "row"}] /\ job.at = "check"
      BY <2>1
    <3>2. kJobs' = {job}
      BY <1>9, <2>1
    <3> HIDE DEF job
    <3>3. \A i \in kJobs' : i = job
      BY <3>2
    <3>4. kClock' \in Nat /\ kRow' = None /\ kSweep' = None
      BY <1>1, <2>1, <2>3 DEF FileIsTheRows
    <3> QED BY <3>1, <3>3, <3>4 DEF FileIsTheRows, K!KeptIsPlayable
  <2> QED BY <2>5, <2>6, <2>7 DEF RecordingInv
<1> QED BY <1>8, <1>9 DEF K!Stores

\* A frame is kept of the stream that is on, unless the recording is full.
LEMMA FrameIsKept ==
    ASSUME RecordingInv, NEW s \in Sockets, NEW loud \in BOOLEAN, K!Media(s, loud)
    PROVE  RecordingInv'
<1>1. StreamIsOne /\ HeldIsTheCall /\ FileIsTheRows
  BY DEF RecordingInv
<1> DEFINE frame == IF loud THEN kStreams.frames + 1 ELSE 0
           old == kSocket[s].recording
           new == IF old = None THEN None ELSE K!Appended(old, frame)
<1>2. /\ kSocket[s].buffers /\ kStreams' = [kStreams EXCEPT !.frames = @ + 1]
      /\ kSocket' = [kSocket EXCEPT ![s].recording = new]
      /\ kLive' = (IF loud THEN kLive \cup {frame} ELSE kLive)
      /\ kTranscript' = kLive'
      /\ UNCHANGED <<kHeld, kJobs, kFile, kRow, kSweep, kClock>>
  BY DEF K!Media, K!archiveVars
<1>3. /\ kSocket \in [Sockets -> [open : BOOLEAN, buffers : BOOLEAN, recording : {None} \cup Recs]]
      /\ kStreams \in [begun : Nat, frames : Nat]
      /\ \A t \in Sockets : kSocket[t].recording # None =>
           /\ kSocket[t].buffers /\ kHeld = None /\ kJobs = {} /\ kRow = None
      /\ \A t, u \in Sockets : kSocket[t].buffers /\ kSocket[u].buffers => t = u
      /\ kStreams.begun # 0
  BY <1>1, <1>2 DEF StreamIsOne
<1>4. frame \in Nat /\ (loud => frame # 0)
  BY <1>3
<1> HIDE DEF frame
<1>5. ASSUME old # None
      PROVE  /\ new \in Recs
             /\ HoldsTheCall(new, kLive')
  <2>1. old \in Recs /\ HoldsTheCall(old, kLive)
    BY <1>1, <1>3, <1>5 DEF HeldIsTheCall
  <2>2. old.audio \in Seq(Nat) /\ old.truncated \in BOOLEAN /\ new = K!Appended(old, frame)
    BY <1>5, <2>1 DEF Recs
  <2> HIDE DEF old, new
  <2>3. CASE Len(old.audio) < MaxSeconds
    <3> DEFINE audio == Append(old.audio, frame)
               n == Len(old.audio)
    <3>1. new = [old EXCEPT !.audio = audio]
      BY <2>2, <2>3 DEF K!Appended
    <3>2. /\ audio \in Seq(Nat) /\ n \in Nat /\ Len(audio) = n + 1 /\ audio[n + 1] = frame
          /\ \A i \in 1..n : audio[i] = old.audio[i]
      BY <1>4, <2>2, AppendProperties, LenProperties
    <3> HIDE DEF audio, n
    <3>3. new \in Recs /\ new.audio = audio /\ new.truncated = old.truncated
      BY <2>1, <3>1, <3>2 DEF Recs
    <3>4. CASE old.truncated
      BY <3>3, <3>4 DEF HoldsTheCall
    <3>5. CASE ~old.truncated
      <4>1. ASSUME NEW x \in kLive' PROVE x \in WordsIn(audio)
        <5>1. CASE x \in kLive
          <6>1. x \in WordsIn(old.audio)
            BY <2>1, <3>5, <5>1 DEF HoldsTheCall
          <6>2. PICK i \in 1..n : old.audio[i] # 0 /\ x = old.audio[i]
            BY <6>1 DEF WordsIn, K!Loud, n
          <6>3. i \in 1..(n + 1) /\ audio[i] = x /\ audio[i] # 0
            BY <3>2, <6>2
          <6> QED BY <3>2, <6>3 DEF WordsIn, K!Loud
        <5>2. CASE loud /\ x = frame
          <6>1. n + 1 \in 1..(n + 1) /\ audio[n + 1] = x /\ audio[n + 1] # 0
            BY <1>4, <3>2, <5>2
          <6> QED BY <3>2, <6>1 DEF WordsIn, K!Loud
        <5> QED BY <1>2, <4>1, <5>1, <5>2
      <4> QED BY <3>3, <4>1 DEF HoldsTheCall
    <3> QED BY <3>3, <3>4, <3>5
  <2>4. CASE ~(Len(old.audio) < MaxSeconds)
    <3>1. new = [old EXCEPT !.truncated = TRUE]
      BY <2>2, <2>4 DEF K!Appended
    <3>2. new \in Recs /\ new.truncated = TRUE
      BY <2>1, <3>1 DEF Recs
    <3> QED BY <3>2 DEF HoldsTheCall
  <2> QED BY <2>3, <2>4
<1>6. old = None => new = None
  OBVIOUS
<1>7. new \in {None} \cup Recs
  BY <1>5, <1>6
<1> HIDE DEF old, new
<1>8. /\ kSocket' \in [Sockets -> [open : BOOLEAN, buffers : BOOLEAN, recording : {None} \cup Recs]]
      /\ kSocket'[s].recording = new
      /\ \A t \in Sockets : kSocket'[t].buffers = kSocket[t].buffers
      /\ \A t \in Sockets : t # s => kSocket'[t] = kSocket[t]
  BY <1>2, <1>3, <1>7
<1>9. \A t \in Sockets : kSocket'[t].recording # None => t = s /\ old # None
  <2>1. \A t \in Sockets : t # s => ~kSocket[t].buffers
    BY <1>2, <1>3
  <2> QED BY <1>3, <1>6, <1>8, <2>1
<1>10. kStreams' \in [begun : Nat, frames : Nat] /\ kStreams'.begun # 0
  BY <1>2, <1>3
<1>11. StreamIsOne'
  <2>1. old # None => kHeld = None /\ kJobs = {} /\ kRow = None
    BY <1>3 DEF old
  <2>2. \A t \in Sockets : kSocket'[t].recording # None =>
          /\ kSocket'[t].buffers /\ kHeld' = None /\ kJobs' = {} /\ kRow' = None
    BY <1>2, <1>8, <1>9, <2>1
  <2>3. \A t, u \in Sockets : kSocket'[t].buffers /\ kSocket'[u].buffers => t = u
    BY <1>3, <1>8
  <2> QED BY <1>8, <1>10, <2>2, <2>3 DEF StreamIsOne
<1>12. HeldIsTheCall'
  <2>1. kHeld = None
    BY <1>1, <1>2 DEF HeldIsTheCall
  <2>2. \A t \in Sockets :
          kSocket'[t].recording # None => HoldsTheCall(kSocket'[t].recording, kLive')
    BY <1>5, <1>8, <1>9
  <2> QED BY <1>2, <2>1, <2>2 DEF HeldIsTheCall
<1> QED BY <1>1, <1>2, <1>11, <1>12, ArchiveRests DEF RecordingInv

\* A stream begins, or begins again on its connection, and is then not kept.
LEMMA StreamIsBegun ==
    ASSUME MaxStreams = 1, RecordingInv, NEW s \in Sockets, K!StreamStarts(s)
    PROVE  RecordingInv'
<1>1. StreamIsOne /\ HeldIsTheCall /\ FileIsTheRows
  BY DEF RecordingInv
<1> DEFINE fresh == [audio |-> <<>>, truncated |-> FALSE]
           again == kSocket[s].buffers
           new == [open |-> TRUE, buffers |-> TRUE, recording |-> IF again THEN None ELSE fresh]
<1>2. /\ kSocket' = [kSocket EXCEPT ![s] = new]
      /\ kStreams' = IF again THEN kStreams ELSE [kStreams EXCEPT !.begun = @ + 1]
      /\ kStreams.begun < MaxStreams \/ again
      /\ UNCHANGED <<kLive, kTranscript, kHeld, kJobs, kFile, kRow, kSweep, kClock>>
  BY DEF K!StreamStarts, K!archiveVars
<1>3. /\ kSocket \in [Sockets -> [open : BOOLEAN, buffers : BOOLEAN, recording : {None} \cup Recs]]
      /\ kStreams \in [begun : Nat, frames : Nat]
      /\ \A t, u \in Sockets : kSocket[t].buffers /\ kSocket[u].buffers => t = u
      /\ \A t \in Sockets : kSocket[t].recording # None => kSocket[t].buffers
      /\ kStreams.begun = 0 =>
           /\ \A t \in Sockets : ~kSocket[t].buffers
           /\ kLive = {} /\ kHeld = None /\ kJobs = {} /\ kRow = None
  BY <1>1 DEF StreamIsOne
<1>4. again \in BOOLEAN /\ (~again => kStreams.begun = 0)
  BY <1>2, <1>3
<1>5. fresh \in Recs /\ HoldsTheCall(fresh, {})
  <2>1. <<>> \in Seq(Nat)
    OBVIOUS
  <2> QED BY <2>1 DEF Recs, HoldsTheCall
<1> HIDE DEF fresh
<1>6. /\ new \in [open : BOOLEAN, buffers : BOOLEAN, recording : {None} \cup Recs]
      /\ new.buffers /\ new.recording = IF again THEN None ELSE fresh
  BY <1>4, <1>5
<1> HIDE DEF new
<1>7. /\ kSocket' \in [Sockets -> [open : BOOLEAN, buffers : BOOLEAN, recording : {None} \cup Recs]]
      /\ kSocket'[s] = new /\ \A t \in Sockets : t # s => kSocket'[t] = kSocket[t]
  BY <1>2, <1>3, <1>6
<1>8. \A t \in Sockets : t # s => ~kSocket'[t].buffers /\ kSocket'[t].recording = None
  <2>1. \A t \in Sockets : t # s => ~kSocket[t].buffers
    BY <1>3, <1>4
  <2> QED BY <1>3, <1>7, <2>1
<1>9. kStreams' \in [begun : Nat, frames : Nat] /\ kStreams'.begun # 0
  <2>1. CASE again
    <3>1. kStreams.begun # 0
      BY <1>3, <2>1
    <3> QED BY <1>2, <1>3, <2>1, <3>1
  <2>2. CASE ~again
    BY <1>2, <1>3, <2>2
  <2> QED BY <2>1, <2>2
<1> HIDE DEF again
<1>10. StreamIsOne'
  <2>1. \A t \in Sockets : kSocket'[t].recording # None =>
          /\ kSocket'[t].buffers /\ kHeld' = None /\ kJobs' = {} /\ kRow' = None
    BY <1>2, <1>3, <1>4, <1>6, <1>7, <1>8
  <2>2. \A t, u \in Sockets : kSocket'[t].buffers /\ kSocket'[u].buffers => t = u
    BY <1>8
  <2> QED BY <1>7, <1>9, <2>1, <2>2 DEF StreamIsOne
<1>11. HeldIsTheCall'
  <2>1. kHeld = None
    BY <1>1, <1>3, <1>4 DEF HeldIsTheCall, again
  <2>2. \A t \in Sockets :
          kSocket'[t].recording # None => HoldsTheCall(kSocket'[t].recording, kLive)
    <3>1. kSocket'[s].recording # None => ~again /\ kSocket'[s].recording = fresh
      BY <1>6, <1>7
    <3>2. ~again => HoldsTheCall(fresh, kLive)
      BY <1>3, <1>4, <1>5
    <3>3. \A t \in Sockets : t # s => kSocket'[t].recording = None
      BY <1>8
    <3> QED BY <3>1, <3>2, <3>3
  <2> QED BY <1>1, <1>2, <2>1, <2>2 DEF HeldIsTheCall
<1> QED BY <1>1, <1>2, <1>10, <1>11, ArchiveRests DEF RecordingInv

LEMMA RecordingSteps ==
    ASSUME MaxStreams = 1, RecordingInv, K!Next
    PROVE  RecordingInv'
<1> DEFINE Left == [open : BOOLEAN, buffers : BOOLEAN, recording : {None} \cup Recs]
<1>1. ASSUME NEW s \in Sockets, K!StreamStops(s) PROVE RecordingInv'
  <2> DEFINE left == [K!Closed EXCEPT !.open = TRUE]
  <2>1. left \in Left /\ ~left.buffers /\ left.recording = None
    BY DEF K!Closed
  <2>2. /\ K!Stores(kSocket[s].recording) /\ kSocket' = [kSocket EXCEPT ![s] = left]
        /\ UNCHANGED <<kStreams, kLive, kTranscript, kFile, kRow, kSweep, kClock>>
    BY <1>1 DEF K!StreamStops
  <2> HIDE DEF left
  <2> QED BY <2>1, <2>2, StreamIsStored
<1>2. ASSUME NEW s \in Sockets, K!Disconnects(s) PROVE RecordingInv'
  <2>1. K!Closed \in Left /\ ~K!Closed.buffers /\ K!Closed.recording = None
    BY DEF K!Closed
  <2>2. /\ K!Stores(kSocket[s].recording) /\ kSocket' = [kSocket EXCEPT ![s] = K!Closed]
        /\ UNCHANGED <<kStreams, kLive, kTranscript, kFile, kRow, kSweep, kClock>>
    BY <1>2 DEF K!Disconnects
  <2> QED BY <2>1, <2>2, StreamIsStored
<1>3. K!Streaming => RecordingInv'
  BY <1>1, <1>2, StreamIsBegun, FrameIsKept DEF K!Streaming
<1> QED BY <1>3, CallMoves, ArchiveMoves DEF K!Next

LEMMA RecordingRests ==
    ASSUME RecordingInv, UNCHANGED kVars
    PROVE  RecordingInv'
<1>1. UNCHANGED <<kSocket, kStreams, kLive, kTranscript, kHeld, kJobs, kFile, kRow, kSweep, kClock>>
  BY DEF kVars
<1>2. StreamIsOne' /\ HeldIsTheCall'
  BY <1>1 DEF RecordingInv, StreamIsOne, HeldIsTheCall
<1> QED BY <1>1, <1>2, ArchiveRests DEF RecordingInv

LEMMA RecordingsHold ==
    ASSUME RecordingInv
    PROVE  RecordingsAreWhole
<1>1. HeldIsTheCall /\ FileIsTheRows
  BY DEF RecordingInv
<1>2. K!KeptIsPlayable
  BY <1>1 DEF FileIsTheRows
<1>3. kLive \subseteq kTranscript
  BY <1>1 DEF HeldIsTheCall
<1>4. kHeld # None => K!WindowsHoldTheSpeech(kHeld.audio)
  BY <1>1, AllIsInWindows DEF HeldIsTheCall, Recs
<1> QED BY <1>2, <1>3, <1>4 DEF RecordingsAreWhole, K!RevisionKeepsTheSpeech

-----------------------------------------------------------------------------
(* Line tags                                                                *)

(* Every line has a number of its own, and what is found of it was found of *)
(* the words it has.                                                        *)
Lines == [id : Nat, words : Nat, role : LineRoles, tone : {None} \cup (Nat \X Nat),
          raised : {None} \cup ((Nat \X Nat) \X SUBSET Categories)]
Numbered(conversation, next) ==
    /\ \A n \in DOMAIN conversation : conversation[n].id < next
    /\ \A m, n \in DOMAIN conversation : conversation[m].id = conversation[n].id => m = n
FoundOfItself(line) ==
    /\ line.tone # None => line.tone = T!Judgement(line) /\ line.role \in T!Rated
    /\ line.raised # None => line.raised[1] = T!Judgement(line)
TheCallIsLines ==
    /\ tLines \in Seq(Lines) /\ tIds \in Nat
    /\ Numbered(tLines, tIds)
    /\ \A n \in DOMAIN tLines : FoundOfItself(tLines[n])

(* What an analysis has read are lines too, and a line it has read and the  *)
(* call has has kept its speaker.                                           *)
SameSpeakers(conversation, lines) ==
    \A n \in DOMAIN conversation, k \in DOMAIN lines :
        conversation[n].id = lines[k].id => conversation[n].role = lines[k].role
LinesAreRead ==
    /\ tSeen \in [T!Runs -> Seq(Lines)]
    /\ \A r \in T!Runs : Numbered(tSeen[r], tIds) /\ SameSpeakers(tSeen[r], tLines)

(* What an analysis was told is of what it has read, and is told before it  *)
(* is stored.                                                               *)
AsksAlone(stage) == stage \in {"together", "complaints", "sentiment", "store"}
ToldOf(told, conversation) ==
    /\ DOMAIN told = T!Tasks
    /\ told["escalation"] # None => \A q \in told["escalation"] : T!QuotedIn(q, conversation)
    /\ told["complaints"] # None => \A i \in told["complaints"] : i.category \in Categories
    /\ told["sentiment"] # None => \A n \in told["sentiment"] : n \in T!LinesToRate(conversation)
ToldInTurn(stage, told, owned) ==
    /\ stage \in {"rest", "together"} => told = T!Nothing
    /\ stage = "complaints" => told["complaints"] = None
    /\ stage = "sentiment" => told["sentiment"] = None
    /\ stage = "store" => told["complaints"] # None /\ told["sentiment"] # None
    /\ DOMAIN owned = T!Tasks
    /\ AsksAlone(stage) => \A t \in {"complaints", "sentiment"} :
         told[t] # None => owned[t] \in {"answered", "unusable"}
AnswersAreKept ==
    /\ tAt \in [T!Runs -> {"rest", "together", "store"} \cup T!Tasks]
    /\ DOMAIN tGot = T!Runs /\ DOMAIN tOwn = T!Runs
    /\ \A r \in T!Runs :
         ToldOf(tGot[r], tSeen[r]) /\ ToldInTurn(tAt[r], tGot[r], tOwn[r])

(* The final analysis is of the call as it is, but for what other requests  *)
(* found of its lines meanwhile.                                            *)
Asking == tAt["final"] \in {"complaints", "sentiment", "store"}
ReadAsIs(conversation, lines) ==
    /\ Len(conversation) = Len(lines)
    /\ \A n \in DOMAIN lines :
         /\ conversation[n].id = lines[n].id /\ conversation[n].words = lines[n].words
         /\ conversation[n].role = lines[n].role
         /\ conversation[n].tone # None => lines[n].tone # None
FinalIsOfTheCall ==
    /\ {tTogether, tEnded, tFinished, tPartial} \subseteq BOOLEAN
    /\ tFinished => tEnded
    /\ tAt["final"] # "together"
    /\ tAt["final"] = "escalation" => tFinished
    /\ Asking =>
         /\ tEnded /\ ~tFinished /\ ReadAsIs(tSeen["final"], tLines)
         /\ tGot["final"]["sentiment"] # None /\ ~tPartial =>
              \A n \in T!LinesToRate(tSeen["final"]) : n \in tGot["final"]["sentiment"]
    /\ T!LastLinesAreRated

TagsInv ==
    /\ TheCallIsLines
    /\ LinesAreRead
    /\ AnswersAreKept
    /\ FinalIsOfTheCall
    /\ ~tInvented

LEMMA TagsStart == T!Init => TagsInv
<1> SUFFICES ASSUME T!Init PROVE TagsInv
  OBVIOUS
<1>1. /\ tTogether \in BOOLEAN /\ tLines = <<>> /\ tEnded = FALSE /\ tFinished = FALSE
      /\ tIds = 0 /\ tPartial = FALSE /\ tInvented = FALSE
      /\ tAt = [r \in T!Runs |-> "rest"] /\ tSeen = [r \in T!Runs |-> <<>>]
      /\ tGot = [r \in T!Runs |-> T!Nothing] /\ tOwn = [r \in T!Runs |-> T!Unasked]
  BY DEF T!Init
<1>2. TheCallIsLines
  BY <1>1 DEF TheCallIsLines, Numbered
<1>3. LinesAreRead
  BY <1>1 DEF LinesAreRead, Numbered, SameSpeakers
<1>4. AnswersAreKept
  <2>1. /\ DOMAIN T!Nothing = T!Tasks /\ DOMAIN T!Unasked = T!Tasks
        /\ \A t \in T!Tasks : T!Nothing[t] = None
        /\ "escalation" \in T!Tasks /\ "complaints" \in T!Tasks /\ "sentiment" \in T!Tasks
    BY DEF T!Nothing, T!Unasked, T!Tasks
  <2>2. \A r \in T!Runs : ToldOf(tGot[r], tSeen[r]) /\ ToldInTurn(tAt[r], tGot[r], tOwn[r])
    BY <1>1, <2>1 DEF ToldOf, ToldInTurn, AsksAlone
  <2> QED BY <1>1, <2>2 DEF AnswersAreKept
<1>5. FinalIsOfTheCall
  <2>1. "final" \in T!Runs
    BY DEF T!Runs
  <2> QED BY <1>1, <2>1 DEF FinalIsOfTheCall, Asking, T!LastLinesAreRated
<1> QED BY <1>1, <1>2, <1>3, <1>4, <1>5 DEF TagsInv

(* What annotating does to a line: its number, words and speaker stay, and  *)
(* what is found is of its words.                                           *)
LEMMA AnnotatedIs ==
    ASSUME NEW line \in Lines, NEW conversation \in Seq(Lines), NEW tones, NEW raised,
           \A m, n \in DOMAIN conversation : conversation[m].id = conversation[n].id => m = n,
           raised = None \/ raised \in [DOMAIN conversation -> SUBSET Categories],
           \A n \in tones : n \in DOMAIN conversation /\ conversation[n].role \in T!Rated,
           \A n \in DOMAIN conversation :
             conversation[n].id = line.id => conversation[n].role = line.role,
           FoundOfItself(line)
    PROVE  LET a == T!Annotated(line, conversation, tones, raised) IN
           /\ a \in Lines /\ a.id = line.id /\ a.words = line.words /\ a.role = line.role
           /\ FoundOfItself(a)
           /\ line.tone # None => a.tone # None
           /\ \A n \in tones :
                conversation[n].id = line.id /\ conversation[n].words = line.words
                => a.tone # None
<1> DEFINE n == T!NumberIn(conversation, line)
           a == T!Annotated(line, conversation, tones, raised)
           Found == \E m \in DOMAIN conversation : conversation[m].id = line.id
<1>1. T!Judgement(line) \in Nat \X Nat /\ T!Judgement(line) # None
  BY NoneIsNothing DEF Lines, T!Judgement
<1>2. DOMAIN conversation \subseteq Nat \ {0}
  OBVIOUS
<1>3. IF Found THEN n \in DOMAIN conversation /\ conversation[n].id = line.id ELSE n = 0
  BY DEF T!NumberIn
<1>4. \A m \in DOMAIN conversation : conversation[m].id = line.id => m = n
  BY <1>3
<1> HIDE DEF n
<1>5. CASE n = 0 \/ conversation[n].words # line.words
  <2>1. a = line
    BY <1>5 DEF n, T!Annotated
  <2>2. \A m \in tones : ~(conversation[m].id = line.id /\ conversation[m].words = line.words)
    BY <1>2, <1>4, <1>5
  <2> QED BY <2>1, <2>2
<1>6. CASE n # 0 /\ conversation[n].words = line.words
  <2>1. n \in DOMAIN conversation /\ conversation[n].id = line.id
    BY <1>3, <1>6
  <2>2. T!Judgement(conversation[n]) = T!Judgement(line)
    BY <1>6, <2>1 DEF T!Judgement
  <2> DEFINE tone == IF n \in tones THEN T!Judgement(line) ELSE line.tone
             up == IF raised = None THEN line.raised ELSE <<T!Judgement(line), raised[n]>>
  <2>3. a = [line EXCEPT !.tone = tone, !.raised = up]
    BY <1>6, <2>2 DEF n, T!Annotated
  <2>4. tone \in {None} \cup (Nat \X Nat)
    BY <1>1 DEF Lines
  <2>5. up \in {None} \cup ((Nat \X Nat) \X SUBSET Categories)
    BY <1>1, <2>1 DEF Lines
  <2>6. up # None => up[1] = T!Judgement(line)
    BY DEF FoundOfItself
  <2>7. tone # None => tone = T!Judgement(line) /\ line.role \in T!Rated
    BY <2>1 DEF FoundOfItself
  <2>8. line.tone # None => tone # None
    BY <1>1
  <2>9. \A m \in tones : conversation[m].id = line.id => tone # None
    BY <1>1, <1>4
  <2> HIDE DEF tone, up, a
  <2>10. /\ a \in Lines /\ a.id = line.id /\ a.words = line.words /\ a.role = line.role
         /\ a.tone = tone /\ a.raised = up
    BY <2>3, <2>4, <2>5 DEF Lines
  <2>11. T!Judgement(a) = T!Judgement(line)
    BY <2>10 DEF T!Judgement
  <2> QED BY <2>6, <2>7, <2>8, <2>9, <2>10, <2>11 DEF a, FoundOfItself
<1> QED BY <1>5, <1>6

\* What raised() is given of the complaints told.
LEMMA LinesAreRaised ==
    ASSUME NEW conversation, NEW items, \A i \in items : i.category \in Categories
    PROVE  \/ T!LineCategories(conversation, items) = None
           \/ T!LineCategories(conversation, items) \in [DOMAIN conversation -> SUBSET Categories]
<1> DEFINE named == {i \in items : i.line \in DOMAIN conversation}
           of(n) == {i.category : i \in {x \in named : x.line = n}}
<1>1. \A n : of(n) \in SUBSET Categories
  OBVIOUS
<1>2. T!LineCategories(conversation, items)
        = IF named = {} THEN None ELSE [n \in DOMAIN conversation |-> of(n)]
  BY DEF T!LineCategories
<1> HIDE DEF named, of
<1> QED BY <1>1, <1>2

\* A line is added with a number no line has had.
LEMMA LineIsAdded ==
    ASSUME TheCallIsLines, NEW role \in LineRoles, T!AddLine(role)
    PROVE  /\ TheCallIsLines' /\ ~tEnded /\ tIds' = tIds + 1
           /\ tLines' = Append(tLines, T!NewLine(tIds, role))
           /\ SameSpeakers(tLines', tLines')
           /\ \A conversation \in Seq(Lines) :
                Numbered(conversation, tIds) /\ SameSpeakers(conversation, tLines)
                => Numbered(conversation, tIds') /\ SameSpeakers(conversation, tLines')
<1> DEFINE new == T!NewLine(tIds, role)
<1>1. /\ ~tEnded /\ tIds' = tIds + 1 /\ tLines' = Append(tLines, new)
      /\ tLines \in Seq(Lines) /\ tIds \in Nat /\ Numbered(tLines, tIds)
      /\ \A n \in DOMAIN tLines : FoundOfItself(tLines[n])
  BY DEF T!AddLine, TheCallIsLines
<1>2. new \in Lines /\ new.id = tIds /\ new.role = role /\ FoundOfItself(new)
  BY <1>1 DEF T!NewLine, Lines, FoundOfItself
<1> HIDE DEF new
<1>3. /\ tLines' \in Seq(Lines)
      /\ DOMAIN tLines' = DOMAIN tLines \cup {Len(tLines) + 1}
      /\ tLines'[Len(tLines) + 1] = new
      /\ Len(tLines) + 1 \notin DOMAIN tLines
      /\ \A n \in DOMAIN tLines : tLines'[n] = tLines[n]
  <2>1. Len(tLines) \in Nat /\ DOMAIN tLines = 1..Len(tLines)
    BY <1>1
  <2>2. /\ tLines' \in Seq(Lines) /\ DOMAIN tLines' = 1..(Len(tLines) + 1)
        /\ tLines'[Len(tLines) + 1] = new
        /\ \A n \in 1..Len(tLines) : tLines'[n] = tLines[n]
    BY <1>1, <1>2
  <2> QED BY <2>1, <2>2
<1>4. \A n \in DOMAIN tLines : tLines[n] \in Lines
  BY <1>1
<1>5. \A n \in DOMAIN tLines : tLines[n].id \in Nat /\ tLines[n].id < tIds
  BY <1>1, <1>4 DEF Numbered, Lines
<1>6. Numbered(tLines', tIds')
  BY <1>1, <1>2, <1>3, <1>5 DEF Numbered
<1>7. \A n \in DOMAIN tLines' : FoundOfItself(tLines'[n])
  BY <1>1, <1>2, <1>3
<1>8. TheCallIsLines'
  BY <1>1, <1>3, <1>6, <1>7 DEF TheCallIsLines
<1>9. ASSUME NEW conversation \in Seq(Lines), Numbered(conversation, tIds),
             SameSpeakers(conversation, tLines)
      PROVE  Numbered(conversation, tIds') /\ SameSpeakers(conversation, tLines')
  <2>1. \A n \in DOMAIN conversation : conversation[n].id \in Nat /\ conversation[n].id < tIds
    <3>1. \A n \in DOMAIN conversation : conversation[n] \in Lines
      OBVIOUS
    <3> QED BY <1>9, <3>1 DEF Numbered, Lines
  <2>2. Numbered(conversation, tIds')
    BY <1>1, <1>9, <2>1 DEF Numbered
  <2>3. SameSpeakers(conversation, tLines')
    BY <1>1, <1>2, <1>3, <1>9, <2>1 DEF SameSpeakers
  <2> QED BY <2>2, <2>3
<1>10. SameSpeakers(tLines', tLines')
  BY <1>6 DEF SameSpeakers, Numbered
<1> QED BY <1>1, <1>8, <1>9, <1>10 DEF new

\* A call that goes on is not analysed for the last time, nor has been.
LEMMA NotFinalYet ==
    ASSUME FinalIsOfTheCall, ~tEnded
    PROVE  ~Asking /\ ~tFinished
BY DEF FinalIsOfTheCall

\* Answers are not lost as the call goes on.
LEMMA AnswersWait ==
    ASSUME AnswersAreKept, UNCHANGED <<tAt, tSeen, tGot, tOwn>>
    PROVE  AnswersAreKept'
<1>1. \A r \in T!Runs : ToldOf(tGot'[r], tSeen'[r]) /\ ToldInTurn(tAt'[r], tGot'[r], tOwn'[r])
  BY DEF AnswersAreKept
<1>2. /\ tAt' \in [T!Runs -> {"rest", "together", "store"} \cup T!Tasks]
      /\ DOMAIN tGot' = T!Runs /\ DOMAIN tOwn' = T!Runs
  BY DEF AnswersAreKept
<1> QED BY <1>1, <1>2 DEF AnswersAreKept

LEMMA TheCallGoesOn ==
    ASSUME TagsInv, T!Speak \/ T!Grow \/ T!EndCall
    PROVE  TagsInv'
<1>1. TheCallIsLines /\ LinesAreRead /\ AnswersAreKept /\ FinalIsOfTheCall /\ ~tInvented
  BY DEF TagsInv
<1>2. /\ ~tEnded /\ UNCHANGED <<tTogether, tFinished, tAt, tSeen, tGot, tOwn, tPartial, tInvented>>
  BY DEF T!Speak, T!Grow, T!EndCall, T!AddLine, T!answers
<1>3. ~Asking /\ ~tFinished
  BY <1>1, <1>2, NotFinalYet
<1>4. AnswersAreKept'
  BY <1>1, <1>2, AnswersWait
<1>5. tEnded' \in BOOLEAN
  BY <1>1 DEF T!Speak, T!Grow, T!EndCall, FinalIsOfTheCall
<1>6. FinalIsOfTheCall'
  BY <1>1, <1>2, <1>3, <1>5 DEF FinalIsOfTheCall, Asking, T!LastLinesAreRated
<1>7. TheCallIsLines' /\ LinesAreRead'
  <2>1. CASE T!Speak
    <3>1. PICK role \in LineRoles : T!AddLine(role)
      BY <2>1 DEF T!Speak
    <3>2. TheCallIsLines' /\ \A conversation \in Seq(Lines) :
            Numbered(conversation, tIds) /\ SameSpeakers(conversation, tLines)
            => Numbered(conversation, tIds') /\ SameSpeakers(conversation, tLines')
      BY <1>1, <3>1, LineIsAdded
    <3>3. \A r \in T!Runs : Numbered(tSeen[r], tIds') /\ SameSpeakers(tSeen[r], tLines')
      BY <1>1, <3>2 DEF LinesAreRead
    <3> QED BY <1>1, <1>2, <3>2, <3>3 DEF LinesAreRead
  <2>2. CASE T!Grow
    <3> DEFINE n == Len(tLines)
               new == [T!NewLine(tLines[n].id, tLines[n].role) EXCEPT !.words = tLines[n].words + 1]
    <3>1. /\ tLines # <<>> /\ tLines' = [tLines EXCEPT ![n] = new] /\ UNCHANGED tIds
          /\ tLines \in Seq(Lines) /\ tIds \in Nat /\ Numbered(tLines, tIds)
          /\ \A m \in DOMAIN tLines : FoundOfItself(tLines[m])
      BY <1>1, <2>2 DEF T!Grow, TheCallIsLines
    <3>2. n \in DOMAIN tLines /\ tLines[n] \in Lines
      BY <3>1
    <3>3. new \in Lines /\ new.id = tLines[n].id /\ new.role = tLines[n].role /\ FoundOfItself(new)
      BY <3>2 DEF T!NewLine, Lines, FoundOfItself
    <3> HIDE DEF new, n
    <3>4. /\ tLines' \in Seq(Lines) /\ DOMAIN tLines' = DOMAIN tLines /\ tLines'[n] = new
          /\ \A m \in DOMAIN tLines : m # n => tLines'[m] = tLines[m]
      BY <3>1, <3>2, <3>3
    <3>5. \A m \in DOMAIN tLines :
            tLines'[m].id = tLines[m].id /\ tLines'[m].role = tLines[m].role
      BY <3>3, <3>4
    <3>6. Numbered(tLines', tIds') /\ \A m \in DOMAIN tLines' : FoundOfItself(tLines'[m])
      BY <3>1, <3>3, <3>4, <3>5 DEF Numbered
    <3>7. TheCallIsLines'
      BY <3>1, <3>4, <3>6 DEF TheCallIsLines
    <3>8. \A r \in T!Runs : Numbered(tSeen[r], tIds') /\ SameSpeakers(tSeen[r], tLines')
      BY <1>1, <3>1, <3>4, <3>5 DEF LinesAreRead, SameSpeakers
    <3> QED BY <1>1, <1>2, <3>7, <3>8 DEF LinesAreRead
  <2>3. CASE T!EndCall
    <3>1. UNCHANGED <<tLines, tIds>>
      BY <2>3 DEF T!EndCall
    <3> QED BY <1>1, <1>2, <3>1 DEF TheCallIsLines, LinesAreRead
  <2> QED BY <2>1, <2>2, <2>3
<1> QED BY <1>1, <1>2, <1>4, <1>6, <1>7 DEF TagsInv

LEMMA TagConstants ==
    /\ LineLimit \in Nat \ {0} /\ MaxLines \in Nat \ {0}
    /\ "final" \in T!Runs /\ "live" \in T!Runs
    /\ \A r \in Hands : r \in T!Runs /\ r # "live" /\ r # "final"
    /\ "complaints" \in T!Tasks /\ "sentiment" \in T!Tasks /\ "escalation" \in T!Tasks
    /\ \A t \in T!Tasks : T!Nothing[t] = None
    /\ DOMAIN T!Nothing = T!Tasks /\ DOMAIN T!Unasked = T!Tasks
<1>1. T!LineTagsAssumption
  BY PartsAssumption
<1> HIDE DEF S!LiveSpeechAssumption
<1> QED BY <1>1 DEF T!LineTagsAssumption, T!Runs, T!Tasks, T!Nothing, T!Unasked

\* An analysis begins with nothing told.
LEMMA AnalysisBegins ==
    ASSUME AnswersAreKept, LinesAreRead, NEW r \in T!Runs, NEW conversation \in Seq(Lines),
           NEW stage \in {"together", "complaints"}, T!Begin(r, conversation, stage)
    PROVE  /\ AnswersAreKept'
           /\ tSeen' \in [T!Runs -> Seq(Lines)]
           /\ tAt'[r] = stage /\ tSeen'[r] = conversation /\ tGot'[r] = T!Nothing
           /\ UNCHANGED <<tGot, tOwn, tAgain>>
           /\ \A q \in T!Runs : q # r => tAt'[q] = tAt[q] /\ tSeen'[q] = tSeen[q]
<1>1. /\ tAt[r] = "rest" /\ tAt' = [tAt EXCEPT ![r] = stage]
      /\ tSeen' = [tSeen EXCEPT ![r] = conversation]
      /\ UNCHANGED <<tGot, tOwn, tAgain>>
  BY DEF T!Begin
<1>2. /\ tAt \in [T!Runs -> {"rest", "together", "store"} \cup T!Tasks]
      /\ DOMAIN tGot = T!Runs /\ DOMAIN tOwn = T!Runs
      /\ \A q \in T!Runs : ToldOf(tGot[q], tSeen[q]) /\ ToldInTurn(tAt[q], tGot[q], tOwn[q])
  BY DEF AnswersAreKept
<1>3. tSeen \in [T!Runs -> Seq(Lines)]
  BY DEF LinesAreRead
<1>4. tSeen' \in [T!Runs -> Seq(Lines)] /\ tSeen'[r] = conversation
      /\ \A q \in T!Runs : q # r => tSeen'[q] = tSeen[q]
  BY <1>1, <1>3
<1>5. tAt' \in [T!Runs -> {"rest", "together", "store"} \cup T!Tasks] /\ tAt'[r] = stage
      /\ \A q \in T!Runs : q # r => tAt'[q] = tAt[q]
  BY <1>1, <1>2, TagConstants
<1>6. tGot[r] = T!Nothing /\ DOMAIN tOwn[r] = T!Tasks
  BY <1>1, <1>2 DEF ToldInTurn
<1>7. ToldOf(tGot'[r], tSeen'[r]) /\ ToldInTurn(tAt'[r], tGot'[r], tOwn'[r])
  BY <1>1, <1>5, <1>6, TagConstants DEF ToldOf, ToldInTurn, AsksAlone
<1>8. \A q \in T!Runs : ToldOf(tGot'[q], tSeen'[q]) /\ ToldInTurn(tAt'[q], tGot'[q], tOwn'[q])
  BY <1>1, <1>2, <1>4, <1>5, <1>7
<1> QED BY <1>1, <1>2, <1>4, <1>5, <1>6, <1>8 DEF AnswersAreKept

LEMMA LiveBegins ==
    ASSUME TagsInv, T!StartLive
    PROVE  TagsInv'
<1>1. TheCallIsLines /\ LinesAreRead /\ AnswersAreKept /\ FinalIsOfTheCall /\ ~tInvented
  BY DEF TagsInv
<1>2. /\ ~tEnded /\ T!Begin("live", tLines, T!FirstStage)
      /\ UNCHANGED <<tTogether, tLines, tEnded, tIds, tFinished, tPartial, tInvented>>
  BY DEF T!StartLive, T!call
<1>3. T!FirstStage \in {"together", "complaints"} /\ tLines \in Seq(Lines) /\ Numbered(tLines, tIds)
  BY <1>1 DEF T!FirstStage, TheCallIsLines
<1>4. /\ AnswersAreKept' /\ tSeen' \in [T!Runs -> Seq(Lines)] /\ tSeen'["live"] = tLines
      /\ \A q \in T!Runs : q # "live" => tAt'[q] = tAt[q] /\ tSeen'[q] = tSeen[q]
  BY <1>1, <1>2, <1>3, TagConstants, AnalysisBegins
<1>5. SameSpeakers(tLines, tLines)
  BY <1>3 DEF SameSpeakers, Numbered
<1>6. \A r \in T!Runs : Numbered(tSeen'[r], tIds') /\ SameSpeakers(tSeen'[r], tLines')
  BY <1>1, <1>2, <1>3, <1>4, <1>5 DEF LinesAreRead
<1>7. TheCallIsLines' /\ LinesAreRead'
  BY <1>1, <1>2, <1>4, <1>6 DEF TheCallIsLines, LinesAreRead
<1>8. FinalIsOfTheCall'
  BY <1>1, <1>2, <1>4, NotFinalYet, TagConstants
     DEF FinalIsOfTheCall, Asking, T!LastLinesAreRated
<1> QED BY <1>1, <1>2, <1>4, <1>7, <1>8 DEF TagsInv

LEMMA HandBegins ==
    ASSUME TagsInv, NEW r \in Hands, T!EnterByHand(r)
    PROVE  TagsInv'
<1>1. TheCallIsLines /\ LinesAreRead /\ AnswersAreKept /\ FinalIsOfTheCall /\ ~tInvented
  BY DEF TagsInv
<1>2. PICK role \in LineRoles : T!AddLine(role)
  BY DEF T!EnterByHand
<1>3. /\ T!Begin(r, tLines', T!FirstStage)
      /\ UNCHANGED <<tTogether, tEnded, tFinished, tPartial, tInvented>>
  BY DEF T!EnterByHand
<1>4. /\ TheCallIsLines' /\ ~tEnded
      /\ SameSpeakers(tLines', tLines')
      /\ \A conversation \in Seq(Lines) :
           Numbered(conversation, tIds) /\ SameSpeakers(conversation, tLines)
           => Numbered(conversation, tIds') /\ SameSpeakers(conversation, tLines')
  BY <1>1, <1>2, LineIsAdded
<1>5. T!FirstStage \in {"together", "complaints"} /\ tLines' \in Seq(Lines)
      /\ Numbered(tLines', tIds')
  BY <1>1, <1>4 DEF T!FirstStage, TheCallIsLines
<1>6. /\ AnswersAreKept' /\ tSeen' \in [T!Runs -> Seq(Lines)] /\ tSeen'[r] = tLines'
      /\ \A q \in T!Runs : q # r => tAt'[q] = tAt[q] /\ tSeen'[q] = tSeen[q]
  BY <1>1, <1>3, <1>5, TagConstants, AnalysisBegins
<1>7. \A q \in T!Runs : Numbered(tSeen'[q], tIds') /\ SameSpeakers(tSeen'[q], tLines')
  BY <1>1, <1>4, <1>5, <1>6 DEF LinesAreRead
<1>8. LinesAreRead'
  BY <1>6, <1>7 DEF LinesAreRead
<1>9. FinalIsOfTheCall'
  BY <1>1, <1>3, <1>4, <1>6, NotFinalYet, TagConstants
     DEF FinalIsOfTheCall, Asking, T!LastLinesAreRated
<1> QED BY <1>1, <1>3, <1>4, <1>6, <1>8, <1>9 DEF TagsInv

(* A call transcribed again has lines no line has had the number of.        *)
LEMMA TheCallIsRevised ==
    ASSUME TheCallIsLines, tLines' \in T!Revised, tIds' = tIds + MaxLines
    PROVE  /\ TheCallIsLines'
           /\ SameSpeakers(tLines', tLines')
           /\ \A conversation \in Seq(Lines) :
                Numbered(conversation, tIds) /\ SameSpeakers(conversation, tLines)
                => Numbered(conversation, tIds') /\ SameSpeakers(conversation, tLines')
<1>1. tIds \in Nat /\ MaxLines \in Nat
  BY TagConstants DEF TheCallIsLines
<1>2. PICK n \in 1..MaxLines, role \in [1..MaxLines -> LineRoles] :
        tLines' = [i \in 1..n |-> T!NewLine(tIds + i - 1, role[i])]
  BY DEF T!Revised
<1>3. n \in Nat /\ DOMAIN tLines' = 1..n
  BY <1>1, <1>2
<1>4. \A i \in 1..n : /\ tLines'[i] = T!NewLine(tIds + i - 1, role[i])
                      /\ role[i] \in LineRoles /\ tIds + i - 1 \in Nat /\ tIds + i - 1 < tIds'
  BY <1>1, <1>2
<1>5. \A i \in 1..n : tLines'[i] \in Lines /\ tLines'[i].id = tIds + i - 1
                      /\ FoundOfItself(tLines'[i])
  <2>1. \A id \in Nat, x \in LineRoles :
          T!NewLine(id, x) \in Lines /\ T!NewLine(id, x).id = id
          /\ FoundOfItself(T!NewLine(id, x))
    BY DEF T!NewLine, Lines, FoundOfItself
  <2> QED BY <1>4, <2>1
<1>6. tLines' \in Seq(Lines)
  <2> DEFINE e(i) == T!NewLine(tIds + i - 1, role[i])
  <2>1. \A i \in 1..n : e(i) \in Lines
    BY <1>4, <1>5
  <2>2. tLines' = [i \in 1..n |-> e(i)]
    BY <1>2
  <2> HIDE DEF e, Lines
  <2>3. [i \in 1..n |-> e(i)] \in [1..n -> Lines]
    BY <2>1
  <2> QED BY <1>3, <2>2, <2>3, SeqDef
<1>7. Numbered(tLines', tIds')
  BY <1>1, <1>3, <1>4, <1>5 DEF Numbered
<1>8. TheCallIsLines'
  <2>1. tIds' \in Nat /\ \A i \in DOMAIN tLines' : FoundOfItself(tLines'[i])
    BY <1>1, <1>3, <1>5
  <2> QED BY <1>6, <1>7, <2>1 DEF TheCallIsLines
<1>9. ASSUME NEW conversation \in Seq(Lines), Numbered(conversation, tIds)
      PROVE  Numbered(conversation, tIds') /\ SameSpeakers(conversation, tLines')
  <2>1. \A i \in DOMAIN conversation : conversation[i].id \in Nat /\ conversation[i].id < tIds
    <3>1. \A i \in DOMAIN conversation : conversation[i] \in Lines
      OBVIOUS
    <3> QED BY <1>9, <3>1 DEF Numbered, Lines
  <2> QED BY <1>1, <1>3, <1>5, <1>9, <2>1 DEF Numbered, SameSpeakers
<1>10. SameSpeakers(tLines', tLines')
  BY <1>7 DEF SameSpeakers, Numbered
<1> QED BY <1>8, <1>9, <1>10

LEMMA FinalBegins ==
    ASSUME TagsInv, T!StartFinal
    PROVE  TagsInv'
<1>1. TheCallIsLines /\ LinesAreRead /\ AnswersAreKept /\ FinalIsOfTheCall /\ ~tInvented
  BY DEF TagsInv
<1>2. /\ tEnded /\ ~tFinished /\ T!Begin("final", tLines', "complaints") /\ tPartial' = FALSE
      /\ UNCHANGED <<tTogether, tEnded, tFinished, tInvented>>
      /\ \/ UNCHANGED <<tLines, tIds>>
         \/ tLines' \in T!Revised /\ tIds' = tIds + MaxLines
  BY DEF T!StartFinal
<1>3. /\ TheCallIsLines' /\ SameSpeakers(tLines', tLines')
      /\ \A conversation \in Seq(Lines) :
           Numbered(conversation, tIds) /\ SameSpeakers(conversation, tLines)
           => Numbered(conversation, tIds') /\ SameSpeakers(conversation, tLines')
  <2>1. CASE UNCHANGED <<tLines, tIds>>
    <3>1. TheCallIsLines'
      BY <1>1, <2>1 DEF TheCallIsLines
    <3>2. SameSpeakers(tLines, tLines)
      BY <1>1 DEF TheCallIsLines, Numbered, SameSpeakers
    <3> QED BY <2>1, <3>1, <3>2
  <2>2. CASE tLines' \in T!Revised /\ tIds' = tIds + MaxLines
    BY <1>1, <2>2, TheCallIsRevised
  <2> QED BY <1>2, <2>1, <2>2
<1>4. tLines' \in Seq(Lines) /\ Numbered(tLines', tIds')
  BY <1>3 DEF TheCallIsLines
<1>5. /\ AnswersAreKept' /\ tSeen' \in [T!Runs -> Seq(Lines)]
      /\ tAt'["final"] = "complaints" /\ tSeen'["final"] = tLines' /\ tGot'["final"] = T!Nothing
      /\ \A q \in T!Runs : q # "final" => tSeen'[q] = tSeen[q]
  BY <1>1, <1>2, <1>4, TagConstants, AnalysisBegins
<1>6. \A q \in T!Runs : Numbered(tSeen'[q], tIds') /\ SameSpeakers(tSeen'[q], tLines')
  BY <1>1, <1>3, <1>4, <1>5 DEF LinesAreRead
<1>7. LinesAreRead'
  BY <1>5, <1>6 DEF LinesAreRead
<1>8. ReadAsIs(tSeen'["final"], tLines')
  BY <1>5 DEF ReadAsIs
<1>9. FinalIsOfTheCall'
  <2>1. tGot'["final"]["sentiment"] = None
    BY <1>5, TagConstants
  <2>2. ~tFinished' /\ tEnded' /\ tAt'["final"] \notin {"together", "escalation"}
        /\ {tTogether', tEnded', tFinished', tPartial'} \subseteq BOOLEAN
    BY <1>1, <1>2, <1>5 DEF FinalIsOfTheCall
  <2> QED BY <1>8, <2>1, <2>2 DEF FinalIsOfTheCall, T!LastLinesAreRated
<1> QED BY <1>1, <1>2, <1>3, <1>5, <1>7, <1>9 DEF TagsInv

\* A part of one run's answers that others do not touch.
LEMMA OthersAnswersStay ==
    ASSUME AnswersAreKept, NEW r \in T!Runs, NEW stage, NEW told, NEW owned,
           stage \in {"rest", "together", "store"} \cup T!Tasks,
           tAt' = [tAt EXCEPT ![r] = stage], tGot' = [tGot EXCEPT ![r] = told],
           tOwn' = [tOwn EXCEPT ![r] = owned],
           \A q \in T!Runs : q # r => tSeen'[q] = tSeen[q],
           ToldOf(told, tSeen'[r]), ToldInTurn(stage, told, owned)
    PROVE  /\ AnswersAreKept'
           /\ tAt'[r] = stage /\ tGot'[r] = told
           /\ \A q \in T!Runs : q # r => tAt'[q] = tAt[q] /\ tGot'[q] = tGot[q]
<1>1. /\ tAt \in [T!Runs -> {"rest", "together", "store"} \cup T!Tasks]
      /\ DOMAIN tGot = T!Runs /\ DOMAIN tOwn = T!Runs
      /\ \A q \in T!Runs : ToldOf(tGot[q], tSeen[q]) /\ ToldInTurn(tAt[q], tGot[q], tOwn[q])
  BY DEF AnswersAreKept
<1>2. /\ tAt' \in [T!Runs -> {"rest", "together", "store"} \cup T!Tasks]
      /\ DOMAIN tGot' = T!Runs /\ DOMAIN tOwn' = T!Runs
      /\ tAt'[r] = stage /\ tGot'[r] = told /\ tOwn'[r] = owned
      /\ \A q \in T!Runs : q # r => tAt'[q] = tAt[q] /\ tGot'[q] = tGot[q] /\ tOwn'[q] = tOwn[q]
  BY <1>1
<1>3. \A q \in T!Runs : ToldOf(tGot'[q], tSeen'[q]) /\ ToldInTurn(tAt'[q], tGot'[q], tOwn'[q])
  BY <1>1, <1>2
<1> QED BY <1>2, <1>3 DEF AnswersAreKept

\* The call, what was read of it and what is known stand while it is asked.
LEMMA AskingStays ==
    ASSUME TagsInv, AnswersAreKept', NEW r \in T!Runs, tSeen' \in [T!Runs -> Seq(Lines)],
           UNCHANGED <<tTogether, tLines, tEnded, tIds, tFinished>>, ~tInvented', tPartial' \in BOOLEAN,
           \A q \in T!Runs : tSeen'[q] = tSeen[q] \/ tSeen'[q] = <<>>,
           r # "final" => /\ tAt'["final"] = tAt["final"] /\ tGot'["final"] = tGot["final"]
                          /\ tSeen'["final"] = tSeen["final"] /\ UNCHANGED tPartial,
           r = "final" => /\ tAt'["final"] # "together"
                          /\ tAt'["final"] = "escalation" => tFinished
                          /\ Asking \/ tFinished
                          /\ (tPartial => tPartial') \/ ~tFinished
                          /\ Asking' =>
                               /\ Asking /\ tSeen'["final"] = tSeen["final"]
                               /\ tGot'["final"]["sentiment"] # None /\ ~tPartial' =>
                                    \A n \in T!LinesToRate(tSeen["final"]) :
                                      n \in tGot'["final"]["sentiment"]
    PROVE  TagsInv'
<1>1. TheCallIsLines /\ LinesAreRead /\ AnswersAreKept /\ FinalIsOfTheCall /\ ~tInvented
  BY DEF TagsInv
<1>2. TheCallIsLines'
  BY <1>1 DEF TheCallIsLines
<1>3. \A q \in T!Runs : Numbered(tSeen'[q], tIds') /\ SameSpeakers(tSeen'[q], tLines')
  <2>1. Numbered(<<>>, tIds) /\ SameSpeakers(<<>>, tLines)
    BY DEF Numbered, SameSpeakers
  <2> QED BY <1>1, <2>1 DEF LinesAreRead
<1>4. LinesAreRead'
  BY <1>3 DEF LinesAreRead
<1>5. /\ {tTogether', tEnded', tFinished', tPartial'} \subseteq BOOLEAN
      /\ tFinished' => tEnded'
      /\ tAt'["final"] # "together"
      /\ tAt'["final"] = "escalation" => tFinished'
  BY <1>1 DEF FinalIsOfTheCall
<1>6. Asking' =>
        /\ tEnded' /\ ~tFinished' /\ ReadAsIs(tSeen'["final"], tLines')
        /\ tGot'["final"]["sentiment"] # None /\ ~tPartial' =>
             \A n \in T!LinesToRate(tSeen'["final"]) : n \in tGot'["final"]["sentiment"]
  BY <1>1 DEF FinalIsOfTheCall, Asking
<1>7. T!LastLinesAreRated'
  BY <1>1 DEF FinalIsOfTheCall, Asking, T!LastLinesAreRated
<1>8. FinalIsOfTheCall'
  BY <1>5, <1>6, <1>7 DEF FinalIsOfTheCall
<1> QED BY <1>1, <1>2, <1>4, <1>8 DEF TagsInv

\* What is still to be asked for comes first.
LEMMA NextStageIs ==
    ASSUME NEW told, NEW owned, DOMAIN owned = T!Tasks,
           \A t \in {"complaints", "sentiment"} :
             told[t] # None => owned[t] \in {"answered", "unusable"}
    PROVE  /\ ToldInTurn(T!NextStage(told), told, owned)
           /\ T!NextStage(told) \in {"complaints", "sentiment", "store"}
BY DEF T!NextStage, ToldInTurn, AsksAlone

\* Answers are read for what they are of.
LEMMA AnswersAreRead ==
    ASSUME NEW conversation, NEW answer
    PROVE  /\ \A i \in T!ParseItems(answer) : i.category \in Categories
           /\ \A n \in T!LineTones(answer, conversation) : n \in T!LinesToRate(conversation)
           /\ \A q \in T!Grounded(answer, conversation) : T!QuotedIn(q, conversation)
BY DEF T!ParseItems, T!LineTones, T!Grounded

\* The request is made once more.
LEMMA AskedAgain ==
    ASSUME TagsInv, NEW r \in T!Runs, T!AskAgain(r), UNCHANGED tOwn,
           UNCHANGED <<tTogether, tLines, tEnded, tIds, tFinished, tSeen, tPartial, tInvented>>
    PROVE  TagsInv'
<1>1. TheCallIsLines /\ LinesAreRead /\ AnswersAreKept /\ FinalIsOfTheCall /\ ~tInvented
  BY DEF TagsInv
<1>2. UNCHANGED <<tAt, tGot>>
  BY DEF T!AskAgain
<1>3. AnswersAreKept'
  BY <1>1, <1>2, AnswersWait
<1>4. TheCallIsLines' /\ LinesAreRead' /\ FinalIsOfTheCall'
  BY <1>1, <1>2 DEF TheCallIsLines, LinesAreRead, FinalIsOfTheCall, Asking,
     T!LastLinesAreRated
<1> QED BY <1>1, <1>3, <1>4 DEF TagsInv

LEMMA TogetherStays ==
    ASSUME TagsInv, NEW r \in T!Runs, T!AskTogether(r)
    PROVE  TagsInv'
<1>1. TheCallIsLines /\ LinesAreRead /\ AnswersAreKept /\ FinalIsOfTheCall /\ ~tInvented
  BY DEF TagsInv
<1>2. /\ tAt[r] = "together"
      /\ UNCHANGED <<tTogether, tLines, tEnded, tIds, tFinished, tSeen, tPartial, tInvented>>
  BY DEF T!AskTogether, T!call
<1>3. r # "final"
  BY <1>1, <1>2 DEF FinalIsOfTheCall
<1>4. CASE T!AskAgain(r) /\ UNCHANGED tOwn
  BY <1>2, <1>4, AskedAgain
<1>5. ASSUME NEW missing \in SUBSET T!Tasks, T!AnswerTogether(r, missing) PROVE TagsInv'
  <2> DEFINE told(c, s, e) ==
               [complaints |-> T!Section("complaints", missing, T!ParseItems(c)),
                sentiment  |-> T!Section("sentiment", missing, T!LineTones(s, tSeen[r])),
                escalation |-> T!Section("escalation", missing, T!Grounded(e, tSeen[r]))]
             owned == [t \in T!Tasks |-> IF t \in missing THEN "no" ELSE "answered"]
  <2>1. PICK c, s, e : T!Proceed(r, told(c, s, e))
    BY <1>5 DEF T!AnswerTogether
  <2>2. tOwn' = [tOwn EXCEPT ![r] = owned]
    BY <1>5 DEF T!AnswerTogether, T!AnsweredBy
  <2>3. /\ told(c, s, e)["complaints"] = IF "complaints" \in missing THEN None ELSE T!ParseItems(c)
        /\ told(c, s, e)["sentiment"]
             = IF "sentiment" \in missing THEN None ELSE T!LineTones(s, tSeen[r])
        /\ told(c, s, e)["escalation"]
             = IF "escalation" \in missing THEN None ELSE T!Grounded(e, tSeen[r])
        /\ DOMAIN told(c, s, e) = T!Tasks
    BY DEF T!Section, T!Tasks
  <2>4. ToldOf(told(c, s, e), tSeen[r])
    BY <2>3, AnswersAreRead DEF ToldOf
  <2>5. DOMAIN owned = T!Tasks /\ \A t \in {"complaints", "sentiment"} :
          told(c, s, e)[t] # None => owned[t] \in {"answered", "unusable"}
    BY <2>3, TagConstants
  <2> HIDE DEF told, owned
  <2>6. ToldInTurn(T!NextStage(told(c, s, e)), told(c, s, e), owned)
        /\ T!NextStage(told(c, s, e)) \in {"complaints", "sentiment", "store"}
    BY <2>5, NextStageIs
  <2>7. /\ tGot' = [tGot EXCEPT ![r] = told(c, s, e)]
        /\ tAt' = [tAt EXCEPT ![r] = T!NextStage(told(c, s, e))]
    BY <2>1 DEF T!Proceed
  <2>8. /\ AnswersAreKept'
        /\ \A q \in T!Runs : q # r => tAt'[q] = tAt[q] /\ tGot'[q] = tGot[q]
    BY <1>1, <1>2, <2>2, <2>4, <2>6, <2>7, OthersAnswersStay, TagConstants
  <2>9. tSeen' \in [T!Runs -> Seq(Lines)]
    BY <1>1, <1>2 DEF LinesAreRead
  <2>10. ~tInvented' /\ tPartial' \in BOOLEAN
    BY <1>1, <1>2 DEF FinalIsOfTheCall
  <2>11. \A q \in T!Runs : tSeen'[q] = tSeen[q]
    BY <1>2
  <2> HIDE DEF TagsInv
  <2> QED BY <1>2, <1>3, <2>8, <2>9, <2>10, <2>11, AskingStays, TagConstants
<1> QED BY <1>4, <1>5 DEF T!AskTogether

\* Nothing is kept of an analysis that is over.
LEMMA ForgetIs ==
    ASSUME TagsInv, NEW r \in T!Runs, T!Forget(r)
    PROVE  /\ AnswersAreKept' /\ tSeen' \in [T!Runs -> Seq(Lines)]
           /\ tAt'[r] = "rest"
           /\ \A q \in T!Runs : tSeen'[q] = tSeen[q] \/ tSeen'[q] = <<>>
           /\ \A q \in T!Runs : q # r =>
                tAt'[q] = tAt[q] /\ tGot'[q] = tGot[q] /\ tSeen'[q] = tSeen[q]
<1>1. /\ tAt' = [tAt EXCEPT ![r] = "rest"] /\ tSeen' = [tSeen EXCEPT ![r] = <<>>]
      /\ tGot' = [tGot EXCEPT ![r] = T!Nothing] /\ tOwn' = [tOwn EXCEPT ![r] = T!Unasked]
  BY DEF T!Forget
<1>2. AnswersAreKept /\ tSeen \in [T!Runs -> Seq(Lines)]
  BY DEF TagsInv, LinesAreRead
<1>3. /\ tSeen' \in [T!Runs -> Seq(Lines)] /\ tSeen'[r] = <<>>
      /\ \A q \in T!Runs : q # r => tSeen'[q] = tSeen[q]
  BY <1>1, <1>2
<1>4. ToldOf(T!Nothing, tSeen'[r]) /\ ToldInTurn("rest", T!Nothing, T!Unasked)
  BY TagConstants DEF ToldOf, ToldInTurn, AsksAlone
<1> QED BY <1>1, <1>2, <1>3, <1>4, OthersAnswersStay

\* The analysis is over, and the call is what it was.
LEMMA ForgottenStays ==
    ASSUME TagsInv, NEW r \in T!Runs, T!Forget(r),
           UNCHANGED <<tTogether, tLines, tEnded, tIds, tFinished, tPartial>>, ~tInvented',
           r = "final" => Asking \/ tFinished
    PROVE  TagsInv'
<1>1. /\ AnswersAreKept' /\ tSeen' \in [T!Runs -> Seq(Lines)]
      /\ tAt'[r] = "rest"
      /\ \A q \in T!Runs : tSeen'[q] = tSeen[q] \/ tSeen'[q] = <<>>
      /\ \A q \in T!Runs : q # r =>
           tAt'[q] = tAt[q] /\ tGot'[q] = tGot[q] /\ tSeen'[q] = tSeen[q]
  BY ForgetIs
<1>2. r = "final" => ~Asking'
  BY <1>1 DEF Asking
<1>3. tPartial' \in BOOLEAN /\ ~tInvented'
  BY DEF TagsInv, FinalIsOfTheCall
<1> QED BY <1>1, <1>2, <1>3, AskingStays, TagConstants

LEMMA AloneStays ==
    ASSUME TagsInv, NEW r \in T!Runs, NEW task \in T!Tasks, T!AskAlone(r, task)
    PROVE  TagsInv'
<1>1. TheCallIsLines /\ LinesAreRead /\ AnswersAreKept /\ FinalIsOfTheCall /\ ~tInvented
  BY DEF TagsInv
<1>2. /\ tAt[r] = task /\ task \in {"complaints", "sentiment"}
      /\ UNCHANGED <<tTogether, tLines, tEnded, tIds, tFinished, tInvented>>
  BY DEF T!AskAlone, T!call, T!Tasks
<1>3. r = "final" => Asking
  BY <1>2 DEF Asking
<1>4. /\ DOMAIN tGot = T!Runs /\ DOMAIN tOwn = T!Runs
      /\ ToldOf(tGot[r], tSeen[r]) /\ ToldInTurn(tAt[r], tGot[r], tOwn[r])
  BY <1>1 DEF AnswersAreKept
<1>5. DOMAIN tGot[r] = T!Tasks /\ DOMAIN tOwn[r] = T!Tasks /\ tGot[r][task] = None
      /\ \A t \in {"complaints", "sentiment"} :
           tGot[r][t] # None => tOwn[r][t] \in {"answered", "unusable"}
  BY <1>2, <1>4 DEF ToldOf, ToldInTurn, AsksAlone
<1>6. CASE T!Forget(r) /\ UNCHANGED tPartial
  <2>1. ~tInvented'
    BY <1>1, <1>2
  <2> QED BY <1>2, <1>3, <1>6, <2>1, ForgottenStays
\* Answered, or given up.
<1>7. ASSUME NEW x, NEW mark \in {"answered", "unusable"},
             T!Proceed(r, [tGot[r] EXCEPT ![task] = x]), tOwn' = [tOwn EXCEPT ![r][task] = mark],
             UNCHANGED tSeen,
             tPartial' \in BOOLEAN,
             tPartial => tPartial',
             r # "final" => UNCHANGED tPartial,
             task = "complaints" => \A i \in x : i.category \in Categories,
             task = "sentiment" => \A n \in x : n \in T!LinesToRate(tSeen[r]),
             task = "sentiment" /\ r = "final" /\ ~tPartial' =>
               \A n \in T!LinesToRate(tSeen["final"]) : n \in x
      PROVE  TagsInv'
  <2> DEFINE told == [tGot[r] EXCEPT ![task] = x]
             owned == [tOwn[r] EXCEPT ![task] = mark]
  <2>1. DOMAIN told = T!Tasks /\ DOMAIN owned = T!Tasks
        /\ told[task] = x /\ owned[task] = mark
        /\ \A t \in T!Tasks : t # task => told[t] = tGot[r][t] /\ owned[t] = tOwn[r][t]
    BY <1>5
  <2>2. tOwn' = [tOwn EXCEPT ![r] = owned]
    BY <1>7
  <2> HIDE DEF told, owned
  <2>3. ToldOf(told, tSeen[r])
    BY <1>2, <1>4, <1>7, <2>1, TagConstants DEF ToldOf
  <2>4. \A t \in {"complaints", "sentiment"} :
          told[t] # None => owned[t] \in {"answered", "unusable"}
    BY <1>5, <1>7, <2>1, TagConstants
  <2>5. ToldInTurn(T!NextStage(told), told, owned)
        /\ T!NextStage(told) \in {"complaints", "sentiment", "store"}
    BY <2>1, <2>4, NextStageIs
  <2>6. tGot' = [tGot EXCEPT ![r] = told] /\ tAt' = [tAt EXCEPT ![r] = T!NextStage(told)]
    BY <1>7 DEF T!Proceed, told
  <2>7. /\ AnswersAreKept' /\ tGot'[r] = told /\ tAt'[r] = T!NextStage(told)
        /\ \A q \in T!Runs : q # r => tAt'[q] = tAt[q] /\ tGot'[q] = tGot[q]
    <3>1. ToldOf(told, tSeen'[r]) /\ \A q \in T!Runs : q # r => tSeen'[q] = tSeen[q]
      BY <1>7, <2>3
    <3>2. T!NextStage(told) \in {"rest", "together", "store"} \cup T!Tasks
      BY <2>5, TagConstants
    <3> DEFINE stage == T!NextStage(told)
    <3>3. stage \in {"rest", "together", "store"} \cup T!Tasks
      BY <3>2
    <3>4. ToldInTurn(stage, told, owned)
      BY <2>5
    <3>5. tAt' = [tAt EXCEPT ![r] = stage] /\ tGot' = [tGot EXCEPT ![r] = told]
      BY <2>6
    <3>6. \A q \in T!Runs : q # r => tSeen'[q] = tSeen[q]
      BY <3>1
    <3>7. ToldOf(told, tSeen'[r])
      BY <3>1
    <3> HIDE DEF stage
    <3>8. /\ AnswersAreKept'
          /\ tAt'[r] = stage /\ tGot'[r] = told
          /\ \A q \in T!Runs : q # r => tAt'[q] = tAt[q] /\ tGot'[q] = tGot[q]
      BY <1>1, <2>2, <3>3, <3>4, <3>5, <3>6, <3>7, OthersAnswersStay, ZenonT(40)
    <3> QED BY <3>8 DEF stage
  <2>8. tSeen' \in [T!Runs -> Seq(Lines)]
    BY <1>1, <1>7 DEF LinesAreRead
  <2>9. ASSUME r = "final", tGot'["final"]["sentiment"] # None, ~tPartial'
        PROVE  \A n \in T!LinesToRate(tSeen["final"]) : n \in tGot'["final"]["sentiment"]
    <3>1. CASE task = "sentiment"
      BY <1>7, <2>1, <2>7, <2>9, <3>1
    <3>2. CASE task = "complaints"
      <4>1. tGot'["final"]["sentiment"] = tGot["final"]["sentiment"]
        BY <2>1, <2>7, <2>9, <3>2, TagConstants
      <4>2. ~tPartial
        BY <1>7, <2>9
      <4> QED BY <1>1, <1>3, <2>9, <4>1, <4>2 DEF FinalIsOfTheCall
    <3> QED BY <1>2, <3>1, <3>2
  <2>10. r = "final" => tAt'["final"] \notin {"together", "escalation"}
    BY <2>5, <2>7
  <2>11. ~tInvented' /\ \A q \in T!Runs : tSeen'[q] = tSeen[q]
    BY <1>1, <1>2, <1>7
  <2>12. r = "final" =>
           /\ tAt'["final"] # "together" /\ (tAt'["final"] = "escalation" => tFinished)
           /\ Asking \/ tFinished
           /\ (tPartial => tPartial') \/ ~tFinished
           /\ Asking' =>
                /\ Asking /\ tSeen'["final"] = tSeen["final"]
                /\ tGot'["final"]["sentiment"] # None /\ ~tPartial' =>
                     \A n \in T!LinesToRate(tSeen["final"]) : n \in tGot'["final"]["sentiment"]
    BY <1>3, <1>7, <2>9, <2>10
  <2>13. r # "final" =>
           /\ tAt'["final"] = tAt["final"] /\ tGot'["final"] = tGot["final"]
           /\ tSeen'["final"] = tSeen["final"] /\ UNCHANGED tPartial
    BY <1>7, <2>7, TagConstants
  <2> QED BY <1>2, <1>7, <2>7, <2>8, <2>11, <2>12, <2>13, AskingStays
<1>8. tPartial \in BOOLEAN
  BY <1>1 DEF FinalIsOfTheCall
<1>9. ASSUME NEW a, T!Proceed(r, [tGot[r] EXCEPT ![task] = T!Read(r, task, a)]),
             tOwn' = [tOwn EXCEPT ![r][task] = "answered"], UNCHANGED tSeen,
             tPartial' = (tPartial \/ (r = "final" /\ T!LeavesOut(r, task, a)))
      PROVE  TagsInv'
  <2> DEFINE x == T!Read(r, task, a)
  <2>1. task = "complaints" => x = T!ParseItems(a)
    BY DEF T!Read
  <2>2. task = "sentiment" => x = T!LineTones(a, tSeen[r])
    BY DEF T!Read
  <2>3. /\ task = "complaints" => \A i \in x : i.category \in Categories
        /\ task = "sentiment" => \A n \in x : n \in T!LinesToRate(tSeen[r])
    BY <2>1, <2>2, AnswersAreRead
  <2>4. task = "sentiment" /\ r = "final" /\ ~tPartial' =>
          \A n \in T!LinesToRate(tSeen["final"]) : n \in x
    BY <1>9, <2>2 DEF T!LeavesOut, T!LineTones
  <2>5. tPartial' \in BOOLEAN /\ (tPartial => tPartial') /\ (r # "final" => UNCHANGED tPartial)
    BY <1>8, <1>9
  <2> HIDE DEF x
  <2>6. T!Proceed(r, [tGot[r] EXCEPT ![task] = x])
    BY <1>9 DEF x
  <2> QED BY <1>7, <1>9, <2>3, <2>4, <2>5, <2>6
<1>10. ASSUME T!Proceed(r, [tGot[r] EXCEPT ![task] = {}]),
              tOwn' = [tOwn EXCEPT ![r][task] = "unusable"], UNCHANGED tSeen,
              tPartial' = (tPartial \/ r = "final")
       PROVE  TagsInv'
  <2>1. tPartial' \in BOOLEAN /\ (tPartial => tPartial') /\ (r # "final" => UNCHANGED tPartial)
        /\ (r = "final" => tPartial')
    BY <1>8, <1>10
  <2> DEFINE x == {}
  <2>2. \A i \in x : FALSE
    OBVIOUS
  <2>3. T!Proceed(r, [tGot[r] EXCEPT ![task] = x])
    BY <1>10
  <2> HIDE DEF x
  <2> QED BY <1>7, <1>10, <2>1, <2>2, <2>3
<1>11. ASSUME T!AskAgain(r), tOwn' = [tOwn EXCEPT ![r][task] = "asked again"],
              UNCHANGED <<tSeen, tPartial>>
       PROVE  TagsInv'
  <2>1. UNCHANGED <<tAt, tGot>>
    BY <1>11 DEF T!AskAgain
  <2>2. /\ DOMAIN tOwn' = T!Runs /\ DOMAIN tOwn'[r] = T!Tasks
        /\ \A t \in T!Tasks : t # task => tOwn'[r][t] = tOwn[r][t]
        /\ \A q \in T!Runs : q # r => tOwn'[q] = tOwn[q]
    BY <1>4, <1>5, <1>11
  <2>3. ToldInTurn(tAt[r], tGot[r], tOwn'[r])
    BY <1>2, <1>4, <1>5, <2>2, TagConstants DEF ToldInTurn, AsksAlone
  <2>4. AnswersAreKept'
    <3>1. \A q \in T!Runs : ToldOf(tGot'[q], tSeen'[q]) /\ ToldInTurn(tAt'[q], tGot'[q], tOwn'[q])
      BY <1>1, <1>11, <2>1, <2>2, <2>3 DEF AnswersAreKept
    <3>2. tAt' \in [T!Runs -> {"rest", "together", "store"} \cup T!Tasks] /\ DOMAIN tGot' = T!Runs
      BY <1>1, <2>1 DEF AnswersAreKept
    <3> QED BY <2>2, <3>1, <3>2 DEF AnswersAreKept
  <2>5. TheCallIsLines' /\ LinesAreRead' /\ FinalIsOfTheCall'
    BY <1>1, <1>2, <1>11, <2>1
       DEF TheCallIsLines, LinesAreRead, FinalIsOfTheCall, Asking, T!LastLinesAreRated
  <2> QED BY <1>1, <1>2, <2>4, <2>5 DEF TagsInv
<1>12. \/ \E a : /\ T!Proceed(r, [tGot[r] EXCEPT ![task] = T!Read(r, task, a)])
                 /\ tOwn' = [tOwn EXCEPT ![r][task] = "answered"] /\ UNCHANGED tSeen
                 /\ tPartial' = (tPartial \/ (r = "final" /\ T!LeavesOut(r, task, a)))
       \/ /\ T!Proceed(r, [tGot[r] EXCEPT ![task] = {}])
          /\ tOwn' = [tOwn EXCEPT ![r][task] = "unusable"] /\ UNCHANGED tSeen
          /\ tPartial' = (tPartial \/ r = "final")
       \/ /\ T!AskAgain(r) /\ tOwn' = [tOwn EXCEPT ![r][task] = "asked again"]
          /\ UNCHANGED <<tSeen, tPartial>>
       \/ T!Forget(r) /\ UNCHANGED tPartial
  BY DEF T!AskAlone, T!AskAgain
<1> QED BY <1>6, <1>9, <1>10, <1>11, <1>12

\* The signals raised are those that can be quoted.
LEMMA AssessStays ==
    ASSUME TagsInv, NEW r \in T!Runs, T!Assess(r)
    PROVE  TagsInv'
<1>1. TheCallIsLines /\ LinesAreRead /\ AnswersAreKept /\ FinalIsOfTheCall /\ ~tInvented
  BY DEF TagsInv
<1>2. /\ tAt[r] = "escalation"
      /\ UNCHANGED <<tTogether, tLines, tEnded, tIds, tFinished, tPartial>>
  BY DEF T!Assess, T!call
<1>3. r = "final" => Asking \/ tFinished
  BY <1>1, <1>2 DEF FinalIsOfTheCall
<1>4. ASSUME NEW signals, T!Raises(r, signals), \A q \in signals : T!QuotedIn(q, tSeen[r])
      PROVE  ~tInvented'
  BY <1>1, <1>4 DEF T!Raises
<1>5. CASE T!Forget(r) /\ ~tInvented'
  BY <1>2, <1>3, <1>5, ForgottenStays
<1>6. CASE T!AskAgain(r) /\ UNCHANGED <<tSeen, tOwn, tInvented>>
  BY <1>2, <1>6, AskedAgain
<1>7. ToldOf(tGot[r], tSeen[r])
  BY <1>1 DEF AnswersAreKept
<1>8. CASE tGot[r]["escalation"] # None /\ T!Raises(r, tGot[r]["escalation"]) /\ T!Forget(r)
  <2>1. \A q \in tGot[r]["escalation"] : T!QuotedIn(q, tSeen[r])
    BY <1>7, <1>8 DEF ToldOf
  <2> QED BY <1>4, <1>5, <1>8, <2>1
<1>9. CASE (\E a : T!Raises(r, T!Read(r, "escalation", a))) /\ T!Forget(r)
  <2>1. PICK a : T!Raises(r, T!Read(r, "escalation", a))
    BY <1>9
  <2>2. \A q \in T!Read(r, "escalation", a) : T!QuotedIn(q, tSeen[r])
    BY AnswersAreRead DEF T!Read
  <2>3. ~tInvented'
    BY <1>4, <2>1, <2>2
  <2> QED BY <1>5, <1>9, <2>3
<1>10. CASE T!Forget(r) /\ UNCHANGED tInvented
  BY <1>1, <1>5, <1>10
<1>11. \/ tGot[r]["escalation"] # None /\ T!Raises(r, tGot[r]["escalation"]) /\ T!Forget(r)
       \/ (\E a : T!Raises(r, T!Read(r, "escalation", a))) /\ T!Forget(r)
       \/ T!AskAgain(r) /\ UNCHANGED <<tSeen, tOwn, tInvented>>
       \/ T!Forget(r) /\ UNCHANGED tInvented
  BY DEF T!Assess
<1> QED BY <1>6, <1>8, <1>9, <1>10, <1>11

\* What storing does to the lines: they stay, and what is found is of them.
LEMMA LinesAreTagged ==
    ASSUME TagsInv, NEW r \in T!Runs, tAt[r] = "store", tLines' = T!Tag(r), UNCHANGED tIds
    PROVE  /\ TheCallIsLines' /\ DOMAIN tLines' = DOMAIN tLines
           /\ \A k \in DOMAIN tLines :
                /\ tLines'[k].id = tLines[k].id /\ tLines'[k].words = tLines[k].words
                /\ tLines'[k].role = tLines[k].role
                /\ tLines[k].tone # None => tLines'[k].tone # None
                /\ \A n \in tGot[r]["sentiment"] :
                     tSeen[r][n].id = tLines[k].id /\ tSeen[r][n].words = tLines[k].words
                     => tLines'[k].tone # None
<1> DEFINE conversation == tSeen[r]
           tones == tGot[r]["sentiment"]
           raised == T!LineCategories(conversation, tGot[r]["complaints"])
           a(line) == T!Annotated(line, conversation, tones, raised)
<1>1. TheCallIsLines /\ LinesAreRead /\ AnswersAreKept
  BY DEF TagsInv
<1>2. /\ tLines \in Seq(Lines) /\ tIds \in Nat /\ Numbered(tLines, tIds)
      /\ \A n \in DOMAIN tLines : FoundOfItself(tLines[n])
  BY <1>1 DEF TheCallIsLines
<1>3. /\ conversation \in Seq(Lines)
      /\ \A m, n \in DOMAIN conversation : conversation[m].id = conversation[n].id => m = n
      /\ \A n \in DOMAIN conversation, k \in DOMAIN tLines :
           conversation[n].id = tLines[k].id => conversation[n].role = tLines[k].role
  BY <1>1 DEF LinesAreRead, Numbered, SameSpeakers
<1>4. ToldOf(tGot[r], tSeen[r]) /\ ToldInTurn("store", tGot[r], tOwn[r])
  BY <1>1 DEF AnswersAreKept
<1>5. \A n \in tones : n \in DOMAIN conversation /\ conversation[n].role \in T!Rated
  BY <1>4 DEF ToldOf, ToldInTurn, T!LinesToRate, T!Unrated
<1>6. raised = None \/ raised \in [DOMAIN conversation -> SUBSET Categories]
  BY <1>4, LinesAreRaised DEF ToldOf, ToldInTurn
<1>7. tLines' = [n \in DOMAIN tLines |-> a(tLines[n])]
  BY DEF T!Tag
<1> HIDE DEF conversation, tones, raised
<1>8. ASSUME NEW k \in DOMAIN tLines
      PROVE  /\ a(tLines[k]) \in Lines /\ a(tLines[k]).id = tLines[k].id
             /\ a(tLines[k]).words = tLines[k].words /\ a(tLines[k]).role = tLines[k].role
             /\ FoundOfItself(a(tLines[k]))
             /\ tLines[k].tone # None => a(tLines[k]).tone # None
             /\ \A n \in tones :
                  conversation[n].id = tLines[k].id /\ conversation[n].words = tLines[k].words
                  => a(tLines[k]).tone # None
  <2>1. tLines[k] \in Lines /\ FoundOfItself(tLines[k])
    BY <1>2, <1>8
  <2>2. \A n \in DOMAIN conversation :
          conversation[n].id = tLines[k].id => conversation[n].role = tLines[k].role
    BY <1>3, <1>8
  <2> QED BY <1>3, <1>5, <1>6, <2>1, <2>2, AnnotatedIs
<1> HIDE DEF a
<1>9. DOMAIN tLines' = DOMAIN tLines /\ \A k \in DOMAIN tLines : tLines'[k] = a(tLines[k])
  BY <1>7
<1>10. tLines' \in Seq(Lines)
  <2>1. DOMAIN tLines = 1..Len(tLines) /\ Len(tLines) \in Nat
    BY <1>2
  <2>2. \A k \in 1..Len(tLines) : a(tLines[k]) \in Lines
    BY <1>8, <2>1
  <2>3. tLines' \in [1..Len(tLines) -> Lines]
    BY <1>7, <2>1, <2>2
  <2> QED BY <2>1, <2>3, SeqDef
<1>11. Numbered(tLines', tIds')
  BY <1>2, <1>8, <1>9 DEF Numbered
<1>12. TheCallIsLines'
  BY <1>2, <1>8, <1>9, <1>10, <1>11 DEF TheCallIsLines
<1> QED BY <1>8, <1>9, <1>12 DEF tones, conversation

\* What is left unrated of the call that was read has the limit of lines
\* that were rated, or had been, after it.
LEMMA BacklogIsRated ==
    ASSUME NEW conversation \in Seq(Lines), NEW lines, ReadAsIs(conversation, lines),
           DOMAIN lines = DOMAIN conversation,
           NEW n \in DOMAIN lines, lines[n].tone = None, lines[n].role \in T!Rated,
           n \notin T!LinesToRate(conversation)
    PROVE  T!Cardinality({k \in DOMAIN lines : k > n /\ lines[k].role \in T!Rated}) >= LineLimit
<1> DEFINE U == {k \in T!Unrated(conversation) : k > n}
           V == {k \in DOMAIN lines : k > n /\ lines[k].role \in T!Rated}
<1>1. \A k \in DOMAIN lines :
        conversation[k].role = lines[k].role
        /\ (conversation[k].tone # None => lines[k].tone # None)
  BY DEF ReadAsIs
<1>2. n \in T!Unrated(conversation)
  BY <1>1 DEF T!Unrated
<1>3. ~(T!Cardinality(U) < LineLimit)
  BY <1>2 DEF T!LinesToRate
<1>4. \A k \in U : k \in V
  BY <1>1 DEF T!Unrated
<1>5. IsFiniteSet(DOMAIN conversation)
  BY FS_Interval, LenProperties
<1>6. IsFiniteSet(V)
  <2>1. V \subseteq DOMAIN conversation
    OBVIOUS
  <2> HIDE DEF V
  <2> QED BY <1>5, <2>1, FS_Subset
<1> HIDE DEF U, V
<1>7. U \subseteq V
  BY <1>4
<1>8. IsFiniteSet(U) /\ Cardinality(U) <= Cardinality(V)
  BY <1>6, <1>7, FS_Subset
<1>9. Cardinality(U) \in Nat /\ Cardinality(V) \in Nat
  BY <1>6, <1>8, FS_CardinalityType
<1>10. T!Cardinality(U) = Cardinality(U) /\ T!Cardinality(V) = Cardinality(V)
  BY DEF T!Cardinality, Cardinality
<1>11. LineLimit \in Nat
  BY TagConstants
<1>12. T!Cardinality(V) >= LineLimit
  BY <1>3, <1>8, <1>9, <1>10, <1>11
<1> QED BY <1>12 DEF V

LEMMA StoreStays ==
    ASSUME TagsInv, NEW r \in T!Runs, T!Store(r)
    PROVE  TagsInv'
<1>1. TheCallIsLines /\ LinesAreRead /\ AnswersAreKept /\ FinalIsOfTheCall /\ ~tInvented
  BY DEF TagsInv
<1>2. /\ tAt[r] = "store"
      /\ UNCHANGED <<tTogether, tEnded, tIds, tPartial, tInvented>>
  BY DEF T!Store
<1>3. r = "final" => Asking
  BY <1>2 DEF Asking
<1>4. CASE T!Forget(r) /\ UNCHANGED <<tLines, tFinished>>
  BY <1>1, <1>2, <1>3, <1>4, ForgottenStays
<1>5. ASSUME /\ tLines' = T!Tag(r)
             /\ tFinished' = (tFinished \/ r = "final")
             /\ tAt' = [tAt EXCEPT ![r] = "escalation"]
             /\ tGot' = [tGot EXCEPT ![r] = [T!Nothing EXCEPT !.escalation = tGot[r]["escalation"]]]
             /\ tOwn' = [tOwn EXCEPT ![r] = T!Unasked]
             /\ UNCHANGED <<tAgain, tSeen>>
      PROVE  TagsInv'
  <2>1. /\ TheCallIsLines' /\ DOMAIN tLines' = DOMAIN tLines
        /\ \A k \in DOMAIN tLines :
             /\ tLines'[k].id = tLines[k].id /\ tLines'[k].words = tLines[k].words
             /\ tLines'[k].role = tLines[k].role
             /\ tLines[k].tone # None => tLines'[k].tone # None
             /\ \A n \in tGot[r]["sentiment"] :
                  tSeen[r][n].id = tLines[k].id /\ tSeen[r][n].words = tLines[k].words
                  => tLines'[k].tone # None
    BY <1>2, <1>5, LinesAreTagged
  <2>2. LinesAreRead'
    <3>1. \A q \in T!Runs : Numbered(tSeen'[q], tIds') /\ SameSpeakers(tSeen'[q], tLines')
      BY <1>1, <1>2, <1>5, <2>1 DEF LinesAreRead, SameSpeakers
    <3> QED BY <1>1, <1>5, <3>1 DEF LinesAreRead
  <2>3. ToldOf(tGot[r], tSeen[r]) /\ ToldInTurn("store", tGot[r], tOwn[r])
    BY <1>1, <1>2 DEF AnswersAreKept
  <2> DEFINE told == [T!Nothing EXCEPT !.escalation = tGot[r]["escalation"]]
  <2>4. /\ DOMAIN told = T!Tasks /\ told["escalation"] = tGot[r]["escalation"]
        /\ told["complaints"] = None /\ told["sentiment"] = None
    BY TagConstants
  <2>5. tGot' = [tGot EXCEPT ![r] = told]
    BY <1>5
  <2> HIDE DEF told
  <2>6. ToldOf(told, tSeen'[r]) /\ ToldInTurn("escalation", told, T!Unasked)
    BY <1>5, <2>3, <2>4, TagConstants DEF ToldOf, ToldInTurn, AsksAlone
  <2>7. /\ AnswersAreKept' /\ tAt'[r] = "escalation" /\ tGot'[r] = told
        /\ \A q \in T!Runs : q # r => tAt'[q] = tAt[q] /\ tGot'[q] = tGot[q]
    <3> DEFINE stage == "escalation"
               owned == T!Unasked
    <3>1. stage \in {"rest", "together", "store"} \cup T!Tasks
      BY TagConstants
    <3>2. tAt' = [tAt EXCEPT ![r] = stage] /\ tOwn' = [tOwn EXCEPT ![r] = owned]
      BY <1>5
    <3>3. \A q \in T!Runs : q # r => tSeen'[q] = tSeen[q]
      BY <1>5
    <3>4. ToldOf(told, tSeen'[r])
      BY <2>6
    <3>5. ToldInTurn(stage, told, owned)
      BY <2>6
    <3> HIDE DEF stage, owned
    <3>6. /\ AnswersAreKept'
          /\ tAt'[r] = stage /\ tGot'[r] = told
          /\ \A q \in T!Runs : q # r => tAt'[q] = tAt[q] /\ tGot'[q] = tGot[q]
      BY <1>1, <2>5, <3>1, <3>2, <3>3, <3>4, <3>5, OthersAnswersStay, ZenonT(40)
    <3> QED BY <3>6 DEF stage
  <2>8. /\ {tTogether', tEnded', tFinished', tPartial'} \subseteq BOOLEAN
        /\ tFinished' => tEnded'
        /\ tAt'["final"] # "together"
        /\ tAt'["final"] = "escalation" => tFinished'
    <3>1. tFinished' \in BOOLEAN /\ (tFinished' => tEnded)
      BY <1>1, <1>3, <1>5 DEF FinalIsOfTheCall
    <3>2. tAt'["final"] # "together" /\ (tAt'["final"] = "escalation" => tFinished')
      BY <1>1, <1>5, <2>7, TagConstants DEF FinalIsOfTheCall
    <3> QED BY <1>1, <1>2, <3>1, <3>2 DEF FinalIsOfTheCall
  <2>9. ASSUME Asking'
        PROVE  /\ tEnded' /\ ~tFinished' /\ ReadAsIs(tSeen'["final"], tLines')
               /\ tGot'["final"]["sentiment"] # None /\ ~tPartial' =>
                    \A n \in T!LinesToRate(tSeen'["final"]) : n \in tGot'["final"]["sentiment"]
    <3>1. r # "final"
      BY <2>7, <2>9 DEF Asking
    <3>2. Asking /\ tGot'["final"] = tGot["final"] /\ tSeen' = tSeen /\ ~tFinished'
      BY <1>1, <1>5, <2>7, <2>9, <3>1, TagConstants DEF Asking, FinalIsOfTheCall
    <3>3. Len(tLines') = Len(tLines)
      BY <1>1, <2>1, LenProperties DEF TheCallIsLines
    <3>4. ReadAsIs(tSeen["final"], tLines)
      BY <1>1, <3>2 DEF FinalIsOfTheCall
    <3>5. ReadAsIs(tSeen["final"], tLines')
      BY <2>1, <3>3, <3>4 DEF ReadAsIs
    <3> QED BY <1>1, <1>2, <3>2, <3>5 DEF FinalIsOfTheCall
  <2>10. ASSUME tFinished', ~tPartial', NEW n \in T!Unrated(tLines')
         PROVE  T!Cardinality({k \in DOMAIN tLines' : k > n /\ tLines'[k].role \in T!Rated})
                >= LineLimit
    <3>1. /\ n \in DOMAIN tLines /\ tLines'[n].tone = None /\ tLines'[n].role \in T!Rated
          /\ tLines[n].tone = None /\ tLines[n].role \in T!Rated
      BY <2>1, <2>10 DEF T!Unrated
    <3>2. {k \in DOMAIN tLines' : k > n /\ tLines'[k].role \in T!Rated}
            = {k \in DOMAIN tLines : k > n /\ tLines[k].role \in T!Rated}
      BY <2>1
    <3>3. CASE r # "final"
      <4>1. tFinished /\ ~tPartial /\ T!LastLinesAreRated
        BY <1>1, <1>2, <1>5, <2>10, <3>3 DEF FinalIsOfTheCall
      <4>2. n \in T!Unrated(tLines)
        BY <3>1 DEF T!Unrated
      <4> QED BY <3>2, <4>1, <4>2 DEF T!LastLinesAreRated
    <3>4. CASE r = "final"
      <4>1. tSeen["final"] \in Seq(Lines) /\ tLines \in Seq(Lines)
        BY <1>1, TagConstants DEF LinesAreRead, TheCallIsLines
      <4>2. /\ ReadAsIs(tSeen["final"], tLines)
            /\ \A m \in T!LinesToRate(tSeen["final"]) : m \in tGot["final"]["sentiment"]
        BY <1>1, <1>2, <1>3, <2>3, <2>10, <3>4 DEF FinalIsOfTheCall, ToldInTurn
      <4>3. DOMAIN tLines = DOMAIN tSeen["final"]
        BY <4>1, <4>2, LenProperties DEF ReadAsIs
      <4>4. tSeen["final"][n].id = tLines[n].id /\ tSeen["final"][n].words = tLines[n].words
        BY <3>1, <4>2 DEF ReadAsIs
      <4>5. n \notin T!LinesToRate(tSeen["final"])
        BY <2>1, <3>1, <3>4, <4>2, <4>4
      <4> QED BY <3>1, <3>2, <4>1, <4>2, <4>3, <4>5, BacklogIsRated
    <3> QED BY <3>3, <3>4
  <2>11. T!LastLinesAreRated'
    BY <2>10 DEF T!LastLinesAreRated
  <2>12. FinalIsOfTheCall'
    BY <2>8, <2>9, <2>11 DEF FinalIsOfTheCall
  <2> QED BY <1>1, <1>2, <2>1, <2>2, <2>7, <2>12 DEF TagsInv
<1> QED BY <1>4, <1>5 DEF T!Store

LEMMA TagsSteps ==
    ASSUME TagsInv, T!Next
    PROVE  TagsInv'
<1>1. ASSUME NEW r \in T!Runs, T!Analysis(r) PROVE TagsInv'
  BY <1>1, TogetherStays, AloneStays, StoreStays, AssessStays DEF T!Analysis
<1> QED BY <1>1, TheCallGoesOn, LiveBegins, FinalBegins, HandBegins DEF T!Next

LEMMA TagsRests ==
    ASSUME TagsInv, UNCHANGED tVars
    PROVE  TagsInv'
<1>1. TheCallIsLines /\ LinesAreRead /\ AnswersAreKept /\ FinalIsOfTheCall /\ ~tInvented
  BY DEF TagsInv
<1>2. UNCHANGED <<tTogether, tLines, tEnded, tFinished, tIds, tAt, tSeen, tGot, tOwn, tPartial,
                  tInvented>>
  BY DEF tVars
<1>3. AnswersAreKept'
  BY <1>1, <1>2, AnswersWait
<1>4. TheCallIsLines' /\ LinesAreRead' /\ FinalIsOfTheCall'
  BY <1>1, <1>2 DEF TheCallIsLines, LinesAreRead, FinalIsOfTheCall, Asking,
     T!LastLinesAreRated
<1> QED BY <1>1, <1>2, <1>3, <1>4 DEF TagsInv

LEMMA FindingsHold ==
    ASSUME TagsInv
    PROVE  T!FindingsAreGrounded /\ T!NoResultIsLost /\ T!LastLinesAreRated
<1>1. TheCallIsLines /\ AnswersAreKept /\ FinalIsOfTheCall /\ ~tInvented
  BY DEF TagsInv
<1>2. T!FindingsAreGrounded
  BY <1>1 DEF T!FindingsAreGrounded, TheCallIsLines, FoundOfItself
<1>3. T!NoResultIsLost
  BY <1>1 DEF T!NoResultIsLost, AnswersAreKept, ToldInTurn, AsksAlone
<1> QED BY <1>1, <1>2, <1>3 DEF FinalIsOfTheCall

-----------------------------------------------------------------------------
(* The theorems                                                             *)

(* Corrections given at once propose one improvement, of what makes a       *)
(* pattern by itself (N!ProposedOnce); and a decision on a category shows   *)
(* at once on its instance (G!ChangesShowAtOnce).                           *)
THEOREM CorrectionsAreCounted == Spec => []CorrectionsCount
<1> DEFINE Inv == LearningInv /\ CatalogInv
<1>1. Init => Inv
  BY LearningStarts, CatalogStarts DEF Init
<1>2. Inv /\ [Next]_vars => Inv'
  <2> SUFFICES ASSUME Inv, [Next]_vars PROVE Inv'
    OBVIOUS
  <2>1. LearningInv'
    BY LearningSteps, LearningRests, PartsStandStill
  <2>2. CatalogInv'
    BY CatalogSteps, CatalogRests, PartsStandStill
  <2> QED BY <2>1, <2>2
<1>3. Inv => CorrectionsCount
  BY CandidatesAreProposedOnce, ChangesShow DEF CorrectionsCount
<1> QED BY <1>1, <1>2, <1>3, PTL DEF Spec

(* Nothing is found in words nobody said, no answer that came is thrown     *)
(* away for one that did not, and the last lines of a long call are rated   *)
(* (LineTags), whatever number of requests asks of however long a call.     *)
THEOREM FindingsStand == Spec => []FindingsAreGrounded
<1> DEFINE Inv == part = "tags" => TagsInv
<1>1. Init => Inv
  BY TagsStart DEF Init
<1>2. Inv /\ [Next]_vars => Inv'
  <2> SUFFICES ASSUME Inv, [Next]_vars PROVE Inv'
    OBVIOUS
  <2> QED BY TagsSteps, TagsRests, PartsStandStill
<1>3. Inv => FindingsAreGrounded
  BY FindingsHold DEF FindingsAreGrounded
<1> QED BY <1>1, <1>2, <1>3, PTL DEF Spec

(* What is transcribed again loses nothing of the live transcript, and a    *)
(* recording that is kept can be played (Recordings), of a call that comes  *)
(* in one stream, however long it is.                                       *)
THEOREM RecordingsStand ==
    ASSUME MaxStreams = 1
    PROVE  Spec => []RecordingsAreWhole
<1>1. Init => RecordingInv
  BY RecordingStarts DEF Init
<1>2. RecordingInv /\ [Next]_vars => RecordingInv'
  BY RecordingSteps, RecordingRests, PartsStandStill
<1>3. RecordingInv => RecordingsAreWhole
  BY RecordingsHold
<1> QED BY <1>1, <1>2, <1>3, PTL DEF Spec
=============================================================================
