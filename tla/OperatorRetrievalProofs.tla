------------------------ MODULE OperatorRetrievalProofs ------------------------
(***************************************************************************)
(* Proofs about the OperatorVerifier.  Of a measurement: the tallies of a    *)
(* call are exact, a RECOVERABLE verdict is true, every verdict rests on a   *)
(* whole measurement, no call declares an operator dead, and none has more    *)
(* than a bounded number of steps; for any number of operators and chunks,   *)
(* and any settings the assumptions admit.  Of the schedule: the turns of    *)
(* the age groups and of the prober's own blobs meet.                        *)
(***************************************************************************)
EXTENDS OperatorRetrieval, FiniteSetTheorems, NaturalsInduction, WellFoundedInduction, TLAPS

USE OperatorsAssumption, SettingsAssumption, BlacklistAssumption

(* How Chunks counts: nothing for no operators, more for more of them, and    *)
(* what an operator holds when it is added.                                  *)
LEMMA ChunksType ==
    ASSUME NEW h \in [Operators -> 0..MaxHeld], NEW S \in SUBSET Operators
    PROVE  /\ IsFiniteSet({c \in S \X (1..MaxHeld) : c[2] <= h[c[1]]})
           /\ Chunks(h, S) \in Nat
  <1>1. IsFiniteSet(S) /\ IsFiniteSet(1..MaxHeld)
    BY FS_Subset, FS_Interval
  <1>2. IsFiniteSet(S \X (1..MaxHeld))
    BY <1>1, FS_Product
  <1>3. {c \in S \X (1..MaxHeld) : c[2] <= h[c[1]]} \in SUBSET (S \X (1..MaxHeld))
    OBVIOUS
  <1>4. IsFiniteSet({c \in S \X (1..MaxHeld) : c[2] <= h[c[1]]})
    BY <1>2, <1>3, FS_Subset
  <1> QED  BY <1>4, FS_CardinalityType DEF Chunks

LEMMA ChunksNothing ==
    ASSUME NEW h \in [Operators -> 0..MaxHeld]
    PROVE  Chunks(h, {}) = 0
  <1>1. {c \in {} \X (1..MaxHeld) : c[2] <= h[c[1]]} = {}
    OBVIOUS
  <1> QED  BY <1>1, FS_EmptySet DEF Chunks

LEMMA ChunksMonotone ==
    ASSUME NEW h \in [Operators -> 0..MaxHeld],
           NEW S \in SUBSET Operators, NEW T \in SUBSET S
    PROVE  Chunks(h, T) <= Chunks(h, S)
  <1>1. {c \in T \X (1..MaxHeld) : c[2] <= h[c[1]]}
           \in SUBSET {c \in S \X (1..MaxHeld) : c[2] <= h[c[1]]}
    OBVIOUS
  <1> QED  BY <1>1, ChunksType, FS_Subset DEF Chunks

LEMMA ChunksAdd ==
    ASSUME NEW h \in [Operators -> 0..MaxHeld],
           NEW S \in SUBSET Operators, NEW op \in Operators, op \notin S
    PROVE  Chunks(h, S \cup {op}) = Chunks(h, S) + h[op]
  <1> DEFINE A == {c \in S \X (1..MaxHeld) : c[2] <= h[c[1]]}
             B == {op} \X (1..h[op])
  <1>1. h[op] \in 0..MaxHeld /\ h[op] \in Nat
    OBVIOUS
  <1>2. {c \in (S \cup {op}) \X (1..MaxHeld) : c[2] <= h[c[1]]} = A \cup B
    BY <1>1
  <1>3. A \cap B = {}
    OBVIOUS
  <1>4. IsFiniteSet(A) /\ Cardinality(A) = Chunks(h, S) /\ Chunks(h, S) \in Nat
    BY ChunksType DEF Chunks
  <1>5. IsFiniteSet(B) /\ Cardinality(B) = h[op]
    <2>1. IsFiniteSet({op}) /\ Cardinality({op}) = 1
      BY FS_Singleton
    <2>2. IsFiniteSet(1..h[op]) /\ Cardinality(1..h[op]) = h[op]
      BY <1>1, FS_Interval
    <2>3. IsFiniteSet(B) /\ Cardinality(B) = 1 * h[op]
      BY <2>1, <2>2, FS_Product
    <2> QED  BY <1>1, <2>3
  <1> HIDE DEF A, B
  <1>6. Cardinality(A \cup B) = Cardinality(A) + Cardinality(B) - Cardinality(A \cap B)
    BY <1>4, <1>5, FS_Union
  <1>7. Cardinality(A \cap B) = 0
    BY <1>3, FS_EmptySet
  <1> QED  BY <1>1, <1>2, <1>4, <1>5, <1>6, <1>7 DEF Chunks

LEMMA ChunksLocal ==
    ASSUME NEW h \in [Operators -> 0..MaxHeld], NEW g \in [Operators -> 0..MaxHeld],
           NEW S \in SUBSET Operators, \A op \in S : h[op] = g[op]
    PROVE  Chunks(h, S) = Chunks(g, S)
  <1>1. {c \in S \X (1..MaxHeld) : c[2] <= h[c[1]]}
           = {c \in S \X (1..MaxHeld) : c[2] <= g[c[1]]}
    OBVIOUS
  <1> QED  BY <1>1 DEF Chunks

LEMMA ChunksPointwise ==
    ASSUME NEW h \in [Operators -> 0..MaxHeld], NEW g \in [Operators -> 0..MaxHeld],
           NEW S \in SUBSET Operators, \A op \in S : h[op] <= g[op]
    PROVE  Chunks(h, S) <= Chunks(g, S)
  <1>1. {c \in S \X (1..MaxHeld) : c[2] <= h[c[1]]}
           \in SUBSET {c \in S \X (1..MaxHeld) : c[2] <= g[c[1]]}
    <2>1. \A op \in S : h[op] \in Nat /\ g[op] \in Nat
      OBVIOUS
    <2> QED  BY <2>1
  <1> QED  BY <1>1, ChunksType, FS_Subset DEF Chunks
-----------------------------------------------------------------------------
(* The inductive invariant.  An operator is to be probed, being probed, or    *)
(* done with, and only in the last case is it in the tallies or in failed;   *)
(* who is in the tallies is who gave something; each round adds at most one   *)
(* failure to a counter.                                                     *)
CallShape ==
    /\ pc = "idle" => NoCall
    /\ pc = "probe" => /\ rounds <= MaxProbeRetries
                       /\ pending \cap inflight = {}
                       /\ failed \cap (pending \cup inflight) = {}
    /\ pc = "verdict" => pending = {} /\ inflight = {}

Tallies ==
    /\ pc = "probe" => /\ totalChunks + chunks = Chunks(given, Contributed)
                       /\ okCount + ok = Cardinality(Contributed)
    /\ pc = "verdict" => /\ totalChunks = Chunks(given, Contributed)
                         /\ okCount = Cardinality(Contributed)

GivenShape ==
    pc # "idle" => \A op \in Operators : given[op] > 0 <=> op \in Contributed

FailuresCounted ==
    /\ pc = "probe" => \A op \in fresh :
                           failCount[op] <= IF op \in failed THEN rounds + 1 ELSE rounds
    /\ pc = "verdict" => \A op \in fresh : failCount[op] <= rounds

CallInv ==
    TypeOK /\ CallShape /\ Tallies /\ GivenShape /\ FailuresCounted /\ VerdictIsMeasured

LEMMA CallInit == Init => CallInv
  <1> SUFFICES ASSUME Init PROVE CallInv
    OBVIOUS
  <1>1. /\ failCount \in [Operators -> 0..MaxFails] /\ 0 \in 0..(MaxProbeRetries + 1)
        /\ given \in [Operators -> 0..MaxHeld]
    BY DEF Init, NoCall, NoChunks
  <1>2. TypeOK
    BY <1>1 DEF Init, NoCall, TypeOK
  <1> QED  BY <1>2 DEF Init, CallInv, CallShape, Tallies, GivenShape, FailuresCounted,
                       VerdictIsMeasured

\* The end of a call leaves an empty one behind.
LEMMA ReturnEnds ==
    ASSUME ReturnFromCall
    PROVE  CallShape' /\ Tallies' /\ GivenShape' /\ FailuresCounted'
  <1> QED  BY DEF ReturnFromCall, CallShape, NoCall, Tallies, GivenShape, FailuresCounted

LEMMA ReturnTypes ==
    ASSUME ReturnFromCall
    PROVE  /\ pc' = "idle" /\ allOperators' = {} /\ expired' \in BOOLEAN
           /\ pending' = {} /\ inflight' = {} /\ failed' = {}
           /\ chunks' \in Nat /\ ok' \in Nat /\ totalChunks' \in Nat /\ okCount' \in Nat
           /\ rounds' \in 0..(MaxProbeRetries + 1)
           /\ given' \in [Operators -> 0..MaxHeld]
  <1>1. /\ 0 \in 0..(MaxProbeRetries + 1) /\ 0 \in Nat /\ FALSE \in BOOLEAN
        /\ NoChunks \in [Operators -> 0..MaxHeld]
    BY DEF NoChunks
  <1> QED  BY <1>1 DEF ReturnFromCall

\* A goroutine reports one result: a counter grows by at most one.
LEMMA ReportCounts ==
    ASSUME TypeOK, NEW op \in Operators, NEW success \in BOOLEAN, ReportResult(op, success)
    PROVE  /\ failCount' \in [Operators -> 0..MaxFails]
           /\ failCount'[op] <= failCount[op] + 1
           /\ success => failCount'[op] = 0
           /\ \A p \in Operators : p # op => failCount'[p] = failCount[p]
  <1> QED  BY DEF ReportResult, TypeOK

LEMMA ContributedType == TypeOK => Contributed \in SUBSET Operators /\ IsFiniteSet(Contributed)
  <1> SUFFICES ASSUME TypeOK PROVE Contributed \in SUBSET Operators /\ IsFiniteSet(Contributed)
    OBVIOUS
  <1>1. Contributed \in SUBSET Operators
    BY DEF TypeOK, Contributed
  <1> QED  BY <1>1, FS_Subset

LEMMA ProbeAndRetrieveStep ==
    ASSUME CallInv, NEW S \in SUBSET Operators, ProbeAndRetrieve(S)
    PROVE  CallInv'
  <1> USE DEF ProbeAndRetrieve
  <1>1. NoCall
    BY DEF CallInv, CallShape
  <1>2. TypeOK'
    BY <1>1 DEF NoCall, CallInv, TypeOK
  <1>3. CallShape'
    BY <1>1 DEF NoCall, CallShape
  <1>4. /\ Contributed' = {} /\ given' = NoChunks /\ given' \in [Operators -> 0..MaxHeld]
        /\ \A op \in Operators : given'[op] = 0
    BY <1>1 DEF Contributed, CallInv, TypeOK, NoCall, NoChunks
  <1>5. Tallies'
    BY <1>1, <1>4, ChunksNothing, FS_EmptySet DEF NoCall, Tallies
  <1>6. GivenShape'
    BY <1>4 DEF GivenShape
  <1>7. FailuresCounted'
    BY <1>1 DEF NoCall, FailuresCounted
  <1>8. VerdictIsMeasured'
    BY DEF VerdictIsMeasured
  <1> QED  BY <1>2, <1>3, <1>5, <1>6, <1>7, <1>8 DEF CallInv

LEMMA StartProbeStep ==
    ASSUME CallInv, NEW op \in Operators, StartProbe(op)
    PROVE  CallInv'
  <1> USE DEF StartProbe, history
  <1>1. TypeOK'
    BY DEF CallInv, TypeOK
  <1>2. CallShape'
    BY DEF CallInv, CallShape
  <1>3. Contributed' = Contributed /\ given' = given
    BY DEF CallInv, TypeOK, Contributed
  <1>4. Tallies' /\ GivenShape'
    BY <1>3 DEF CallInv, Tallies, GivenShape
  <1>5. FailuresCounted' /\ VerdictIsMeasured'
    BY DEF CallInv, FailuresCounted, VerdictIsMeasured
  <1> QED  BY <1>1, <1>2, <1>4, <1>5 DEF CallInv

LEMMA AnswersStep ==
    ASSUME CallInv, NEW op \in Operators, Answers(op)
    PROVE  CallInv'
  <1>t. TypeOK /\ CallShape /\ op \in inflight
    BY DEF CallInv, Answers
  <1>p. pc = "probe" /\ pc' = "probe" /\ op \notin pending /\ op \notin failed /\ op \in allOperators
    BY <1>t DEF TypeOK, CallShape, NoCall, Answers
  <1>1. /\ failCount' \in [Operators -> 0..MaxFails] /\ failCount'[op] = 0
        /\ \A p \in Operators : p # op => failCount'[p] = failCount[p]
    BY <1>t, ReportCounts DEF Answers
  <1>2. /\ held' = held /\ held \in [Operators -> 0..MaxHeld] /\ held[op] \in Nat
        /\ given \in [Operators -> 0..MaxHeld] /\ given' \in [Operators -> 0..MaxHeld]
        /\ given'[op] = held[op]
        /\ \A p \in Operators : p # op => given'[p] = given[p]
    BY <1>t DEF Answers, TypeOK
  <1>3. TypeOK'
    <2>1. chunks' \in Nat /\ ok' \in Nat
      BY <1>t, <1>2 DEF Answers, TypeOK
    <2>2. probed' \in BOOLEAN
      BY <1>t DEF Answers, InsertOperatorProbe, TypeOK
    <2>3. failed' \subseteq allOperators /\ inflight' \subseteq allOperators
      BY <1>t, <1>p DEF Answers, TypeOK
    <2> QED  BY <1>t, <1>1, <1>2, <2>1, <2>2, <2>3 DEF Answers, TypeOK
  <1>4. CallShape'
    BY <1>t, <1>p DEF Answers, CallShape
  <1>5. Tallies'
    <2>1. /\ totalChunks + chunks = Chunks(given, Contributed)
          /\ okCount + ok = Cardinality(Contributed)
          /\ totalChunks' = totalChunks /\ okCount' = okCount
      BY <1>p DEF CallInv, Tallies, Answers
    <2>2. Contributed \in SUBSET Operators /\ IsFiniteSet(Contributed) /\ op \notin Contributed
      BY <1>t, ContributedType DEF Contributed
    <2>5. Chunks(given', Contributed) = Chunks(given, Contributed)
      BY <1>2, <2>2, ChunksLocal
    <2>3. CASE held[op] > 0
      <3>1. Contributed' = Contributed \cup {op}
        BY <1>p, <2>3 DEF Answers, Contributed
      <3>2. Chunks(given', Contributed \cup {op}) = Chunks(given, Contributed) + held[op]
        BY <1>2, <2>2, <2>5, ChunksAdd
      <3>3. Cardinality(Contributed \cup {op}) = Cardinality(Contributed) + 1
        BY <2>2, FS_AddElement
      <3>4. chunks' = chunks + held[op] /\ ok' = ok + 1
        BY <2>3 DEF Answers
      <3>5. chunks \in Nat /\ totalChunks \in Nat /\ ok \in Nat /\ okCount \in Nat
        BY <1>t DEF TypeOK
      <3>6. totalChunks' + chunks' = Chunks(given', Contributed \cup {op})
        BY <1>2, <2>1, <3>2, <3>4, <3>5
      <3>7. okCount' + ok' = Cardinality(Contributed \cup {op})
        BY <2>1, <3>3, <3>4, <3>5
      <3> QED  BY <1>p, <1>2, <3>1, <3>6, <3>7 DEF Tallies
    <2>4. CASE ~(held[op] > 0)
      <3>1. Contributed' = Contributed /\ chunks' = chunks /\ ok' = ok
        BY <1>p, <2>4 DEF Answers, Contributed
      <3> QED  BY <1>p, <2>1, <2>5, <3>1 DEF Tallies
    <2> QED  BY <2>3, <2>4
  <1>6. GivenShape'
    <2> SUFFICES ASSUME NEW q \in Operators
                 PROVE  given'[q] > 0 <=> q \in Contributed'
      BY DEF GivenShape
    <2>1. given[q] > 0 <=> q \in Contributed
      BY <1>p DEF CallInv, GivenShape
    <2>2. CASE q = op
      <3>1. op \in Contributed' <=> held[op] > 0
        BY <1>p DEF Answers, Contributed
      <3> QED  BY <1>2, <2>2, <3>1
    <2>3. CASE q # op
      <3>1. q \in Contributed' <=> q \in Contributed
        BY <1>p, <2>3 DEF Answers, Contributed
      <3> QED  BY <1>2, <2>1, <2>3, <3>1
    <2> QED  BY <2>2, <2>3
  <1>7. FailuresCounted'
    BY <1>t, <1>p, <1>1 DEF Answers, TypeOK, CallInv, FailuresCounted
  <1>8. VerdictIsMeasured'
    BY DEF Answers, CallInv, VerdictIsMeasured
  <1> QED  BY <1>3, <1>4, <1>5, <1>6, <1>7, <1>8 DEF CallInv

LEMMA DoesNotAnswerStep ==
    ASSUME CallInv, NEW op \in Operators, DoesNotAnswer(op)
    PROVE  CallInv'
  <1>t. TypeOK /\ CallShape /\ op \in inflight
    BY DEF CallInv, DoesNotAnswer
  <1>p. pc = "probe" /\ pc' = "probe" /\ op \notin pending /\ op \notin failed
    BY <1>t DEF TypeOK, CallShape, NoCall, DoesNotAnswer
  <1>1. /\ failCount' \in [Operators -> 0..MaxFails] /\ failCount'[op] <= failCount[op] + 1
        /\ \A p \in Operators : p # op => failCount'[p] = failCount[p]
    BY <1>t, ReportCounts DEF DoesNotAnswer
  <1>2. TypeOK'
    BY <1>t, <1>1 DEF DoesNotAnswer, InsertOperatorProbe, history, TypeOK
  <1>3. CallShape'
    BY <1>t, <1>p DEF DoesNotAnswer, CallShape
  <1>4. Tallies' /\ GivenShape'
    <2>1. Contributed' = Contributed /\ given' = given
      BY <1>t DEF DoesNotAnswer, Contributed, history
    <2> QED  BY <1>p, <2>1 DEF DoesNotAnswer, CallInv, Tallies, GivenShape
  <1>5. FailuresCounted'
    <2> SUFFICES ASSUME NEW p \in fresh
                 PROVE  failCount'[p] <= IF p \in failed \cup {op} THEN rounds + 1 ELSE rounds
      BY <1>p DEF DoesNotAnswer, FailuresCounted, history
    <2>1. p \in Operators /\ failCount[p] \in Nat /\ failCount'[p] \in Nat /\ rounds \in Nat
      BY <1>t, <1>1 DEF TypeOK
    <2>2. failCount[p] <= IF p \in failed THEN rounds + 1 ELSE rounds
      BY <1>p DEF CallInv, FailuresCounted
    <2> QED  BY <1>p, <1>1, <2>1, <2>2
  <1>6. VerdictIsMeasured'
    BY DEF DoesNotAnswer, CallInv, VerdictIsMeasured
  <1> QED  BY <1>2, <1>3, <1>4, <1>5, <1>6 DEF CallInv

LEMMA EndRoundStep ==
    ASSUME CallInv, EndRound
    PROVE  CallInv'
  <1>t. TypeOK /\ CallShape /\ pc = "probe" /\ rounds <= MaxProbeRetries
    BY DEF CallInv, CallShape, EndRound
  <1>n. /\ chunks \in Nat /\ ok \in Nat /\ totalChunks \in Nat /\ okCount \in Nat
        /\ rounds \in Nat /\ rounds' = rounds + 1
        /\ totalChunks' = totalChunks + chunks /\ okCount' = okCount + ok
    BY <1>t DEF TypeOK, EndRound
  <1>1. TypeOK'
    <2>1. /\ rounds' \in 0..(MaxProbeRetries + 1)
          /\ totalChunks' \in Nat /\ okCount' \in Nat
      BY <1>t, <1>n
    <2> QED  BY <1>t, <2>1 DEF EndRound, RetrySet, history, TypeOK
  <1>2. pc' = "probe" => rounds' <= MaxProbeRetries
    BY <1>t, <1>n DEF EndRound, LeavesLoop
  <1>3. CallShape'
    BY <1>t, <1>2 DEF EndRound, RetrySet, CallShape
  <1>4. Tallies' /\ GivenShape'
    <2>1. Contributed' = Contributed /\ given' = given
      BY <1>t DEF EndRound, RetrySet, Contributed, history
    <2>2. /\ totalChunks + chunks = Chunks(given, Contributed)
          /\ okCount + ok = Cardinality(Contributed)
      BY <1>t DEF CallInv, Tallies
    <2>3. pc' = "probe" => chunks' = 0 /\ ok' = 0
      BY <1>t DEF EndRound
    <2>4. GivenShape'
      BY <1>t, <2>1 DEF CallInv, GivenShape
    <2> QED  BY <1>n, <2>1, <2>2, <2>3, <2>4 DEF Tallies
  <1>5. FailuresCounted'
    <2>1. \A op \in fresh : failCount[op] <= rounds + 1
      BY <1>t, <1>n DEF CallInv, FailuresCounted, TypeOK
    <2>2. failCount' = failCount /\ fresh' = fresh /\ (pc' = "probe" => failed' = {})
      BY <1>t DEF EndRound, history
    <2> QED  BY <1>n, <2>1, <2>2 DEF FailuresCounted
  <1>6. VerdictIsMeasured'
    BY DEF EndRound, CallInv, VerdictIsMeasured
  <1> QED  BY <1>1, <1>3, <1>4, <1>5, <1>6 DEF CallInv

LEMMA RecordStep ==
    ASSUME CallInv, Record
    PROVE  CallInv'
  <1>t. TypeOK /\ pc = "verdict" /\ pending = {} /\ inflight = {} /\ ~expired
    BY DEF CallInv, CallShape, Record
  <1>1. CallShape' /\ Tallies' /\ GivenShape' /\ FailuresCounted'
    BY ReturnEnds DEF Record
  <1>2. Contributed \in SUBSET Operators /\ IsFiniteSet(Operators)
    BY <1>t, ContributedType
  <1>3. okCount = Cardinality(Contributed)
    BY <1>t DEF CallInv, Tallies
  <1>4. Row \in Retrievals
    <2>1. Cardinality(allOperators) \in 0..Cardinality(Operators)
      BY <1>t, <1>2, FS_Subset, FS_CardinalityType DEF TypeOK
    <2>2. okCount \in 0..Cardinality(Operators)
      BY <1>2, <1>3, FS_Subset, FS_CardinalityType
    <2>3. totalChunks \in Nat /\ (Chunks(held, Operators) >= MinChunksForRecovery) \in BOOLEAN
      BY <1>t DEF TypeOK
    <2>4. Recoverable \in BOOLEAN /\ expired \in BOOLEAN /\ pending \cup inflight \in SUBSET Operators
      BY <1>t DEF Recoverable, TypeOK
    <2> QED  BY <2>1, <2>2, <2>3, <2>4 DEF Row, Retrievals
  <1>5. Row.untried = {} /\ ~Row.cutShort
    BY <1>t DEF Row
  <1>6. retrieval' = {Row}
    BY DEF Record
  <1>7. VerdictIsMeasured'
    BY <1>5, <1>6 DEF VerdictIsMeasured
  <1>8. TypeOK'
    BY <1>t, <1>4, <1>6, ReturnTypes DEF Record, TypeOK
  <1> QED  BY <1>1, <1>7, <1>8 DEF CallInv

LEMMA CallStep == CallInv /\ [Next]_vars => CallInv'
  <1> SUFFICES ASSUME CallInv, [Next]_vars PROVE CallInv'
    OBVIOUS
  <1>t. TypeOK /\ VerdictIsMeasured
    BY DEF CallInv
  <1>1. ASSUME NEW op \in Operators, Collect(op)
        PROVE  CallInv'
    <2>1. held[op] - 1 \in 0..MaxHeld
      BY <1>1, <1>t DEF Collect, TypeOK
    <2>2. TypeOK'
      BY <1>1, <1>t, <2>1 DEF Collect, callVars, history, TypeOK
    <2>3. Contributed' = Contributed /\ given' = given
      BY <1>1 DEF Collect, callVars, history, Contributed
    <2> QED  BY <1>1, <2>2, <2>3 DEF Collect, callVars, history, CallInv, CallShape, NoCall,
                               Tallies, GivenShape, FailuresCounted, VerdictIsMeasured
  <1>2. ASSUME NEW S \in SUBSET Operators, ProbeAndRetrieve(S)
        PROVE  CallInv'
    BY <1>2, ProbeAndRetrieveStep
  <1>3. CASE Deadline
    <2>1. TypeOK'
      BY <1>3, <1>t DEF Deadline, history, TypeOK
    <2>2. Contributed' = Contributed /\ given' = given
      BY <1>3 DEF Deadline, history, Contributed
    <2> QED  BY <1>3, <2>1, <2>2 DEF Deadline, history, CallInv, CallShape, Tallies, GivenShape,
                               FailuresCounted, VerdictIsMeasured
  <1>4. ASSUME NEW op \in Operators, StartProbe(op)
        PROVE  CallInv'
    BY <1>4, StartProbeStep
  <1>5. ASSUME NEW op \in Operators, Answers(op)
        PROVE  CallInv'
    BY <1>5, AnswersStep
  <1>6. ASSUME NEW op \in Operators, DoesNotAnswer(op)
        PROVE  CallInv'
    BY <1>6, DoesNotAnswerStep
  <1>7. CASE EndRound
    BY <1>7, EndRoundStep
  <1>8. CASE Record
    BY <1>8, RecordStep
  <1>9. CASE Drop \/ RecordFails \/ Crash
    <2>1. ReturnFromCall /\ retrieval' = retrieval
      BY <1>9 DEF Drop, RecordFails, Crash
    <2>2. TypeOK'
      <3>1. failCount' \in [Operators -> 0..MaxFails] /\ fresh' \subseteq Operators
        BY <1>9, <1>t DEF Drop, RecordFails, Crash, TypeOK
      <3>2. held' = held /\ probed' = probed
        BY <1>9 DEF Drop, RecordFails, Crash
      <3> QED  BY <1>t, <2>1, <3>1, <3>2, ReturnTypes DEF TypeOK
    <2>3. VerdictIsMeasured'
      BY <1>t, <2>1 DEF VerdictIsMeasured
    <2> QED  BY <2>1, <2>2, <2>3, ReturnEnds DEF CallInv
  <1>10. CASE UNCHANGED vars
    <2>1. TypeOK'
      BY <1>10, <1>t DEF vars, callVars, history, TypeOK
    <2>2. Contributed' = Contributed /\ given' = given
      BY <1>10 DEF vars, callVars, history, Contributed
    <2> QED  BY <1>10, <2>1, <2>2 DEF vars, callVars, history, CallInv, CallShape, NoCall, Tallies,
                               GivenShape, FailuresCounted, VerdictIsMeasured
  <1> QED  BY <1>1, <1>2, <1>3, <1>4, <1>5, <1>6, <1>7, <1>8, <1>9, <1>10 DEF Next
-----------------------------------------------------------------------------
(* The conjunction that makes the properties inductive.                      *)
THEOREM CallInvariant == Spec => []CallInv
  BY CallInit, CallStep, PTL DEF Spec

(* Every reachable state has its type.                                       *)
THEOREM TypeCorrect == Spec => []TypeOK
  <1>1. CallInv => TypeOK
    BY DEF CallInv
  <1> QED  BY <1>1, CallInvariant, PTL

(* Over all rounds of a call every operator is counted once: the running      *)
(* totals are the chunks and the number of those that gave something.        *)
THEOREM CountedOnce == Spec => []TalliesAreExact
  <1>1. CallInv => TalliesAreExact
    BY DEF CallInv, Tallies, TalliesAreExact
  <1> QED  BY <1>1, CallInvariant, PTL

(* A verdict is only recorded after every operator has been asked, in time.  *)
THEOREM MeasuredWhole == Spec => []VerdictIsMeasured
  <1>1. CallInv => VerdictIsMeasured
    BY DEF CallInv
  <1> QED  BY <1>1, CallInvariant, PTL

(* The rounds of one call are too few to blacklist an operator, whatever the  *)
(* threshold, if it exceeds them.                                            *)
THEOREM RetriesNeverBlacklist == Spec => []OneCallNeverBlacklists
  <1>1. CallInv => OneCallNeverBlacklists
    <2> SUFFICES ASSUME CallInv, pc # "idle", NEW op \in fresh
                 PROVE  failCount[op] < BlacklistThreshold
      BY DEF OneCallNeverBlacklists, IsBlacklisted, CallInv, TypeOK
    <2>1. failCount[op] \in Nat /\ rounds \in 0..(MaxProbeRetries + 1) /\ pc \in {"probe", "verdict"}
      BY DEF CallInv, TypeOK
    <2>2. failCount[op] <= MaxProbeRetries + 1
      BY <2>1 DEF CallInv, CallShape, FailuresCounted
    <2> QED  BY <2>1, <2>2
  <1> QED  BY <1>1, CallInvariant, PTL
-----------------------------------------------------------------------------
(* The refinement.  A sample is what an operator gave to the call: the         *)
(* abstract specification counts who has contributed.                        *)
LEMMA MeasurementCounts ==
    ASSUME CallInv, pc # "idle"
    PROVE  /\ Measurement!Sampled = Contributed
           /\ Measurement!SampledChunks = Chunks(given, Contributed)
           /\ \A S : Measurement!Cardinality(S) = Cardinality(S)
  <1>1. \A S : Measurement!Cardinality(S) = Cardinality(S)
    BY DEF Measurement!Cardinality, Cardinality
  <1>2. Contributed \in SUBSET Operators
    BY ContributedType DEF CallInv
  <1>3. Measurement!Sampled = Contributed
    BY <1>2 DEF CallInv, GivenShape, Measurement!Sampled
  <1> QED  BY <1>1, <1>3 DEF Measurement!SampledChunks, Chunks

(* A row concludes the measurement of the operators of the call.             *)
LEMMA RecordRefines ==
    ASSUME CallInv, Record
    PROVE  Measurement!Conclude(allOperators)
  <1>1. TypeOK /\ pc = "verdict"
    BY DEF CallInv, Record
  <1>2. /\ totalChunks = Chunks(given, Contributed) /\ okCount = Cardinality(Contributed)
        /\ totalChunks \in Nat /\ okCount \in Nat
    BY <1>1 DEF CallInv, Tallies, TypeOK
  <1>3. Contributed \subseteq allOperators
    BY DEF Contributed
  <1>4. \/ totalChunks >= MinChunksForRecovery
        \/ totalChunks < GcChunksPerOpMax * okCount
        \/ Contributed = {}
    <2>1. IsFiniteSet(Contributed)
      BY <1>1, ContributedType
    <2>2. okCount = 0 => Contributed = {}
      BY <1>2, <2>1, FS_EmptySet
    <2>3. GcChunksPerOpMax * okCount \in Nat
      BY <1>2
    <2>4. ~Inconclusive
      BY DEF Record
    <2> QED  BY <1>2, <2>2, <2>3, <2>4 DEF Inconclusive, Recoverable
  <1>5. LatestVerdict' =
            {[operatorsTotal |-> Cardinality(allOperators),
              operatorsOK |-> okCount,
              chunksCollected |-> totalChunks,
              decodeSuccess |-> totalChunks >= MinChunksForRecovery]}
    BY DEF Record, LatestVerdict, Row, Recoverable
  <1>6. held' = held /\ given' = Measurement!NoSample
    BY DEF Record, ReturnFromCall, NoChunks, Measurement!NoSample
  <1>7. /\ Measurement!Sampled = Contributed
        /\ Measurement!SampledChunks = totalChunks
        /\ \A S : Measurement!Cardinality(S) = Cardinality(S)
    BY <1>1, <1>2, MeasurementCounts
  <1> QED  BY <1>2, <1>3, <1>4, <1>5, <1>6, <1>7 DEF Measurement!Conclude

(* An answer with chunks is the one sample of its operator; an answer without *)
(* is none.                                                                  *)
LEMMA AnswerRefines ==
    ASSUME CallInv, NEW op \in Operators, Answers(op)
    PROVE  Measurement!Sample(op) \/ UNCHANGED Measurement!vars
  <1>1. TypeOK /\ CallShape /\ op \in inflight /\ pc # "idle"
    BY DEF CallInv, Answers, CallShape, NoCall
  <1>2. given[op] = 0
    <2>1. op \notin Contributed
      BY <1>1 DEF Contributed
    <2>2. given[op] \in Nat
      BY <1>1 DEF TypeOK
    <2> QED  BY <1>1, <2>1, <2>2 DEF CallInv, GivenShape
  <1>3. /\ held' = held /\ LatestVerdict' = LatestVerdict
        /\ given' = [given EXCEPT ![op] = held[op]]
    BY DEF Answers, LatestVerdict
  <1>4. CASE held[op] > 0
    BY <1>2, <1>3, <1>4 DEF Measurement!Sample
  <1>5. CASE ~(held[op] > 0)
    <2>1. held[op] = 0
      BY <1>1, <1>5 DEF TypeOK
    <2>2. given' = given
      BY <1>1, <1>2, <1>3, <2>1 DEF TypeOK
    <2> QED  BY <1>3, <2>2 DEF Measurement!vars
  <1> QED  BY <1>4, <1>5

\* Every step is one of the abstract specification, or leaves its variables alone.
LEMMA StepRefines ==
    ASSUME CallInv, [Next]_vars
    PROVE  [Measurement!Next]_(Measurement!vars)
  <1>1. ASSUME NEW op \in Operators, Collect(op)
        PROVE  Measurement!Next
    <2>1. Measurement!Collect(op)
      BY <1>1 DEF Collect, history, Measurement!Collect, LatestVerdict
    <2> QED  BY <2>1 DEF Measurement!Next
  <1>2. ASSUME NEW S \in SUBSET Operators, ProbeAndRetrieve(S)
        PROVE  Measurement!Next
    <2>1. given = NoChunks
      BY <1>2 DEF CallInv, CallShape, NoCall, ProbeAndRetrieve
    <2>2. Measurement!Begin
      BY <1>2, <2>1 DEF ProbeAndRetrieve, NoChunks, LatestVerdict,
                        Measurement!Begin, Measurement!NoSample
    <2> QED  BY <2>2 DEF Measurement!Next
  <1>3. ASSUME NEW op \in Operators, Answers(op)
        PROVE  [Measurement!Next]_(Measurement!vars)
    BY <1>3, AnswerRefines DEF Measurement!Next
  <1>4. CASE Record
    <2>1. allOperators \in SUBSET Operators
      BY DEF CallInv, TypeOK
    <2> QED  BY <1>4, <2>1, RecordRefines DEF Measurement!Next
  <1>5. CASE Drop \/ RecordFails \/ Crash
    <2>1. Measurement!Abandon
      BY <1>5 DEF Drop, RecordFails, Crash, ReturnFromCall, NoChunks, LatestVerdict,
                  Measurement!Abandon, Measurement!NoSample
    <2> QED  BY <2>1 DEF Measurement!Next
  <1>6. ASSUME held' = held, given' = given, retrieval' = retrieval
        PROVE  UNCHANGED Measurement!vars
    BY <1>6 DEF Measurement!vars, LatestVerdict
  <1>7. \/ \E op \in Operators : Collect(op) \/ Answers(op)
        \/ \E S \in SUBSET Operators : ProbeAndRetrieve(S)
        \/ Drop \/ Record \/ RecordFails \/ Crash
        \/ held' = held /\ given' = given /\ retrieval' = retrieval
    BY DEF Next, Deadline, StartProbe, DoesNotAnswer, EndRound, vars, history
  <1> QED  BY <1>1, <1>2, <1>3, <1>4, <1>5, <1>6, <1>7

(* The measurement implements the abstract one: a row, though made in rounds  *)
(* of parallel probes while operators drop chunks, is made of what each gave  *)
(* when it answered, once, and of nothing else; for any operators, chunks and *)
(* settings.                                                                 *)
THEOREM Refinement == Spec => MeasurementSpec
  <1>1. Init => Measurement!Init
    BY DEF Init, NoCall, NoChunks, Measurement!Init, Measurement!NoSample, LatestVerdict
  <1>2. CallInv /\ [Next]_vars => [Measurement!Next]_(Measurement!vars)
    BY StepRefines
  <1> QED  BY <1>1, <1>2, CallInvariant, PTL DEF Spec, MeasurementSpec, Measurement!Spec
-----------------------------------------------------------------------------
(* What a RECOVERABLE verdict is worth.  Operators that drop chunks during a  *)
(* call may hold too few when the row is written; they held enough when the   *)
(* call began, which a history variable keeps: held, as of the last moment     *)
(* without a call.                                                           *)
VARIABLE began
BeganSpec ==
    Spec /\ began = held /\ [][began' = IF pc = "idle" THEN held' ELSE began]_<<vars, began>>

(* A RECOVERABLE verdict is true of the moment its call began: the operators  *)
(* held MinChunksForRecovery chunks or more, whatever answered, failed, was   *)
(* retried, was dropped since or was missing from the set.                   *)
RecoverableIsTrue ==
    pc = "verdict" /\ Recoverable => Chunks(began, Operators) >= MinChunksForRecovery

(* No operator gives, or has, more than it had when the call began.          *)
BeganInv ==
    /\ began \in [Operators -> 0..MaxHeld]
    /\ pc # "idle" => \A op \in Operators : held[op] <= began[op] /\ given[op] <= began[op]

\* BeganInv is kept by every step.
LEMMA BeganStep ==
    ASSUME CallInv, CallInv', BeganInv, [Next]_vars,
           began' = IF pc = "idle" THEN held' ELSE began
    PROVE  BeganInv'
  <1>t. /\ held \in [Operators -> 0..MaxHeld] /\ held' \in [Operators -> 0..MaxHeld]
        /\ given \in [Operators -> 0..MaxHeld] /\ given' \in [Operators -> 0..MaxHeld]
        /\ began \in [Operators -> 0..MaxHeld] /\ began' \in [Operators -> 0..MaxHeld]
    BY DEF CallInv, TypeOK, BeganInv
  <1>1. CASE pc = "idle"
    <2>1. CASE pc' = "idle"
      BY <1>t, <2>1 DEF BeganInv
    <2>2. CASE pc' # "idle"
      <3>1. given = NoChunks
        BY <1>1 DEF CallInv, CallShape, NoCall
      <3>2. given' = given
        <4>1. ~(\E op \in Operators : StartProbe(op) \/ Answers(op) \/ DoesNotAnswer(op))
          BY <1>1, <3>1 DEF StartProbe, Answers, DoesNotAnswer, CallInv, CallShape, NoCall
        <4> QED  BY <1>1, <2>2, <4>1 DEF Next, Collect, ProbeAndRetrieve, Deadline, EndRound, Drop,
                        Record, RecordFails, Crash, vars, callVars, history
      <3>3. \A op \in Operators : given'[op] = 0
        BY <3>1, <3>2 DEF NoChunks
      <3> QED  BY <1>1, <1>t, <3>3 DEF BeganInv
    <2> QED  BY <2>1, <2>2
  <1>2. CASE pc # "idle"
    <2>1. began' = began /\ \A op \in Operators : held[op] <= began[op] /\ given[op] <= began[op]
      BY <1>2 DEF BeganInv
    <2>2. \A op \in Operators : held'[op] <= held[op]
      <3>1. ASSUME NEW op \in Operators, Collect(op)
            PROVE  \A p \in Operators : held'[p] <= held[p]
        BY <1>t, <3>1 DEF Collect
      <3>2. CASE held' = held
        BY <1>t, <3>2
      <3> QED  BY <3>1, <3>2 DEF Next, ProbeAndRetrieve, Deadline, StartProbe, Answers,
                      DoesNotAnswer, EndRound, Drop, Record, RecordFails, Crash, vars
    <2>3. pc' # "idle" => \A op \in Operators : given'[op] = given[op] \/ given'[op] = held[op]
      <3>1. ASSUME NEW op \in Operators, Answers(op)
            PROVE  \A p \in Operators : given'[p] = given[p] \/ given'[p] = held[p]
        BY <1>t, <3>1 DEF Answers
      <3>2. \/ \E op \in Operators : Answers(op)
            \/ given' = given
            \/ pc' = "idle"
        BY <1>2 DEF Next, Collect, ProbeAndRetrieve, Deadline, StartProbe, DoesNotAnswer, EndRound,
               Drop, Record, RecordFails, Crash, ReturnFromCall, vars, history
      <3> QED  BY <3>1, <3>2
    <2> QED  BY <1>t, <2>1, <2>2, <2>3 DEF BeganInv
  <1> QED  BY <1>1, <1>2

(* RECOVERABLE is only said of a blob whose chunks were there when the call   *)
(* began.                                                                    *)
THEOREM RecoverableIsSound == BeganSpec => []RecoverableIsTrue
  <1>1. Init /\ began = held => BeganInv
    BY DEF Init, BeganInv
  <1>2. CallInv /\ CallInv' /\ BeganInv /\ [Next]_vars
            /\ [began' = IF pc = "idle" THEN held' ELSE began]_<<vars, began>> => BeganInv'
    <2> SUFFICES ASSUME CallInv, CallInv', BeganInv, [Next]_vars,
                        [began' = IF pc = "idle" THEN held' ELSE began]_<<vars, began>>
                 PROVE  BeganInv'
      OBVIOUS
    <2>1. CASE UNCHANGED <<vars, began>>
      BY <2>1 DEF vars, callVars, history, BeganInv
    <2> QED  BY <2>1, BeganStep
  <1>3. CallInv /\ BeganInv => RecoverableIsTrue
    <2> SUFFICES ASSUME CallInv, BeganInv, pc = "verdict", Recoverable
                 PROVE  Chunks(began, Operators) >= MinChunksForRecovery
      BY DEF RecoverableIsTrue
    <2>1. /\ given \in [Operators -> 0..MaxHeld] /\ began \in [Operators -> 0..MaxHeld]
          /\ Contributed \in SUBSET Operators
      BY ContributedType DEF CallInv, TypeOK, BeganInv
    <2>2. totalChunks = Chunks(given, Contributed) /\ totalChunks >= MinChunksForRecovery
      BY DEF CallInv, Tallies, Recoverable
    <2>3. Chunks(given, Contributed) <= Chunks(began, Contributed)
      BY <2>1, ChunksPointwise DEF BeganInv
    <2>4. Chunks(began, Contributed) <= Chunks(began, Operators)
      BY <2>1, ChunksMonotone
    <2>5. /\ Chunks(given, Contributed) \in Nat /\ Chunks(began, Contributed) \in Nat
          /\ Chunks(began, Operators) \in Nat
      BY <2>1, ChunksType
    <2> QED  BY <2>2, <2>3, <2>4, <2>5
  <1> QED  BY <1>1, <1>2, <1>3, CallInvariant, PTL DEF BeganSpec, Spec
-----------------------------------------------------------------------------
(* A call ends: what is left of it, in steps.  A round has at most two for    *)
(* each operator and one for its end; the deadline passes once.              *)
RoundSteps == 2 * Cardinality(allOperators) + 2
StepsLeft ==
    IF pc = "idle" THEN 0
    ELSE (IF expired THEN 0 ELSE 1)
         + (IF pc = "verdict" THEN 1
            ELSE (MaxProbeRetries + 1 - rounds) * RoundSteps
                 + 2 * Cardinality(pending) + Cardinality(inflight))

LEMMA Multiply ==
    ASSUME NEW n \in Nat \ {0}, NEW k \in Nat
    PROVE  (n - 1) * k \in Nat /\ n * k = (n - 1) * k + k
  OBVIOUS

\* The sets of a call are finite, and none has more members than the call has operators.
LEMMA SetsOfCall ==
    ASSUME TypeOK
    PROVE  /\ IsFiniteSet(allOperators) /\ IsFiniteSet(pending)
           /\ IsFiniteSet(inflight) /\ IsFiniteSet(failed)
           /\ Cardinality(allOperators) \in Nat /\ Cardinality(pending) \in Nat
           /\ Cardinality(inflight) \in Nat /\ Cardinality(failed) \in Nat
           /\ Cardinality(failed) <= Cardinality(allOperators)
  <1>1. /\ allOperators \in SUBSET Operators /\ pending \in SUBSET allOperators
        /\ inflight \in SUBSET allOperators /\ failed \in SUBSET allOperators
    BY DEF TypeOK
  <1>2. IsFiniteSet(allOperators)
    BY <1>1, FS_Subset
  <1>3. /\ IsFiniteSet(pending) /\ IsFiniteSet(inflight) /\ IsFiniteSet(failed)
        /\ Cardinality(failed) <= Cardinality(allOperators)
    BY <1>1, <1>2, FS_Subset
  <1> QED  BY <1>2, <1>3, FS_CardinalityType

LEMMA StepsLeftType == CallInv => StepsLeft \in Nat
  <1> SUFFICES ASSUME CallInv, pc # "idle" PROVE StepsLeft \in Nat
    BY DEF StepsLeft
  <1>1. TypeOK /\ CallShape
    BY DEF CallInv
  <1>2. RoundSteps \in Nat
    BY <1>1, SetsOfCall DEF RoundSteps
  <1>3. CASE pc = "probe"
    <2>1. MaxProbeRetries + 1 - rounds \in Nat \ {0}
      BY <1>1, <1>3 DEF TypeOK, CallShape
    <2>2. (MaxProbeRetries + 1 - rounds) * RoundSteps \in Nat
      BY <1>2, <2>1
    <2> QED  BY <1>1, <1>3, <2>2, SetsOfCall DEF StepsLeft
  <1> QED  BY <1>1, <1>3 DEF StepsLeft, TypeOK

\* A chunk dropped meanwhile is no step of the call and leaves as many to come.
CollectMeanwhile == StepsLeft' = StepsLeft /\ \E op \in Operators : Collect(op)

\* Every step of a call leaves fewer.
LEMMA CallStepCounts ==
    ASSUME CallInv, CallInv', [Next]_vars, pc # "idle"
    PROVE  StepsLeft' < StepsLeft \/ CollectMeanwhile \/ UNCHANGED vars
  <1>t. TypeOK /\ CallShape /\ StepsLeft \in Nat
    BY StepsLeftType DEF CallInv
  <1>r. RoundSteps \in Nat /\ RoundSteps = 2 * Cardinality(allOperators) + 2
    BY <1>t, SetsOfCall DEF RoundSteps
  <1>s. /\ Cardinality(pending) \in Nat /\ Cardinality(inflight) \in Nat
        /\ IsFiniteSet(pending) /\ IsFiniteSet(inflight)
    BY <1>t, SetsOfCall
  <1> DEFINE rest == (MaxProbeRetries + 1 - rounds) * RoundSteps
             bit == IF expired THEN 0 ELSE 1
  <1>p. ASSUME pc = "probe"
        PROVE  /\ rest \in Nat /\ rest >= RoundSteps
               /\ StepsLeft = bit + rest + 2 * Cardinality(pending) + Cardinality(inflight)
    <2>1. MaxProbeRetries + 1 - rounds \in Nat \ {0}
      BY <1>t, <1>p DEF TypeOK, CallShape
    <2>2. PICK n \in Nat \ {0} : n = MaxProbeRetries + 1 - rounds
      BY <2>1
    <2>3. (n - 1) * RoundSteps \in Nat /\ n * RoundSteps = (n - 1) * RoundSteps + RoundSteps
      BY <1>r, Multiply
    <2>4. rest \in Nat /\ rest >= RoundSteps
      BY <1>r, <2>2, <2>3
    <2> HIDE DEF rest
    <2>5. StepsLeft = bit + (rest + 2 * Cardinality(pending) + Cardinality(inflight))
      BY <1>p DEF StepsLeft, rest
    <2> QED  BY <1>s, <2>4, <2>5
  <1>b. bit \in {0, 1} /\ (expired' = expired => bit' = bit)
    OBVIOUS
  <1>1. CASE Deadline
    <2>1. /\ pc' = pc /\ ~expired /\ expired' = TRUE /\ rounds' = rounds
          /\ pending' = pending /\ inflight' = inflight /\ RoundSteps' = RoundSteps
      BY <1>1 DEF Deadline, RoundSteps
    <2>2. StepsLeft' = StepsLeft - 1
      <3>1. CASE pc = "probe"
        BY <1>p, <1>s, <2>1, <3>1 DEF StepsLeft
      <3>2. CASE pc = "verdict"
        BY <2>1, <3>2 DEF StepsLeft
      <3> QED  BY <1>t, <3>1, <3>2 DEF TypeOK
    <2> QED  BY <1>t, <2>2
  <1>2. ASSUME NEW op \in Operators, StartProbe(op)
        PROVE  StepsLeft' < StepsLeft
    <2>1. /\ pc = "probe" /\ pc' = pc /\ expired' = expired /\ rounds' = rounds
          /\ RoundSteps' = RoundSteps
      BY <1>2 DEF StartProbe, RoundSteps
    <2>2. op \in pending /\ op \notin inflight
      BY <1>t, <1>2 DEF StartProbe, CallShape
    <2>3. Cardinality(pending') = Cardinality(pending) - 1
      BY <1>2, <1>s, <2>2, FS_RemoveElement DEF StartProbe
    <2>4. Cardinality(inflight') = Cardinality(inflight) + 1
      BY <1>2, <1>s, <2>2, FS_AddElement DEF StartProbe
    <2>5. StepsLeft' = bit + (rest + 2 * Cardinality(pending') + Cardinality(inflight'))
      BY <2>1 DEF StepsLeft
    <2> QED  BY <1>p, <1>s, <1>b, <2>1, <2>3, <2>4, <2>5
  <1>3. ASSUME NEW op \in Operators, Answers(op) \/ DoesNotAnswer(op)
        PROVE  StepsLeft' < StepsLeft
    <2>1. /\ op \in inflight /\ inflight' = inflight \ {op} /\ pending' = pending
          /\ pc' = pc /\ expired' = expired /\ rounds' = rounds /\ RoundSteps' = RoundSteps
      BY <1>3 DEF Answers, DoesNotAnswer, RoundSteps
    <2>2. pc = "probe"
      BY <1>t, <2>1 DEF TypeOK, CallShape
    <2>3. Cardinality(inflight') = Cardinality(inflight) - 1
      BY <1>s, <2>1, FS_RemoveElement
    <2>4. StepsLeft' = bit + (rest + 2 * Cardinality(pending') + Cardinality(inflight'))
      BY <2>1, <2>2 DEF StepsLeft
    <2> QED  BY <1>p, <1>s, <1>b, <2>1, <2>2, <2>3, <2>4
  <1>4. CASE EndRound
    <2>1. /\ pc = "probe" /\ pending = {} /\ inflight = {} /\ inflight' = {}
          /\ expired' = expired /\ rounds' = rounds + 1 /\ RoundSteps' = RoundSteps
      BY <1>4 DEF EndRound, RoundSteps
    <2>2. Cardinality({}) = 0
      BY FS_EmptySet
    <2>3. StepsLeft >= bit + RoundSteps
      BY <1>p, <1>r, <1>s, <1>b, <2>1, <2>2
    <2>4. CASE pc' = "verdict"
      <3>1. StepsLeft' = bit + 1
        BY <2>1, <2>4 DEF StepsLeft
      <3> QED  BY <1>t, <1>r, <1>t, <1>b, <2>3, <3>1, SetsOfCall
    <2>5. CASE pc' # "verdict"
      <3>1. pc' = "probe" /\ pending' = failed
        BY <1>4, <2>5 DEF EndRound, RetrySet
      <3>2. Cardinality(failed) \in Nat /\ Cardinality(failed) <= Cardinality(allOperators)
            /\ Cardinality(allOperators) \in Nat
        BY <1>t, SetsOfCall
      <3>3. PICK n \in Nat \ {0} : n = MaxProbeRetries + 1 - rounds
        BY <1>t, <2>1 DEF TypeOK, CallShape
      <3>4. n - 1 = MaxProbeRetries + 1 - rounds'
        BY <1>t, <2>1, <3>3 DEF TypeOK
      <3>5. (n - 1) * RoundSteps \in Nat /\ n * RoundSteps = (n - 1) * RoundSteps + RoundSteps
        BY <1>r, Multiply
      <3>6. StepsLeft' = bit + ((n - 1) * RoundSteps + 2 * Cardinality(failed) + 0)
        BY <2>1, <2>2, <3>1, <3>4 DEF StepsLeft
      <3>7. StepsLeft = bit + n * RoundSteps + 2 * 0 + 0
        BY <1>p, <2>1, <2>2, <3>3
      <3> QED  BY <1>r, <1>b, <3>2, <3>5, <3>6, <3>7
    <2> QED  BY <2>4, <2>5
  <1>5. CASE Drop \/ Record \/ RecordFails \/ Crash
    <2>1. pc' = "idle"
      BY <1>5 DEF Drop, Record, RecordFails, Crash, ReturnFromCall
    <2>2. StepsLeft' = 0
      BY <2>1 DEF StepsLeft
    <2>3. StepsLeft > 0
      <3>1. CASE pc = "probe"
        BY <1>p, <1>r, <1>s, <1>t, <1>b, <3>1, SetsOfCall
      <3>2. CASE pc = "verdict"
        BY <3>2 DEF StepsLeft
      <3> QED  BY <1>t, <3>1, <3>2 DEF TypeOK
    <2> QED  BY <1>t, <2>2, <2>3
  <1>6. ASSUME NEW op \in Operators, Collect(op)
        PROVE  CollectMeanwhile
    <2>1. /\ pc' = pc /\ expired' = expired /\ rounds' = rounds /\ pending' = pending
          /\ inflight' = inflight /\ allOperators' = allOperators
      BY <1>6 DEF Collect, callVars
    <2>2. StepsLeft' = StepsLeft
      BY <2>1 DEF StepsLeft, RoundSteps
    <2> QED  BY <1>6, <2>2 DEF CollectMeanwhile
  <1>7. ~(\E S \in SUBSET Operators : ProbeAndRetrieve(S))
    BY DEF ProbeAndRetrieve
  <1> QED  BY <1>1, <1>2, <1>3, <1>4, <1>5, <1>6, <1>7 DEF Next

(* A call cannot go on for ever: every step of it, whatever answers, fails,   *)
(* is retried or runs out of time, leaves fewer steps to come, so that a call *)
(* about n operators has at most (MaxProbeRetries + 2) * (2n + 2); and the    *)
(* operators that drop chunks meanwhile, of which they have so many, add      *)
(* none.  With the fairness that no goroutine stops halfway this is why       *)
(* CallEnds holds.                                                           *)
THEOREM CallsAreBounded ==
    Spec => /\ [](StepsLeft \in Nat)
            /\ [][pc # "idle" => StepsLeft' < StepsLeft \/ CollectMeanwhile]_vars
  <1>1. CallInv => StepsLeft \in Nat
    BY StepsLeftType
  <1>2. CallInv /\ CallInv' /\ [Next]_vars
            => [pc # "idle" => StepsLeft' < StepsLeft \/ CollectMeanwhile]_vars
    BY CallStepCounts
  <1> QED  BY <1>1, <1>2, CallInvariant, PTL DEF Spec
-----------------------------------------------------------------------------
(* The schedule of the loop that makes these calls (module OperatorSchedule): *)
(* why its turns for the age groups and for the prober's own blobs meet.      *)
CONSTANTS NumGroups, SelfPeriod

VARIABLES cycle, aged, ownBlob, unprobed, turn, group

Schedule == INSTANCE OperatorSchedule

\* The assumptions of OperatorSchedule about its constants.
SettingsOfSchedule ==
    /\ NumGroups \in Nat \ {0}
    /\ SelfPeriod \in Nat \ {0}
Coprime(n, p) == \A d \in 2..p : ~(n % d = 0 /\ p % d = 0)

(* A set of numbers has a least one.                                         *)
LEMMA LeastNumber ==
    ASSUME NEW T \in SUBSET Nat, NEW b \in T
    PROVE  \E m \in T : \A k \in T : m <= k
  <1>1. PICK m \in T : \A k \in T : ~(<<k, m>> \in OpToRel(<, Nat))
    BY NatLessThanWellFounded, WFMin, Zenon
  <1>2. \A k \in T : ~(k < m)
    BY <1>1 DEF OpToRel
  <1> QED  BY <1>2

(* The laws of multiplication the steps below use.                           *)
LEMMA Ring ==
    ASSUME NEW a \in Int, NEW b \in Int, NEW c \in Int
    PROVE  /\ a * b \in Int /\ a * b = b * a
           /\ a * (b * c) = (a * b) * c
           /\ (a + b) * c = a * c + b * c
           /\ (a - b) * c = a * c - b * c
  OBVIOUS

(* Division with a remainder.                                               *)
LEMMA DivMod ==
    ASSUME NEW a \in Int, NEW n \in Nat \ {0}
    PROVE  /\ a % n \in 0..(n - 1) /\ a \div n \in Int
           /\ a = (a \div n) * n + (a % n)
  OBVIOUS

(* There is only one such remainder.                                         *)
LEMMA Remainder ==
    ASSUME NEW n \in Nat \ {0}, NEW q \in Int, NEW r \in 0..(n - 1)
    PROVE  (q * n + r) % n = r
  <1>1. PICK a \in Int : a = q * n + r
    OBVIOUS
  <1>2. PICK k \in Int, s \in 0..(n - 1) : a = k * n + s /\ s = a % n
    BY DivMod
  <1>3. (q - k) * n = s - r
    <2>1. (q - k) * n = q * n - k * n
      BY Ring
    <2>2. q * n \in Int /\ k * n \in Int
      BY Ring
    <2> QED  BY <1>1, <1>2, <2>1, <2>2
  <1>4. q = k
    <2>1. PICK e \in Int : e = q - k
      OBVIOUS
    <2>2. (e >= 1 => e * n >= n) /\ (e <= -1 => e * n <= -n) /\ e * n \in Int
      OBVIOUS
    <2>3. e = 0
      BY <1>3, <2>1, <2>2
    <2> QED  BY <2>1, <2>3
  <1>5. r = s
    <2>1. q * n \in Int
      OBVIOUS
    <2> QED  BY <1>1, <1>2, <1>4, <2>1
  <1> QED  BY <1>1, <1>2, <1>5, Zenon

(* The remainder of a combination by another is a combination.               *)
LEMMA Combination ==
    ASSUME NEW u \in Int, NEW v \in Int, NEW k \in Int, NEW x \in Int, NEW y \in Int,
           NEW n \in Int, NEW p \in Int
    PROVE  (u * n + v * p) - k * (x * n + y * p) = (u - k * x) * n + (v - k * y) * p
  OBVIOUS

\* The positive combinations of two numbers.
Combined(n, p) == {c \in Nat \ {0} : \E x, y \in Int : c = x * n + y * p}

(* The least of them divides every other one.                                *)
LEMMA LeastDivides ==
    ASSUME NEW N \in Nat \ {0}, NEW P \in Nat \ {0},
           NEW d \in Combined(N, P), \A c \in Combined(N, P) : d <= c,
           NEW a \in Nat, NEW u \in Int, NEW v \in Int, a = u * N + v * P
    PROVE  a % d = 0
  <1>1. PICK x, y \in Int : d = x * N + y * P /\ d \in Nat \ {0}
    BY DEF Combined
  <1>2. PICK k \in Int, r \in 0..(d - 1) : a = k * d + r /\ r = a % d
    <2>1. d \in Nat \ {0} /\ a \in Int
      BY <1>1
    <2> QED  BY <2>1, DivMod, Zenon
  <1>3. r = (u - k * x) * N + (v - k * y) * P
    <2>1. r = a - k * d
      <3>1. k * d \in Int
        BY <1>1
      <3> QED  BY <1>2, <3>1
    <2>2. a - k * d = (u * N + v * P) - k * (x * N + y * P)
      <3>1. d = x * N + y * P
        BY <1>1
      <3>2. a - k * d = a - k * (x * N + y * P)
        BY <3>1, Zenon
      <3>3. a - k * (x * N + y * P) = (u * N + v * P) - k * (x * N + y * P)
        OBVIOUS
      <3> QED  BY <3>2, <3>3, Zenon
    <2>3. (u * N + v * P) - k * (x * N + y * P) = (u - k * x) * N + (v - k * y) * P
      <3>1. N \in Int /\ P \in Int
        OBVIOUS
      <3> QED  BY <3>1
    <2> QED  BY <2>1, <2>2, <2>3, Zenon
  <1>4. u - k * x \in Int /\ v - k * y \in Int
    OBVIOUS
  <1>5. r # 0 => r \in Combined(N, P)
    <2>1. r \in Nat
      BY <1>1, <1>2
    <2> QED  BY <1>3, <1>4, <2>1, Zenon DEF Combined
  <1>6. r = 0
    BY <1>1, <1>5
  <1> QED  BY <1>2, <1>6

(* So that of coprime numbers it is 1 (Bezout).                              *)
LEMMA Bezout ==
    ASSUME NEW N \in Nat \ {0}, NEW P \in Nat \ {0}, Coprime(N, P)
    PROVE  \E x, y \in Int : x * N + y * P = 1
  <1>1. P \in Combined(N, P)
    <2>1. P = 0 * N + 1 * P /\ 0 \in Int /\ 1 \in Int
      OBVIOUS
    <2> QED  BY <2>1, Zenon DEF Combined
  <1>2. PICK d \in Combined(N, P) : \A c \in Combined(N, P) : d <= c
    <2>1. Combined(N, P) \subseteq Nat
      BY DEF Combined
    <2> QED  BY <1>1, <2>1, LeastNumber, Zenon
  <1>3. N = 1 * N + 0 * P /\ P = 0 * N + 1 * P
    OBVIOUS
  <1>4. N % d = 0 /\ P % d = 0
    <2>1. N \in Nat /\ P \in Nat /\ 0 \in Int /\ 1 \in Int
      OBVIOUS
    <2>2. \A a \in Nat, u, v \in Int : a = u * N + v * P => a % d = 0
      BY <1>2, LeastDivides
    <2> QED  BY <1>3, <2>1, <2>2, Zenon
  <1>5. d \in 1..P
    BY <1>1, <1>2 DEF Combined
  <1>6. d = 1
    BY <1>4, <1>5, Coprime(N, P) DEF Coprime
  <1> QED  BY <1>6 DEF Combined

(* And a multiple of one leaves any remainder by the other: the Chinese        *)
(* remainder theorem, for the remainders g and 0.                            *)
LEMMA Chinese ==
    ASSUME NEW N \in Nat \ {0}, NEW P \in Nat \ {0}, Coprime(N, P),
           NEW g \in 0..(N - 1)
    PROVE  \E c \in 0..(N * P - 1) : c % N = g /\ c % P = 0
  <1>1. PICK x, y \in Int : x * N + y * P = 1
    BY Bezout
  <1>2. PICK z \in Int : z = g * y
    OBVIOUS
  <1>3. PICK q \in Int, s \in 0..(N - 1) : z = q * N + s
    BY DivMod
  <1>4. PICK c \in Int : c = s * P
    OBVIOUS
  <1>5. c \in 0..(N * P - 1)
    <2>1. N * P = (N - s) * P + s * P /\ (N - s) * P \in Int /\ s * P \in Int
      OBVIOUS
    <2>2. (N - s) * P >= P /\ s * P >= 0
      OBVIOUS
    <2> QED  BY <1>4, <2>1, <2>2
  <1>6. c % P = 0
    <2>1. c = s * P + 0 /\ 0 \in 0..(P - 1)
      BY <1>4
    <2> QED  BY <2>1, Remainder
  <1>7. c = (-(g * x) - q * P) * N + g
    <2>1. s = z - q * N
      BY <1>3
    <2>2. c = z * P - (q * N) * P
      BY <1>4, <2>1, Ring
    <2>3. z * P = g * (y * P)
      BY <1>2, Ring
    <2>4. y * P = 1 - x * N
      BY <1>1, Ring
    <2>5. g * (1 - x * N) = g - g * (x * N)
      BY Ring
    <2>6. g * (x * N) = (g * x) * N
      BY Ring
    <2>7. (q * N) * P = (q * P) * N
      BY Ring
    <2>8. (-(g * x) - q * P) * N = -((g * x) * N) - (q * P) * N
      BY Ring
    <2>9. (g * x) * N \in Int /\ (q * P) * N \in Int
      BY Ring
    <2> QED  BY <2>2, <2>3, <2>4, <2>5, <2>6, <2>7, <2>8, <2>9
  <1>8. c % N = g
    <2>1. -(g * x) - q * P \in Int
      OBVIOUS
    <2> QED  BY <1>7, <2>1, Remainder
  <1> QED  BY <1>5, <1>6, <1>8

(* The counter has a positive period.                                        *)
LEMMA PeriodType ==
    ASSUME SettingsOfSchedule
    PROVE  Schedule!Period \in Nat \ {0}
  BY DEF SettingsOfSchedule, Schedule!Period

(* The counter, the groups and the turns of the loop stay what they are,     *)
(* whatever the other workers do to the tables and whichever queries fail.    *)
THEOREM ScheduleTyped ==
    SettingsOfSchedule => (Schedule!Spec => []Schedule!TypeOK)
  <1> SUFFICES ASSUME SettingsOfSchedule
               PROVE  Schedule!Spec => []Schedule!TypeOK
    OBVIOUS
  <1>1. 0 \in Schedule!Groups /\ \A c \in Nat : Schedule!AgeGroup(c) \in Schedule!Groups
    <2>1. \A c \in Nat : c % NumGroups \in 0..(NumGroups - 1)
      BY DivMod DEF SettingsOfSchedule
    <2> QED  BY <2>1 DEF SettingsOfSchedule, Schedule!Groups, Schedule!AgeGroup
  <1>2. \A c \in Nat : (c + 1) % Schedule!Period \in 0..(Schedule!Period - 1)
    <2>1. PICK n \in Nat \ {0} : n = Schedule!Period
      BY PeriodType
    <2>2. \A c \in Nat : (c + 1) % n \in 0..(n - 1)
      BY DivMod
    <2> QED  BY <2>1, <2>2
  <1>3. Schedule!Init => Schedule!TypeOK
    <2>1. 0 \in 0..(Schedule!Period - 1)
      BY PeriodType
    <2> QED  BY <1>1, <2>1, Zenon DEF Schedule!Init, Schedule!TypeOK
  <1>4. Schedule!TypeOK /\ [Schedule!Next]_Schedule!vars => Schedule!TypeOK'
    <2> SUFFICES ASSUME Schedule!TypeOK, [Schedule!Next]_Schedule!vars
                 PROVE  Schedule!TypeOK'
      OBVIOUS
    <2>1. cycle \in Nat
      BY PeriodType DEF Schedule!TypeOK
    <2>2. ASSUME NEW t \in {"aged", "own", "unprobed", "sleep"}, Schedule!EndCycle(t)
          PROVE  /\ cycle' \in 0..(Schedule!Period - 1)
                 /\ turn' \in {"none", "aged", "own", "unprobed", "sleep"}
                 /\ group' \in Schedule!Groups
      BY <1>1, <1>2, <2>1, <2>2 DEF Schedule!EndCycle
    <2>3. CASE \E g \in Schedule!Groups : Schedule!Age(g)
      BY <2>3 DEF Schedule!TypeOK, Schedule!Age
    <2>4. CASE Schedule!Disperse \/ Schedule!Observe
      BY <2>4 DEF Schedule!TypeOK, Schedule!Disperse, Schedule!Observe
    <2>5. CASE Schedule!ProbeAged
      BY <2>2, <2>5 DEF Schedule!TypeOK, Schedule!ProbeAged
    <2>6. CASE \E f1 \in BOOLEAN : Schedule!ProbeSelf(f1)
      BY <2>2, <2>6 DEF Schedule!TypeOK, Schedule!ProbeSelf
    <2>7. CASE \E f1, f2 \in BOOLEAN : Schedule!ProbeUnprobed(f1, f2)
      BY <2>2, <2>7 DEF Schedule!TypeOK, Schedule!ProbeUnprobed
    <2>8. CASE \E f1, f2, f3 \in BOOLEAN : Schedule!Sleep(f1, f2, f3)
      BY <2>2, <2>8 DEF Schedule!TypeOK, Schedule!Sleep
    <2>9. CASE UNCHANGED Schedule!vars
      BY <2>9 DEF Schedule!TypeOK, Schedule!vars
    <2> QED  BY <2>3, <2>4, <2>5, <2>6, <2>7, <2>8, <2>9 DEF Schedule!Next
  <1> QED  BY <1>3, <1>4, PTL DEF Schedule!Spec

(* Wherever the loop is, each age group has its turn together with the       *)
(* prober's own blobs less than Period cycles later: should that group be     *)
(* empty then, the own blobs are next.  It is the arithmetic behind           *)
(* OwnBlobsGetTurns, and needs cycle % 16 and cycle % 3 to be of coprime      *)
(* numbers.                                                                  *)
THEOREM OwnTurnIsNear ==
    SettingsOfSchedule /\ Coprime(NumGroups, SelfPeriod) =>
        (Schedule!Spec =>
            [](\A g \in Schedule!Groups : \E k \in 0..(Schedule!Period - 1) :
                   LET c == (cycle + k) % Schedule!Period
                   IN  Schedule!AgeGroup(c) = g /\ Schedule!SelfTurn(c)))
  <1> SUFFICES ASSUME SettingsOfSchedule, Coprime(NumGroups, SelfPeriod)
               PROVE  Schedule!Spec =>
                        [](\A g \in Schedule!Groups : \E k \in 0..(Schedule!Period - 1) :
                               LET c == (cycle + k) % Schedule!Period
                               IN  Schedule!AgeGroup(c) = g /\ Schedule!SelfTurn(c))
    OBVIOUS
  <1>1. ASSUME Schedule!TypeOK, NEW g \in Schedule!Groups
        PROVE  \E k \in 0..(Schedule!Period - 1) :
                   LET c == (cycle + k) % Schedule!Period
                   IN  Schedule!AgeGroup(c) = g /\ Schedule!SelfTurn(c)
    <2>1. PICK d \in 0..(Schedule!Period - 1) : Schedule!AgeGroup(d) = g /\ Schedule!SelfTurn(d)
      <3>1. PICK d \in 0..(NumGroups * SelfPeriod - 1) : d % NumGroups = g /\ d % SelfPeriod = 0
        <4>1. g \in 0..(NumGroups - 1)
          BY <1>1 DEF Schedule!Groups
        <4>2. NumGroups \in Nat \ {0} /\ SelfPeriod \in Nat \ {0}
          BY DEF SettingsOfSchedule
        <4> QED  BY <4>1, <4>2, Chinese
      <3> QED  BY <3>1 DEF Schedule!Period, Schedule!AgeGroup, Schedule!SelfTurn
    <2>2. PICK n \in Nat \ {0} : n = Schedule!Period
      BY PeriodType
    <2>3. cycle \in 0..(n - 1)
      BY <1>1, <2>2 DEF Schedule!TypeOK
    <2>4. \E k \in 0..(n - 1) : (cycle + k) % n = d
      <3>1. CASE d >= cycle
        <4>1. d - cycle \in 0..(n - 1) /\ cycle + (d - cycle) = 0 * n + d
          BY <2>1, <2>2, <2>3, <3>1
        <4>2. (0 * n + d) % n = d
          BY <2>1, <2>2, Remainder
        <4> QED  BY <4>1, <4>2, Zenon
      <3>2. CASE d < cycle
        <4>1. d - cycle + n \in 0..(n - 1) /\ cycle + (d - cycle + n) = 1 * n + d
          BY <2>1, <2>2, <2>3, <3>2
        <4>2. (1 * n + d) % n = d
          BY <2>1, <2>2, Remainder
        <4> QED  BY <4>1, <4>2, Zenon
      <3> QED  BY <2>1, <2>2, <2>3, <3>1, <3>2
    <2> QED  BY <2>1, <2>2, <2>4, Zenon
  <1>2. Schedule!TypeOK =>
            \A g \in Schedule!Groups : \E k \in 0..(Schedule!Period - 1) :
                LET c == (cycle + k) % Schedule!Period
                IN  Schedule!AgeGroup(c) = g /\ Schedule!SelfTurn(c)
    BY <1>1
  <1> QED  BY <1>2, ScheduleTyped, PTL
=============================================================================
