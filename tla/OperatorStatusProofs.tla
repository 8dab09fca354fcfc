-------------------------- MODULE OperatorStatusProofs --------------------------
(***************************************************************************)
(* Proofs about the OperatorStatusWorker: the latest row of an operator has  *)
(* its own verdict and the name of its own latest document, with exactly the *)
(* exceptions the properties name; for any number of operators, URIs, block  *)
(* ranges and restarts, and any threshold.                                   *)
(***************************************************************************)
EXTENDS OperatorStatus, FiniteSetTheorems, TLAPS

USE OperatorsAssumption, BoundsAssumption

(* The verdict in hand is that of the operator the loop is at.               *)
VerdictInHand ==
    /\ op # NoOperator /\ op \notin changed => status = StatusOf(op)
    /\ \A o \in Operators \ changed : o # op => latest[o].status = StatusOf(o)

(* So are the latest event and the name found from it; an operator that       *)
(* never publishes has none.                                                 *)
NameInHand ==
    /\ stage \in {"idle", "next", "address"} => seen = 0
    /\ stage \in {"idle", "next", "address", "logs"} => name = 0
    /\ stage = "logs" /\ op \notin updated => seen = uri[op]
    /\ stage \in {"document", "insert"} /\ op \notin updated => name \in {0, uri[op]}
    /\ \A o \in Operators \ updated :
          (o # op \/ stage = "address") => latest[o].name \in {0, uri[o]}

Nameless ==
    \A o \in Operators \ Named :
        /\ uri[o] = 0 /\ latest[o].name = 0
        /\ o = op => seen = 0 /\ name = 0

StatusInv == TypeOK /\ VerdictInHand /\ NameInHand /\ Nameless

(* TypeOK is inductive by itself.                                            *)
LEMMA TypeInit == Init => TypeOK
  <1> SUFFICES ASSUME Init PROVE TypeOK
    OBVIOUS
  <1>0. 0 \in 0..MaxFails /\ 0 \in Versions /\ 0 \in 0..Ranges /\ 0 \in 0..MaxKills
    BY DEF Versions
  <1>1. /\ failCount \in [Operators -> 0..MaxFails] /\ uri \in [Operators -> Versions]
        /\ kills \in 0..MaxKills
    BY <1>0 DEF Init
  <1>2. latest \in [Operators -> [status : Statuses, name : Versions]]
    BY <1>0 DEF Init, NoRow, Statuses
  <1> QED  BY <1>0, <1>1, <1>2 DEF Init, TypeOK, Stages, Statuses

LEMMA TypeStep == TypeOK /\ [Next]_vars => TypeOK'
  <1> SUFFICES ASSUME TypeOK, [Next]_vars PROVE TypeOK'
    OBVIOUS
  <1>0. 0 \in 0..MaxFails /\ 0 \in Versions /\ 0 \in 0..Ranges /\ "" \in Statuses
    BY DEF Versions, Statuses
  <1>1. ASSUME NEW o \in Operators, Publish(o)
        PROVE  TypeOK'
    <2>1. uri' \in [Operators -> Versions]
      BY <1>1 DEF Publish, TypeOK, Versions
    <2> QED  BY <1>1, <2>1 DEF Publish, workerVars, TypeOK
  <1>2. ASSUME NEW o \in Operators, NEW success \in BOOLEAN, ReportResult(o, success)
        PROVE  TypeOK'
    <2>1. failCount' \in [Operators -> 0..MaxFails]
      BY <1>2 DEF ReportResult, TypeOK
    <2>2. changed' \subseteq Operators
      BY <1>2 DEF ReportResult, TypeOK
    <2> QED  BY <1>2, <2>1, <2>2 DEF ReportResult, workerVars, TypeOK
  <1>3. CASE Crash
    <2>1. failCount' \in [Operators -> 0..MaxFails]
      BY <1>0, <1>3 DEF Crash
    <2>2. kills' \in 0..MaxKills
      <3>1. kills \in 0..MaxKills /\ kills < MaxKills /\ kills' = kills + 1
        BY <1>3 DEF Crash, TypeOK
      <3> QED  BY <3>1
    <2> QED  BY <1>0, <1>3, <2>1, <2>2 DEF Crash, TypeOK, Stages
  <1>4. ASSUME NEW S \in SUBSET Operators, Snapshot(S)
        PROVE  TypeOK'
    BY <1>4 DEF Snapshot, TypeOK, Stages
  <1>5. ASSUME NEW o \in Operators, NextOperator(o)
        PROVE  TypeOK'
    <2>1. StatusOf(o) \in Statuses
      BY DEF StatusOf, Statuses
    <2> QED  BY <1>5, <2>1 DEF NextOperator, TypeOK, Stages
  <1>6. ASSUME NEW answered \in BOOLEAN, ResolveOperatorAddress(answered)
        PROVE  TypeOK'
    <2>1. op \in Operators
      BY <1>6 DEF ResolveOperatorAddress, TypeOK
    <2> QED  BY <1>6, <2>1 DEF ResolveOperatorAddress, TypeOK, Stages
  <1>7. ASSUME NEW v \in Versions, FilterLogs(v)
        PROVE  TypeOK'
    BY <1>7 DEF FilterLogs, TypeOK, Stages
  <1>8. CASE NarrowRange
    <2>1. tried' \in 0..Ranges
      BY <1>8 DEF NarrowRange, TypeOK
    <2> QED  BY <1>8, <2>1 DEF NarrowRange, TypeOK, Stages
  <1>9. ASSUME NEW answered \in BOOLEAN, FetchMetadataJSON(answered)
        PROVE  TypeOK'
    BY <1>0, <1>9 DEF FetchMetadataJSON, TypeOK, Stages
  <1>10. CASE UpsertOperatorStatus
    <2>1. latest' \in [Operators -> [status : Statuses, name : Versions]]
      BY <1>10 DEF UpsertOperatorStatus, TypeOK
    <2> QED  BY <1>0, <1>10, <2>1 DEF UpsertOperatorStatus, EndOperator, TypeOK, Stages
  <1>11. CASE UpsertFails
    <2>1. op \in Operators
      BY <1>11 DEF UpsertFails, TypeOK
    <2> QED  BY <1>0, <1>11, <2>1 DEF UpsertFails, EndOperator, TypeOK, Stages
  <1>12. CASE UNCHANGED vars
    BY <1>12 DEF vars, workerVars, TypeOK
  <1> QED  BY <1>1, <1>2, <1>3, <1>4, <1>5, <1>6, <1>7, <1>8, <1>9, <1>10, <1>11, <1>12 DEF Next

(* Every reachable state has its type.                                       *)
THEOREM TypeCorrect == Spec => []TypeOK
  BY TypeInit, TypeStep, PTL DEF Spec
-----------------------------------------------------------------------------
LEMMA StatusInit == Init => StatusInv
  <1> SUFFICES ASSUME Init PROVE StatusInv
    OBVIOUS
  <1> QED  BY TypeInit DEF Init, NoRow, StatusInv, VerdictInHand, NameInHand, Nameless

(* A step keeps the verdicts: a counter that crosses the threshold marks its  *)
(* operator, and only a row of that operator unmarks it.                     *)
LEMMA VerdictStep == TypeOK /\ VerdictInHand /\ [Next]_vars => VerdictInHand'
  <1> SUFFICES ASSUME TypeOK, VerdictInHand, [Next]_vars PROVE VerdictInHand'
    OBVIOUS
  <1> USE DEF StatusOf, IsBlacklisted
  <1>1. ASSUME NEW o \in Operators, Publish(o)
        PROVE  VerdictInHand'
    BY <1>1 DEF Publish, workerVars, VerdictInHand
  <1>2. ASSUME NEW o \in Operators, NEW success \in BOOLEAN, ReportResult(o, success)
        PROVE  VerdictInHand'
    <2>1. \A p \in Operators : p # o => failCount'[p] = failCount[p]
      BY <1>2 DEF ReportResult, TypeOK
    <2>2. changed \subseteq changed'
      BY <1>2 DEF ReportResult
    <2>3. o \notin changed' => StatusOf(o)' = StatusOf(o)
      BY <1>2 DEF ReportResult
    <2>4. \A p \in Operators \ changed' : p \notin changed /\ StatusOf(p)' = StatusOf(p)
      BY <2>1, <2>2, <2>3
    <2>5. op' = op /\ status' = status /\ latest' = latest /\ (op # NoOperator => op \in Operators)
      BY <1>2 DEF ReportResult, workerVars, TypeOK
    <2> HIDE DEF StatusOf, IsBlacklisted
    <2> QED  BY <2>4, <2>5 DEF VerdictInHand
  <1>3. CASE Crash
    BY <1>3 DEF Crash, VerdictInHand
  <1>4. ASSUME NEW S \in SUBSET Operators, Snapshot(S)
        PROVE  VerdictInHand'
    BY <1>4 DEF Snapshot, VerdictInHand
  <1>5. ASSUME NEW o \in Operators, NextOperator(o)
        PROVE  VerdictInHand'
    BY <1>5 DEF NextOperator, TypeOK, VerdictInHand
  <1>6. ASSUME NEW answered \in BOOLEAN, ResolveOperatorAddress(answered)
        PROVE  VerdictInHand'
    BY <1>6 DEF ResolveOperatorAddress, VerdictInHand
  <1>7. ASSUME NEW v \in Versions, FilterLogs(v)
        PROVE  VerdictInHand'
    BY <1>7 DEF FilterLogs, VerdictInHand
  <1>8. CASE NarrowRange
    BY <1>8 DEF NarrowRange, VerdictInHand
  <1>9. ASSUME NEW answered \in BOOLEAN, FetchMetadataJSON(answered)
        PROVE  VerdictInHand'
    BY <1>9 DEF FetchMetadataJSON, VerdictInHand
  <1>10. CASE UpsertOperatorStatus
    <2>1. op \in Operators
      BY <1>10 DEF UpsertOperatorStatus, TypeOK
    <2>2. /\ latest'[op].status = status
          /\ \A o \in Operators : o # op => latest'[o] = latest[o]
      BY <1>10, <2>1 DEF UpsertOperatorStatus, TypeOK
    <2> QED  BY <1>10, <2>1, <2>2 DEF UpsertOperatorStatus, EndOperator, VerdictInHand
  <1>11. CASE UpsertFails
    BY <1>11 DEF UpsertFails, EndOperator, VerdictInHand
  <1>12. CASE UNCHANGED vars
    BY <1>12 DEF vars, workerVars, VerdictInHand
  <1> QED  BY <1>1, <1>2, <1>3, <1>4, <1>5, <1>6, <1>7, <1>8, <1>9, <1>10, <1>11, <1>12 DEF Next

(* A step keeps the names: whoever publishes is marked, the look at the       *)
(* chain unmarks, and what it saw is in hand until the row is written.       *)
LEMMA NameStep ==
    TypeOK /\ NameInHand /\ Nameless /\ [Next]_vars => NameInHand' /\ Nameless'
  <1> SUFFICES ASSUME TypeOK, NameInHand, Nameless, [Next]_vars
               PROVE  NameInHand' /\ Nameless'
    OBVIOUS
  <1>0. NoOperator \notin Operators
    OBVIOUS
  <1>1. ASSUME NEW o \in Operators, Publish(o)
        PROVE  NameInHand' /\ Nameless'
    <2>1. /\ o \in updated' /\ updated' = updated \cup {o} /\ o \in Named
          /\ \A p \in Operators : p # o => uri'[p] = uri[p]
          /\ UNCHANGED <<latest, stage, op, seen, name>>
          /\ op # NoOperator => op \in Operators
      BY <1>1 DEF Publish, workerVars, TypeOK
    <2>2. stage \in {"logs", "document", "insert"} => op \in Operators
      BY DEF TypeOK
    <2> QED  BY <2>1, <2>2 DEF NameInHand, Nameless
  <1>2. ASSUME NEW o \in Operators, NEW success \in BOOLEAN, ReportResult(o, success)
        PROVE  NameInHand' /\ Nameless'
    BY <1>2 DEF ReportResult, workerVars, NameInHand, Nameless
  <1>3. CASE Crash
    <2>1. \A o \in Operators \ updated' : latest[o].name \in {0, uri[o]}
      <3> SUFFICES ASSUME NEW o \in Operators \ updated' PROVE latest[o].name \in {0, uri[o]}
        OBVIOUS
      <3>1. CASE o # op
        BY <1>3, <3>1 DEF Crash, NameInHand
      <3>2. CASE o = op
        BY <1>3, <3>2 DEF Crash, Nameless
      <3> QED  BY <3>1, <3>2
    <2> QED  BY <1>0, <1>3, <2>1 DEF Crash, NameInHand, Nameless
  <1>4. ASSUME NEW S \in SUBSET Operators, Snapshot(S)
        PROVE  NameInHand' /\ Nameless'
    BY <1>4 DEF Snapshot, NameInHand, Nameless
  <1>5. ASSUME NEW o \in Operators, NextOperator(o)
        PROVE  NameInHand' /\ Nameless'
    <2>1. seen = 0 /\ name = 0 /\ op = NoOperator
      BY <1>5 DEF NextOperator, TypeOK, NameInHand
    <2> QED  BY <1>0, <1>5, <2>1 DEF NextOperator, NameInHand, Nameless
  <1>6. ASSUME NEW answered \in BOOLEAN, ResolveOperatorAddress(answered)
        PROVE  NameInHand' /\ Nameless'
    <2>1. op \in Operators /\ stage = "address" /\ name = 0
      BY <1>6 DEF ResolveOperatorAddress, TypeOK, NameInHand
    <2>2. /\ UNCHANGED <<uri, latest, op, name>>
          /\ stage' \in {"logs", "insert"} /\ (stage' = "logs" => seen' = uri[op])
          /\ seen' \in {seen, uri[op]}
          /\ \A o \in Operators : o # op => (o \in updated' <=> o \in updated)
      BY <1>6 DEF ResolveOperatorAddress
    <2>3. NameInHand'
      BY <2>1, <2>2 DEF NameInHand
    <2>4. Nameless'
      BY <2>1, <2>2 DEF Nameless
    <2> QED  BY <2>3, <2>4
  <1>7. ASSUME NEW v \in Versions, FilterLogs(v)
        PROVE  NameInHand' /\ Nameless'
    <2>1. /\ stage = "logs" /\ stage' = "document" /\ name' = seen /\ seen # 0
          /\ UNCHANGED <<uri, latest, op, seen, updated>>
      BY <1>7 DEF FilterLogs, Unpack
    <2> QED  BY <2>1 DEF NameInHand, Nameless
  <1>8. CASE NarrowRange
    <2>1. /\ stage = "logs" /\ stage' \in {"logs", "insert"} /\ name = 0
          /\ UNCHANGED <<uri, latest, op, seen, name, updated>>
      BY <1>8 DEF NarrowRange, NameInHand
    <2> QED  BY <2>1 DEF NameInHand, Nameless
  <1>9. ASSUME NEW answered \in BOOLEAN, FetchMetadataJSON(answered)
        PROVE  NameInHand' /\ Nameless'
    <2>1. /\ stage = "document" /\ stage' = "insert" /\ name' \in {0, name}
          /\ UNCHANGED <<uri, latest, op, seen, updated>>
      BY <1>9 DEF FetchMetadataJSON
    <2> QED  BY <2>1 DEF NameInHand, Nameless
  <1>10. CASE UpsertOperatorStatus
    <2>1. op \in Operators /\ stage = "insert"
      BY <1>10 DEF UpsertOperatorStatus, TypeOK
    <2>2. /\ latest'[op].name = name
          /\ \A o \in Operators : o # op => latest'[o] = latest[o]
      BY <1>10, <2>1 DEF UpsertOperatorStatus, TypeOK
    <2>3. /\ op' = NoOperator /\ seen' = 0 /\ name' = 0 /\ stage' \in {"idle", "next"}
          /\ UNCHANGED <<uri, updated>>
      BY <1>10 DEF UpsertOperatorStatus, EndOperator
    <2>4. NameInHand'
      BY <2>1, <2>2, <2>3 DEF NameInHand
    <2>5. Nameless'
      BY <2>1, <2>2, <2>3, <1>0 DEF Nameless
    <2> QED  BY <2>4, <2>5
  <1>11. CASE UpsertFails
    <2>1. stage = "insert" /\ op' = NoOperator /\ seen' = 0 /\ name' = 0
          /\ stage' \in {"idle", "next"} /\ updated' = updated \cup (Named \cap {op})
          /\ UNCHANGED <<uri, latest>>
      BY <1>11 DEF UpsertFails, EndOperator
    <2>2. \A o \in Operators \ updated' : latest[o].name \in {0, uri[o]}
      <3> SUFFICES ASSUME NEW o \in Operators \ updated' PROVE latest[o].name \in {0, uri[o]}
        OBVIOUS
      <3>1. CASE o # op
        BY <2>1, <3>1 DEF NameInHand
      <3>2. CASE o = op
        BY <2>1, <3>2 DEF Nameless
      <3> QED  BY <3>1, <3>2
    <2> QED  BY <1>0, <2>1, <2>2 DEF NameInHand, Nameless
  <1>12. CASE UNCHANGED vars
    BY <1>12 DEF vars, workerVars, NameInHand, Nameless
  <1> QED  BY <1>1, <1>2, <1>3, <1>4, <1>5, <1>6, <1>7, <1>8, <1>9, <1>10, <1>11, <1>12 DEF Next

(* The conjunction that makes the two properties inductive.                  *)
THEOREM StatusInvariant == Spec => []StatusInv
  <1>1. StatusInv /\ [Next]_vars => StatusInv'
    BY TypeStep, VerdictStep, NameStep DEF StatusInv
  <1> QED  BY <1>1, StatusInit, PTL DEF Spec

(* The latest row of an operator agrees with its failure counter, but for the *)
(* operators whose verdict has changed, or whose row is owed.                *)
THEOREM RowsAreCurrent == Spec => []StatusIsCurrent
  <1>1. StatusInv => StatusIsCurrent
    <2> SUFFICES ASSUME StatusInv, NEW o \in Operators \ changed, o # op
                 PROVE  o \in HandleOperatorStatus(StatusOf(o))
      BY DEF StatusIsCurrent
    <2>1. latest[o].status = StatusOf(o)
      BY DEF StatusInv, VerdictInHand
    <2>2. StatusOf(o) # "" /\ NoRow.status = ""
      BY DEF StatusOf, NoRow
    <2> QED  BY <2>1, <2>2 DEF HandleOperatorStatus
  <1> QED  BY <1>1, StatusInvariant, PTL

(* A row never carries the name of another operator's or of an older document *)
(* once the chain has been looked at and the row written.                    *)
THEOREM NamesAreLatest == Spec => []NameIsLatest
  <1>1. StatusInv => NameIsLatest
    BY DEF StatusInv, NameInHand, NameIsLatest
  <1> QED  BY <1>1, StatusInvariant, PTL
-----------------------------------------------------------------------------
(* A round of the worker, from a snapshot to the end of its loop.  The loop   *)
(* has an operator in hand or one to come to, and a range left to try.       *)
RoundInv ==
    /\ TypeOK
    /\ stage = "idle" => todo = {}
    /\ stage = "next" => todo # {}
    /\ stage \in {"idle", "next", "address"} => tried = 0
    /\ stage = "logs" => tried < Ranges

LEMMA RoundInit == Init => RoundInv
  BY TypeInit DEF Init, RoundInv

LEMMA RoundStep == RoundInv /\ [Next]_vars => RoundInv'
  <1> SUFFICES ASSUME RoundInv, [Next]_vars PROVE RoundInv'
    OBVIOUS
  <1>t. TypeOK /\ TypeOK'
    BY TypeStep DEF RoundInv
  <1>1. CASE Crash
    BY <1>t, <1>1 DEF Crash, RoundInv
  <1>2. ASSUME NEW S \in SUBSET Operators, Snapshot(S)
        PROVE  RoundInv'
    BY <1>t, <1>2 DEF Snapshot, RoundInv
  <1>3. ASSUME NEW o \in Operators, NextOperator(o)
        PROVE  RoundInv'
    BY <1>t, <1>3 DEF NextOperator, RoundInv
  <1>4. ASSUME NEW answered \in BOOLEAN, ResolveOperatorAddress(answered)
        PROVE  RoundInv'
    BY <1>t, <1>4 DEF ResolveOperatorAddress, RoundInv
  <1>5. ASSUME NEW v \in Versions, FilterLogs(v)
        PROVE  RoundInv'
    BY <1>t, <1>5 DEF FilterLogs, RoundInv
  <1>6. CASE NarrowRange
    <2>1. tried \in 0..Ranges
      BY <1>t DEF TypeOK
    <2> QED  BY <1>t, <1>6, <2>1 DEF NarrowRange, RoundInv
  <1>7. ASSUME NEW answered \in BOOLEAN, FetchMetadataJSON(answered)
        PROVE  RoundInv'
    BY <1>t, <1>7 DEF FetchMetadataJSON, RoundInv
  <1>8. CASE UpsertOperatorStatus \/ UpsertFails
    BY <1>t, <1>8 DEF UpsertOperatorStatus, UpsertFails, EndOperator, RoundInv
  <1>9. ASSUME todo' = todo, stage' = stage, tried' = tried
        PROVE  RoundInv'
    BY <1>t, <1>9 DEF RoundInv
  <1>10. \/ todo' = todo /\ stage' = stage /\ tried' = tried
         \/ Crash \/ \E S \in SUBSET Operators : Snapshot(S)
         \/ (\E o \in Operators : NextOperator(o)) \/ LookUpName
         \/ UpsertOperatorStatus \/ UpsertFails
    BY DEF Next, Publish, ReportResult, LookUpName, workerVars, vars
  <1> QED  BY <1>1, <1>2, <1>3, <1>4, <1>5, <1>6, <1>7, <1>8, <1>9, <1>10 DEF LookUpName

(* The steps a round has left: for an operator it has yet to come to, the      *)
(* step to it, the address, a try for each range and two more, for the         *)
(* document and the row.                                                     *)
OperatorSteps == Ranges + 4
StepsAtOperator ==
    CASE stage = "address"  -> Ranges + 3
      [] stage = "logs"     -> Ranges - tried + 2
      [] stage = "document" -> 2
      [] stage = "insert"   -> 1
      [] OTHER              -> 0
StepsLeft == Cardinality(todo) * OperatorSteps + StepsAtOperator

\* A step of the worker within a round.
Works ==
    \/ \E o \in Operators : NextOperator(o)
    \/ LookUpName \/ UpsertOperatorStatus \/ UpsertFails

LEMMA OneLess ==
    ASSUME NEW n \in Nat, NEW k \in Nat, n # 0
    PROVE  (n - 1) * k = n * k - k /\ n * k \in Nat /\ (n - 1) * k \in Nat
  OBVIOUS

LEMMA ProductMonotone ==
    ASSUME NEW m \in Nat, NEW n \in Nat, NEW k \in Nat, m <= n
    PROVE  m * k <= n * k /\ m * k \in Nat /\ n * k \in Nat
  OBVIOUS

LEMMA StepsAreNumbers ==
    RoundInv => /\ IsFiniteSet(todo) /\ Cardinality(todo) \in Nat
                /\ OperatorSteps \in Nat
                /\ StepsAtOperator \in 0..(OperatorSteps - 1)
                /\ Cardinality(todo) * OperatorSteps \in Nat
                /\ StepsLeft \in Nat
  <1> SUFFICES ASSUME RoundInv
               PROVE  /\ IsFiniteSet(todo) /\ Cardinality(todo) \in Nat
                      /\ OperatorSteps \in Nat
                      /\ StepsAtOperator \in 0..(OperatorSteps - 1)
                      /\ Cardinality(todo) * OperatorSteps \in Nat
                      /\ StepsLeft \in Nat
    OBVIOUS
  <1>1. IsFiniteSet(todo) /\ Cardinality(todo) \in Nat
    BY FS_Subset, FS_CardinalityType DEF RoundInv, TypeOK
  <1>2. OperatorSteps \in Nat /\ StepsAtOperator \in 0..(OperatorSteps - 1)
    BY DEF RoundInv, TypeOK, Stages, OperatorSteps, StepsAtOperator
  <1>3. Cardinality(todo) * OperatorSteps \in Nat
    BY <1>1, <1>2, ProductMonotone
  <1> QED  BY <1>1, <1>2, <1>3 DEF StepsLeft

\* A step at one operator has less left of it, and leaves the others to come.
LEMMA OperatorAdvances ==
    ASSUME RoundInv, RoundInv', LookUpName \/ UpsertOperatorStatus \/ UpsertFails
    PROVE  todo' = todo /\ StepsAtOperator' < StepsAtOperator
  <1>t. /\ tried \in 0..Ranges
        /\ stage \in {"idle", "next", "address"} => tried = 0
        /\ stage = "logs" => tried < Ranges
    BY DEF RoundInv, TypeOK
  <1>1. ASSUME NEW answered \in BOOLEAN, ResolveOperatorAddress(answered)
        PROVE  todo' = todo /\ StepsAtOperator' < StepsAtOperator
    <2>1. stage = "address" /\ stage' \in {"logs", "insert"} /\ tried' = tried /\ todo' = todo
      BY <1>1 DEF ResolveOperatorAddress
    <2> QED  BY <1>t, <2>1 DEF StepsAtOperator
  <1>2. ASSUME NEW v \in Versions, FilterLogs(v)
        PROVE  todo' = todo /\ StepsAtOperator' < StepsAtOperator
    <2>1. stage = "logs" /\ stage' = "document" /\ todo' = todo
      BY <1>2 DEF FilterLogs
    <2> QED  BY <1>t, <2>1 DEF StepsAtOperator
  <1>3. CASE NarrowRange
    <2>1. stage = "logs" /\ stage' \in {"logs", "insert"} /\ tried' = tried + 1 /\ todo' = todo
      BY <1>3 DEF NarrowRange
    <2> QED  BY <1>t, <2>1 DEF StepsAtOperator
  <1>4. ASSUME NEW answered \in BOOLEAN, FetchMetadataJSON(answered)
        PROVE  todo' = todo /\ StepsAtOperator' < StepsAtOperator
    <2>1. stage = "document" /\ stage' = "insert" /\ todo' = todo
      BY <1>4 DEF FetchMetadataJSON
    <2> QED  BY <2>1 DEF StepsAtOperator
  <1>5. CASE UpsertOperatorStatus \/ UpsertFails
    <2>1. stage = "insert" /\ stage' \in {"idle", "next"} /\ todo' = todo
      BY <1>5 DEF UpsertOperatorStatus, UpsertFails, EndOperator
    <2> QED  BY <2>1 DEF StepsAtOperator
  <1> QED  BY <1>1, <1>2, <1>3, <1>4, <1>5 DEF LookUpName

(* Every step of the worker leaves its round with strictly less to do, nobody  *)
(* else's step with more, and a round starts only when none is left: whatever  *)
(* the chain answers, a failure never restarts or lengthens a round.         *)
RoundOnlyShrinks ==
    /\ Works => StepsLeft' < StepsLeft
    /\ (\E S \in SUBSET Operators : Snapshot(S)) => StepsLeft = 0
    /\ Crash => StepsLeft' = 0
    /\ StepsLeft' <= StepsLeft \/ \E S \in SUBSET Operators : Snapshot(S)

LEMMA IdleIsOver == RoundInv /\ stage = "idle" => StepsLeft = 0
  <1> SUFFICES ASSUME RoundInv, stage = "idle" PROVE StepsLeft = 0
    OBVIOUS
  <1>1. Cardinality(todo) = 0
    BY FS_EmptySet DEF RoundInv
  <1>2. 0 * OperatorSteps = 0
    BY DEF OperatorSteps
  <1> QED  BY <1>1, <1>2 DEF StepsLeft, StepsAtOperator

LEMMA RoundAdvances ==
    ASSUME RoundInv, RoundInv', Works
    PROVE  StepsLeft' < StepsLeft
  <1>n. /\ Cardinality(todo) \in Nat /\ OperatorSteps \in Nat
        /\ StepsAtOperator \in 0..(OperatorSteps - 1)
        /\ Cardinality(todo) * OperatorSteps \in Nat
    BY StepsAreNumbers
  <1>m. StepsAtOperator' \in 0..(OperatorSteps - 1)
    BY DEF RoundInv, TypeOK, Stages, OperatorSteps, StepsAtOperator
  <1>1. ASSUME NEW o \in Operators, NextOperator(o)
        PROVE  StepsLeft' < StepsLeft
    <2>1. /\ stage = "next" /\ stage' = "address" /\ o \in todo /\ todo' = todo \ {o}
      BY <1>1 DEF NextOperator
    <2>2. StepsAtOperator = 0 /\ StepsAtOperator' = OperatorSteps - 1
      BY <2>1 DEF StepsAtOperator, OperatorSteps
    <2>3. Cardinality(todo') = Cardinality(todo) - 1 /\ Cardinality(todo) # 0
      BY <2>1, StepsAreNumbers, FS_RemoveElement, FS_EmptySet
    <2>4. (Cardinality(todo) - 1) * OperatorSteps
             = Cardinality(todo) * OperatorSteps - OperatorSteps
      BY <1>n, <2>3, OneLess
    <2>5. StepsLeft = Cardinality(todo) * OperatorSteps
      BY <1>n, <2>2 DEF StepsLeft
    <2>6. StepsLeft' = (Cardinality(todo) - 1) * OperatorSteps + (OperatorSteps - 1)
      BY <2>2, <2>3 DEF StepsLeft, OperatorSteps
    <2> HIDE DEF StepsLeft
    <2> QED  BY <1>n, <2>4, <2>5, <2>6
  <1>2. CASE LookUpName \/ UpsertOperatorStatus \/ UpsertFails
    <2>1. todo' = todo /\ StepsAtOperator' < StepsAtOperator
      BY <1>2, OperatorAdvances
    <2>2. StepsLeft' = Cardinality(todo) * OperatorSteps + StepsAtOperator'
      BY <2>1 DEF StepsLeft, OperatorSteps
    <2> QED  BY <1>n, <1>m, <2>1, <2>2 DEF StepsLeft
  <1> QED  BY <1>1, <1>2 DEF Works

(* Every step of a round of the status worker, calls and upserts that fail      *)
(* included, leaves it with fewer steps, and nothing else gives it more.       *)
THEOREM RoundsAdvance == Spec => [][RoundOnlyShrinks]_vars
  <1>1. ASSUME RoundInv, RoundInv', [Next]_vars
        PROVE  RoundOnlyShrinks
    <2>1. Works => StepsLeft' < StepsLeft
      BY <1>1, RoundAdvances
    <2>2. (\E S \in SUBSET Operators : Snapshot(S)) => StepsLeft = 0
      BY <1>1, IdleIsOver DEF Snapshot
    <2>3. Crash => StepsLeft' = 0
      <3>1. RoundInv' /\ (stage = "idle")' => (StepsLeft = 0)'
        BY IdleIsOver, PTL
      <3> QED  BY <1>1, <3>1 DEF Crash
    <2>4. todo' = todo /\ stage' = stage /\ tried' = tried => StepsLeft' = StepsLeft
      BY DEF StepsLeft, StepsAtOperator, OperatorSteps
    <2>5. StepsLeft \in Nat /\ StepsLeft' \in Nat
      <3>1. RoundInv' => (StepsLeft \in Nat)'
        BY StepsAreNumbers, PTL
      <3> QED  BY <1>1, <3>1, StepsAreNumbers
    <2>6. \/ Works \/ Crash \/ \E S \in SUBSET Operators : Snapshot(S)
          \/ todo' = todo /\ stage' = stage /\ tried' = tried
      BY <1>1 DEF Next, Publish, ReportResult, Works, LookUpName, workerVars, vars
    <2> QED  BY <2>1, <2>2, <2>3, <2>4, <2>5, <2>6 DEF RoundOnlyShrinks
  <1> QED  BY <1>1, RoundInit, RoundStep, PTL DEF Spec

(* A round has at most Ranges + 4 steps for each operator, and none left       *)
(* exactly when the loop is over.                                            *)
RoundBounded ==
    /\ StepsLeft <= Cardinality(Operators) * OperatorSteps
    /\ StepsLeft = 0 <=> stage = "idle"

(* A round is no longer than its operators and the ranges of blocks allow.      *)
THEOREM RoundsAreBounded == Spec => []RoundBounded
  <1>1. RoundInv => RoundBounded
    <2> SUFFICES ASSUME RoundInv PROVE RoundBounded
      OBVIOUS
    <2> DEFINE all == Cardinality(Operators)
               some == Cardinality(todo)
    <2>n. /\ all \in Nat /\ some \in Nat /\ OperatorSteps \in Nat
          /\ StepsAtOperator \in 0..(OperatorSteps - 1)
          /\ some * OperatorSteps \in Nat
          /\ StepsLeft = some * OperatorSteps + StepsAtOperator
      BY StepsAreNumbers, FS_CardinalityType DEF StepsLeft
    <2> HIDE DEF all, some
    <2>1. CASE op = NoOperator
      <3>1. stage \in {"idle", "next"} /\ StepsAtOperator = 0
        BY <2>1 DEF RoundInv, TypeOK, StepsAtOperator
      <3>2. some <= all
        BY FS_Subset DEF RoundInv, TypeOK, some, all
      <3>3. some * OperatorSteps <= all * OperatorSteps /\ all * OperatorSteps \in Nat
        BY <2>n, <3>2, ProductMonotone
      <3>4. stage = "next" => StepsLeft # 0
        <4> SUFFICES ASSUME stage = "next" PROVE StepsLeft # 0
          OBVIOUS
        <4>1. some # 0
          BY StepsAreNumbers, FS_EmptySet DEF RoundInv, some
        <4>2. (some - 1) * OperatorSteps \in Nat
              /\ (some - 1) * OperatorSteps = some * OperatorSteps - OperatorSteps
          BY <2>n, <4>1, OneLess
        <4>3. OperatorSteps >= 4
          BY DEF OperatorSteps
        <4> QED  BY <2>n, <4>2, <4>3
      <3> QED  BY <2>n, <3>1, <3>3, <3>4, IdleIsOver DEF RoundBounded, all
    <2>2. CASE op # NoOperator
      <3>1. /\ op \in Operators /\ op \notin todo /\ todo \subseteq Operators
            /\ stage \in {"address", "logs", "document", "insert"}
        BY <2>2 DEF RoundInv, TypeOK, Stages
      <3>2. StepsAtOperator > 0
        BY <3>1 DEF RoundInv, TypeOK, StepsAtOperator
      <3>3. Cardinality(Operators \ {op}) = all - 1 /\ IsFiniteSet(Operators \ {op})
        BY <3>1, FS_RemoveElement DEF all
      <3>4. some <= all - 1
        BY <3>1, <3>3, FS_Subset DEF some
      <3>5. all # 0 /\ all - 1 \in Nat
        BY <2>n, <3>4
      <3>6. some * OperatorSteps <= (all - 1) * OperatorSteps
            /\ (all - 1) * OperatorSteps = all * OperatorSteps - OperatorSteps
            /\ (all - 1) * OperatorSteps \in Nat /\ all * OperatorSteps \in Nat
        BY <2>n, <3>4, <3>5, ProductMonotone, OneLess
      <3>7. StepsLeft <= all * OperatorSteps /\ StepsLeft # 0
        BY <2>n, <3>2, <3>6
      <3> QED  BY <3>1, <3>7 DEF RoundBounded, all
    <2> QED  BY <2>1, <2>2
  <1> QED  BY <1>1, RoundInit, RoundStep, PTL DEF Spec
=============================================================================
