-------------------------- MODULE RelayProbingProofs --------------------------
(***************************************************************************)
(* Proofs about the queue of the RelayVerifier: no blob and relay is probed   *)
(* twice, and a blob that leaves the queue without an error was probed as a  *)
(* whole; for any number of blobs and relays, any size of a selection and of *)
(* the semaphore.                                                            *)
(***************************************************************************)
EXTENDS RelayProbing, FiniteSetTheorems, NaturalsInduction, WellFoundedInduction, TLAPS

USE RelayAssumption

(* A row more about b and k, and no other count changes.                      *)
LEMMA InsertCounts ==
    ASSUME NEW b \in Blobs, NEW k \in Relays,
           firstRows \in [Blobs -> [Relays -> Nat]], InsertProbeResult(b, k)
    PROVE  /\ firstRows' \in [Blobs -> [Relays -> Nat]]
           /\ firstRows'[b][k] = firstRows[b][k] + 1
           /\ \A c \in Blobs, j \in Relays :
                 (c # b \/ j # k) => firstRows'[c][j] = firstRows[c][j]
  <1> DEFINE row == [firstRows[b] EXCEPT ![k] = @ + 1]
  <1>1. firstRows' = [firstRows EXCEPT ![b] = row]
    BY DEF InsertProbeResult
  <1>2. row \in [Relays -> Nat]
    OBVIOUS
  <1>3. row[k] = firstRows[b][k] + 1 /\ \A j \in Relays : j # k => row[j] = firstRows[b][j]
    OBVIOUS
  <1> HIDE DEF row
  <1>4. firstRows' \in [Blobs -> [Relays -> Nat]]
    BY <1>1, <1>2
  <1>5. firstRows'[b] = row /\ \A c \in Blobs : c # b => firstRows'[c] = firstRows[c]
    BY <1>1
  <1> QED  BY <1>3, <1>4, <1>5

(* TypeOK is inductive: the reverifier has one blob in hand at a time.        *)
LEMMA TypeInit == Init => TypeOK
  <1> SUFFICES ASSUME Init PROVE TypeOK
    OBVIOUS
  <1>1. Cardinality(reverified) = 0
    BY FS_EmptySet DEF Init
  <1> QED  BY <1>1 DEF Init, TypeOK, Stages, Relays

LEMMA TypeStep == TypeOK /\ [Next]_vars => TypeOK'
  <1> SUFFICES ASSUME TypeOK, [Next]_vars PROVE TypeOK'
    OBVIOUS
  <1>1. ASSUME NEW b \in Blobs, Observe(b)
        PROVE  TypeOK'
    BY <1>1 DEF Observe, TypeOK
  <1>2. ASSUME NEW b \in Blobs, NEW K \in SUBSET RelayKeys, Certify(b, K)
        PROVE  TypeOK'
    BY <1>2 DEF Certify, TypeOK
  <1>3. CASE Select
    BY <1>3 DEF Select, TypeOK, Stages
  <1>4. ASSUME NEW b \in Blobs, Acquire(b)
        PROVE  TypeOK'
    BY <1>4 DEF Acquire, TypeOK, Stages
  <1>5. ASSUME NEW b \in Blobs, FetchCertificate(b)
        PROVE  TypeOK'
    BY <1>5 DEF FetchCertificate, TypeOK, Stages
  <1>6. ASSUME NEW b \in Blobs, CertificateFails(b)
        PROVE  TypeOK'
    <2>1. firstRows' \in [Blobs -> [Relays -> Nat]]
      BY <1>6, InsertCounts DEF CertificateFails, TypeOK, Relays
    <2> QED  BY <1>6, <2>1 DEF CertificateFails, TypeOK, Stages
  <1>7. ASSUME NEW b \in Blobs, NEW k \in RelayKeys, ProbeRelay(b, k)
        PROVE  TypeOK'
    <2>1. firstRows' \in [Blobs -> [Relays -> Nat]]
      BY <1>7, InsertCounts DEF ProbeRelay, TypeOK, Relays
    <2> QED  BY <1>7, <2>1 DEF ProbeRelay, TypeOK, Stages
  <1>8. ASSUME NEW b \in Blobs, NEW k \in RelayKeys, ProbeRelayUnrecorded(b, k)
        PROVE  TypeOK'
    BY <1>8 DEF ProbeRelayUnrecorded, TypeOK, Stages
  <1>9. ASSUME NEW b \in Blobs, NEW recorded \in BOOLEAN, FetchAttestation(b, recorded)
        PROVE  TypeOK'
    BY <1>9 DEF FetchAttestation, InsertAttestation, TypeOK, Stages
  <1>10. ASSUME NEW b \in Blobs, Reprobe(b)
         PROVE  TypeOK'
    <2>1. Cardinality(reverified') = 1
      BY <1>10, FS_Singleton DEF Reprobe
    <2> QED  BY <1>10, <2>1 DEF Reprobe, TypeOK
  <1>11. ASSUME NEW p \in reverified, NEW k \in RelayKeys, NEW written \in BOOLEAN,
                ReprobeRelay(p, k, written)
         PROVE  TypeOK'
    <2>1. Cardinality({}) = 0 /\ Cardinality({[p EXCEPT !.todo = @ \ {k}]}) = 1
      BY FS_EmptySet, FS_Singleton
    <2>2. p \in [blob : observed, todo : SUBSET RelayKeys]
      BY DEF TypeOK
    <2>3. [p EXCEPT !.todo = @ \ {k}] \in [blob : observed, todo : SUBSET RelayKeys]
      BY <2>2
    <2>4. /\ reverified' \subseteq [blob : observed, todo : SUBSET RelayKeys]
          /\ Cardinality(reverified') <= 1
      BY <1>11, <2>1, <2>3 DEF ReprobeRelay
    <2> QED  BY <1>11, <2>2, <2>4 DEF ReprobeRelay, TypeOK
  <1>12. CASE Crash
    <2>1. Cardinality(reverified') = 0
      BY <1>12, FS_EmptySet DEF Crash
    <2> QED  BY <1>12, <2>1 DEF Crash, TypeOK, Stages
  <1>13. CASE UNCHANGED vars
    BY <1>13 DEF vars, TypeOK
  <1> QED  BY <1>1, <1>2, <1>3, <1>4, <1>5, <1>6, <1>7, <1>8, <1>9, <1>10, <1>11, <1>12, <1>13
           DEF Next

(* Every reachable state has its type.                                       *)
THEOREM TypeCorrect == Spec => []TypeOK
  BY TypeInit, TypeStep, PTL DEF Spec
-----------------------------------------------------------------------------
(* What holds of one blob at every stage of its goroutine: the relays it has  *)
(* yet to ask have no row, and, unless it was cut, every other relay of the    *)
(* certificate has one and its attestation comes last.                       *)
Unseen(b) == \A k \in Relays : firstRows[b][k] = 0
Asked(b, K) == keys[b] # {} /\ \A k \in keys[b] : k \in K \/ firstRows[b][k] > 0

RowsAwaited(b) ==
    /\ stage[b] \in {"waiting", "certificate", "uncertified"} => Unseen(b)
    /\ stage[b] = "relays" => todo[b] \subseteq keys[b] /\ \A k \in todo[b] : firstRows[b][k] = 0
    /\ \A k \in Relays : firstRows[b][k] <= 1

WholeSoFar(b) ==
    /\ stage[b] # "none" \/ Unseen(b) => attested[b] = 0
    /\ stage[b] = "relays" => Asked(b, todo[b])
    /\ stage[b] = "attestation" => Asked(b, {})
    /\ stage[b] = "none" /\ ~Unseen(b) => Asked(b, {}) /\ attested[b] = 1

BlobInv(b) == RowsAwaited(b) /\ (b \notin cut => WholeSoFar(b))

QueueInv == TypeOK /\ \A b \in Blobs : BlobInv(b)

(* A step that leaves a blob alone, but for marking it, keeps its invariant.  *)
LEMMA BlobUntouched ==
    ASSUME NEW b \in Blobs, BlobInv(b),
           keys'[b] = keys[b], stage'[b] = stage[b], todo'[b] = todo[b],
           firstRows'[b] = firstRows[b], attested'[b] = attested[b], cut \subseteq cut'
    PROVE  BlobInv(b)'
  <1> QED  BY DEF BlobInv, RowsAwaited, WholeSoFar, Unseen, Asked

(* QueueInv is inductive.                                                    *)
LEMMA QueueInit == Init => QueueInv
  <1> SUFFICES ASSUME Init PROVE QueueInv
    OBVIOUS
  <1> QED  BY TypeInit DEF Init, QueueInv, BlobInv, RowsAwaited, WholeSoFar, Unseen, Asked

LEMMA QueueStep == QueueInv /\ [Next]_vars => QueueInv'
  <1> SUFFICES ASSUME QueueInv, [Next]_vars PROVE QueueInv'
    OBVIOUS
  <1>t. TypeOK /\ TypeOK'
    BY TypeStep DEF QueueInv
  <1>i. \A c \in Blobs : BlobInv(c)
    BY DEF QueueInv
  <1> SUFFICES ASSUME NEW c \in Blobs PROVE BlobInv(c)'
    BY <1>t DEF QueueInv
  <1>c. BlobInv(c)
    BY <1>i
  <1>1. ASSUME NEW b \in Blobs, Observe(b)
        PROVE  BlobInv(c)'
    BY <1>1, <1>c, BlobUntouched DEF Observe
  <1>2. ASSUME NEW b \in Blobs, NEW K \in SUBSET RelayKeys, Certify(b, K)
        PROVE  BlobInv(c)'
    <2>1. CASE c # b
      BY <1>2, <1>c, <1>t, <2>1, BlobUntouched DEF Certify, TypeOK
    <2>2. CASE c = b
      <3>1. keys[c] = {} /\ ~Asked(c, {}) /\ ~Asked(c, todo[c])
        BY <1>2, <2>2 DEF Certify, Asked
      <3>2. RowsAwaited(c)'
        BY <1>2, <1>c, <3>1 DEF Certify, BlobInv, RowsAwaited, Unseen
      <3>3. c \notin cut => WholeSoFar(c)'
        BY <1>2, <1>c, <3>1 DEF Certify, BlobInv, WholeSoFar, Unseen
      <3> QED  BY <1>2, <3>2, <3>3 DEF Certify, BlobInv
    <2> QED  BY <2>1, <2>2
  <1>3. CASE Select
    <2>1. stage[c] = "none"
      BY <1>3 DEF Select
    <2>2. CASE c \in GetUnprobedBlobs
      <3>1. Unseen(c)
        BY <1>t, <2>2 DEF GetUnprobedBlobs, Probed, Unseen, TypeOK
      <3>2. stage'[c] = "waiting"
        BY <1>3, <2>2 DEF Select
      <3> QED  BY <1>3, <1>c, <2>1, <3>1, <3>2
               DEF Select, BlobInv, RowsAwaited, WholeSoFar, Unseen
    <2>3. CASE c \notin GetUnprobedBlobs
      <3>1. stage'[c] = stage[c]
        BY <1>3, <2>1, <2>3 DEF Select
      <3> QED  BY <1>3, <1>c, <3>1, BlobUntouched DEF Select
    <2> QED  BY <2>2, <2>3
  <1>4. ASSUME NEW b \in Blobs, Acquire(b)
        PROVE  BlobInv(c)'
    <2>1. CASE c # b
      BY <1>4, <1>c, <1>t, <2>1, BlobUntouched DEF Acquire, TypeOK
    <2>2. CASE c = b
      <3>1. stage[c] = "waiting" /\ stage'[c] = "certificate"
        BY <1>4, <1>t, <2>2 DEF Acquire, TypeOK
      <3> QED  BY <1>4, <1>c, <3>1
               DEF Acquire, BlobInv, RowsAwaited, WholeSoFar, Unseen
    <2> QED  BY <2>1, <2>2
  <1>5. ASSUME NEW b \in Blobs, FetchCertificate(b)
        PROVE  BlobInv(c)'
    <2>1. CASE c # b
      BY <1>5, <1>c, <1>t, <2>1, BlobUntouched DEF FetchCertificate, TypeOK
    <2>2. CASE c = b
      <3>1. /\ stage[c] = "certificate"
            /\ stage'[c] = IF keys[c] = {} THEN "uncertified" ELSE "relays"
            /\ todo'[c] = keys[c]
        BY <1>5, <1>t, <2>2 DEF FetchCertificate, TypeOK
      <3>2. keys[c] \subseteq Relays
        BY <1>t DEF TypeOK, Relays
      <3> QED  BY <1>5, <1>c, <3>1, <3>2
               DEF FetchCertificate, BlobInv, RowsAwaited, WholeSoFar, Unseen, Asked
    <2> QED  BY <2>1, <2>2
  <1>6. ASSUME NEW b \in Blobs, CertificateFails(b)
        PROVE  BlobInv(c)'
    <2>1. /\ firstRows'[b][NoRelay] = firstRows[b][NoRelay] + 1
          /\ \A d \in Blobs, j \in Relays :
                (d # b \/ j # NoRelay) => firstRows'[d][j] = firstRows[d][j]
      BY <1>6, <1>t, InsertCounts DEF CertificateFails, TypeOK, Relays
    <2>2. CASE c # b
      BY <1>6, <1>c, <1>t, <2>1, <2>2
         DEF CertificateFails, TypeOK, BlobInv, RowsAwaited, WholeSoFar, Unseen, Asked, Relays
    <2>3. CASE c = b
      <3>1. stage[c] = "certificate" /\ stage'[c] = "attestation" /\ c \in cut'
        BY <1>6, <1>t, <2>3 DEF CertificateFails, TypeOK
      <3>2. Unseen(c)
        BY <1>c, <3>1 DEF BlobInv, RowsAwaited
      <3>3. \A k \in Relays : firstRows'[c][k] <= 1
        BY <2>1, <2>3, <3>2 DEF Unseen, Relays
      <3> QED  BY <3>1, <3>3 DEF BlobInv, RowsAwaited
    <2> QED  BY <2>2, <2>3
  <1>7. ASSUME NEW b \in Blobs, NEW k \in RelayKeys, ProbeRelay(b, k)
        PROVE  BlobInv(c)'
    <2>1. /\ firstRows'[b][k] = firstRows[b][k] + 1
          /\ \A d \in Blobs, j \in Relays :
                (d # b \/ j # k) => firstRows'[d][j] = firstRows[d][j]
      <3>1. k \in Relays /\ InsertProbeResult(b, k) /\ firstRows \in [Blobs -> [Relays -> Nat]]
        BY <1>7, <1>t DEF ProbeRelay, TypeOK, Relays
      <3> QED  BY <3>1, InsertCounts
    <2>2. CASE c # b
      BY <1>7, <1>c, <1>t, <2>1, <2>2
         DEF ProbeRelay, TypeOK, BlobInv, RowsAwaited, WholeSoFar, Unseen, Asked, Relays
    <2>3. CASE c = b
      <3>1. /\ stage[c] = "relays" /\ k \in todo[c]
            /\ stage'[c] = IF todo[c] = {k} THEN "attestation" ELSE "relays"
            /\ todo'[c] = todo[c] \ {k}
            /\ UNCHANGED <<keys, attested, cut>>
        BY <1>7, <1>t, <2>3 DEF ProbeRelay, TypeOK
      <3>2. keys[c] \subseteq Relays
        BY <1>t DEF TypeOK, Relays
      <3>3. todo[c] \subseteq keys[c] /\ \A j \in todo[c] : firstRows[c][j] = 0
        BY <1>c, <3>1 DEF BlobInv, RowsAwaited
      <3>4. \A j \in todo'[c] : firstRows'[c][j] = 0
        BY <2>1, <2>3, <3>1, <3>2, <3>3
      <3>5. firstRows'[c][k] = 1 /\ \A j \in Relays : j # k => firstRows'[c][j] = firstRows[c][j]
        BY <2>1, <2>3, <3>1, <3>3
      <3>6. RowsAwaited(c)'
        BY <1>c, <3>1, <3>3, <3>4, <3>5 DEF BlobInv, RowsAwaited
      <3>7. c \notin cut => WholeSoFar(c)'
        <4> SUFFICES ASSUME c \notin cut PROVE WholeSoFar(c)'
          OBVIOUS
        <4>1. Asked(c, todo[c]) /\ attested[c] = 0
          BY <1>c, <3>1 DEF BlobInv, WholeSoFar
        <4>2. Asked(c, todo[c] \ {k})'
          BY <3>1, <3>2, <3>5, <4>1 DEF Asked
        <4> QED  BY <3>1, <4>1, <4>2 DEF WholeSoFar, Asked
      <3> QED  BY <3>1, <3>6, <3>7 DEF BlobInv
    <2> QED  BY <2>2, <2>3
  <1>8. ASSUME NEW b \in Blobs, NEW k \in RelayKeys, ProbeRelayUnrecorded(b, k)
        PROVE  BlobInv(c)'
    <2>1. CASE c # b
      BY <1>8, <1>c, <1>t, <2>1, BlobUntouched DEF ProbeRelayUnrecorded, TypeOK
    <2>2. CASE c = b
      <3>1. /\ stage[c] = "relays" /\ c \in cut'
            /\ stage'[c] = IF todo[c] = {k} THEN "attestation" ELSE "relays"
            /\ todo'[c] = todo[c] \ {k}
        BY <1>8, <1>t, <2>2 DEF ProbeRelayUnrecorded, TypeOK
      <3> QED  BY <1>8, <1>c, <3>1 DEF ProbeRelayUnrecorded, BlobInv, RowsAwaited
    <2> QED  BY <2>1, <2>2
  <1>9. ASSUME NEW b \in Blobs, NEW recorded \in BOOLEAN, FetchAttestation(b, recorded)
        PROVE  BlobInv(c)'
    <2>1. CASE c # b
      BY <1>9, <1>c, <1>t, <2>1, BlobUntouched
         DEF FetchAttestation, InsertAttestation, TypeOK
    <2>2. CASE c = b
      <3>1. /\ stage[c] \in {"uncertified", "attestation"} /\ stage'[c] = "none"
            /\ c \notin cut' => c \notin cut /\ recorded = (stage[c] = "attestation")
            /\ recorded /\ attested[c] = 0 => attested'[c] = 1
            /\ ~recorded => attested'[c] = attested[c]
            /\ UNCHANGED <<keys, firstRows>>
        BY <1>9, <1>t, <2>2 DEF FetchAttestation, InsertAttestation, TypeOK
      <3>2. RowsAwaited(c)'
        BY <1>c, <3>1 DEF BlobInv, RowsAwaited
      <3>3. ASSUME c \notin cut', stage[c] = "uncertified"
            PROVE  WholeSoFar(c)'
        BY <1>c, <3>1, <3>3 DEF BlobInv, RowsAwaited, WholeSoFar, Unseen
      <3>4. ASSUME c \notin cut', stage[c] = "attestation"
            PROVE  WholeSoFar(c)'
        <4>1. Asked(c, {}) /\ attested[c] = 0 /\ attested'[c] = 1
          BY <1>c, <3>1, <3>4 DEF BlobInv, WholeSoFar
        <4>2. ~Unseen(c)
          BY <1>t, <4>1 DEF Asked, Unseen, TypeOK, Relays
        <4> QED  BY <3>1, <4>1, <4>2 DEF WholeSoFar, Asked, Unseen
      <3> QED  BY <3>1, <3>2, <3>3, <3>4 DEF BlobInv
    <2> QED  BY <2>1, <2>2
  <1>10. ASSUME NEW b \in Blobs, Reprobe(b)
         PROVE  BlobInv(c)'
    BY <1>10, <1>c, BlobUntouched DEF Reprobe
  <1>11. ASSUME NEW p \in reverified, NEW k \in RelayKeys, NEW written \in BOOLEAN,
                ReprobeRelay(p, k, written)
         PROVE  BlobInv(c)'
    BY <1>11, <1>c, BlobUntouched DEF ReprobeRelay
  <1>12. CASE Crash
    <2>1. /\ stage'[c] = "none" /\ (c \notin cut' => c \notin cut /\ stage[c] = "none")
          /\ UNCHANGED <<keys, firstRows, attested>>
      BY <1>12 DEF Crash
    <2> QED  BY <1>c, <2>1 DEF BlobInv, RowsAwaited, WholeSoFar, Unseen, Asked
  <1>13. CASE UNCHANGED vars
    BY <1>13, <1>c, BlobUntouched DEF vars
  <1> QED  BY <1>1, <1>2, <1>3, <1>4, <1>5, <1>6, <1>7, <1>8, <1>9, <1>10, <1>11, <1>12, <1>13
           DEF Next

(* The verifier writes at most one row about a blob and a relay, with any     *)
(* number of blobs, slots and restarts.                                      *)
THEOREM ProbedOnce == Spec => []FirstProbeOnce
  <1>1. QueueInv => FirstProbeOnce
    BY DEF QueueInv, BlobInv, RowsAwaited, FirstProbeOnce
  <1> QED  BY <1>1, QueueInit, QueueStep, PTL DEF Spec

(* A blob that leaves the queue without an error of its goroutine has a row   *)
(* about every relay of its certificate and its attestation exactly once.    *)
THEOREM ProbedAsAWhole == Spec => []ProbesAreWhole
  <1>1. QueueInv => ProbesAreWhole
    <2> SUFFICES ASSUME QueueInv, NEW b \in Blobs, NEW j \in Relays, firstRows[b][j] > 0,
                        stage[b] = "none", b \notin cut
                 PROVE  attested[b] = 1 /\ \A k \in keys[b] : firstRows[b][k] > 0
      BY DEF ProbesAreWhole
    <2>1. ~Unseen(b)
      BY DEF Unseen
    <2> QED  BY <2>1 DEF QueueInv, BlobInv, WholeSoFar, Asked
  <1> QED  BY <1>1, QueueInit, QueueStep, PTL DEF Spec
-----------------------------------------------------------------------------
(* The refinement.  A blob that met no error has no row but about the relays  *)
(* of its certificate.                                                       *)
CertifiedOnly(b) == b \notin cut => \A k \in Relays \ keys[b] : firstRows[b][k] = 0

TableInv == QueueInv /\ \A b \in Blobs : CertifiedOnly(b)

LEMMA TableInit == Init => TableInv
  <1> SUFFICES ASSUME Init PROVE TableInv
    OBVIOUS
  <1> QED  BY QueueInit DEF Init, TableInv, CertifiedOnly

LEMMA TableStep == TableInv /\ [Next]_vars => TableInv'
  <1> SUFFICES ASSUME TableInv, [Next]_vars PROVE TableInv'
    OBVIOUS
  <1>t. QueueInv /\ QueueInv' /\ TypeOK
    BY QueueStep DEF TableInv, QueueInv
  <1> SUFFICES ASSUME NEW c \in Blobs PROVE CertifiedOnly(c)'
    BY <1>t DEF TableInv
  <1>c. CertifiedOnly(c)
    BY DEF TableInv
  <1>1. ASSUME NEW b \in Blobs, NEW K \in SUBSET RelayKeys, Certify(b, K)
        PROVE  CertifiedOnly(c)'
    <2>1. keys[c] \subseteq keys'[c]
      BY <1>1, <1>t DEF Certify, TypeOK
    <2> QED  BY <1>1, <1>c, <2>1 DEF Certify, CertifiedOnly
  <1>2. ASSUME NEW b \in Blobs, CertificateFails(b)
        PROVE  CertifiedOnly(c)'
    <2>1. CASE c = b
      BY <1>2, <2>1 DEF CertificateFails, CertifiedOnly
    <2>2. CASE c # b
      <3>1. \A k \in Relays : firstRows'[c][k] = firstRows[c][k]
        <4>1. /\ InsertProbeResult(b, NoRelay) /\ NoRelay \in Relays
              /\ firstRows \in [Blobs -> [Relays -> Nat]]
          BY <1>2, <1>t DEF CertificateFails, TypeOK, Relays
        <4> QED  BY <2>2, <4>1, InsertCounts
      <3> QED  BY <1>2, <1>c, <3>1 DEF CertificateFails, CertifiedOnly
    <2> QED  BY <2>1, <2>2
  <1>3. ASSUME NEW b \in Blobs, NEW k \in RelayKeys, ProbeRelay(b, k)
        PROVE  CertifiedOnly(c)'
    <2>1. k \in keys[b]
      BY <1>3, <1>t DEF ProbeRelay, QueueInv, BlobInv, RowsAwaited
    <2>2. \A j \in Relays : c # b \/ j # k => firstRows'[c][j] = firstRows[c][j]
      <3>1. /\ InsertProbeResult(b, k) /\ k \in Relays
            /\ firstRows \in [Blobs -> [Relays -> Nat]]
        BY <1>3, <1>t DEF ProbeRelay, TypeOK, Relays
      <3> QED  BY <3>1, InsertCounts
    <2> QED  BY <1>3, <1>c, <2>1, <2>2 DEF ProbeRelay, CertifiedOnly
  <1>4. ASSUME keys' = keys, firstRows' = firstRows, cut \subseteq cut'
        PROVE  CertifiedOnly(c)'
    BY <1>4, <1>c DEF CertifiedOnly
  <1>5. \/ \E b \in Blobs, K \in SUBSET RelayKeys : Certify(b, K)
        \/ \E b \in Blobs : CertificateFails(b)
        \/ \E b \in Blobs, k \in RelayKeys : ProbeRelay(b, k)
        \/ keys' = keys /\ firstRows' = firstRows /\ cut \subseteq cut'
    BY DEF Next, Observe, Select, Acquire, FetchCertificate, ProbeRelayUnrecorded,
           FetchAttestation, Reprobe, ReprobeRelay, Crash, vars
  <1> QED  BY <1>1, <1>2, <1>3, <1>4, <1>5

\* A blob the verifier is done with is left alone.
Settled(c) ==
    /\ stage'[c] = "none" /\ firstRows'[c] = firstRows[c] /\ attested'[c] = attested[c]
    /\ c \in cut' => c \in cut

\* It is, by every step.
LEMMA DoneIsSettled ==
    ASSUME TypeOK, [Next]_vars, NEW c \in DoneWith
    PROVE  Settled(c)
  <1>c. c \in Blobs /\ stage[c] = "none" /\ \E k \in Relays : firstRows[c][k] > 0
    BY DEF DoneWith
  <1>1. CASE Select
    <2>1. c \notin GetUnprobedBlobs
      BY <1>c DEF GetUnprobedBlobs, Probed
    <2> QED  BY <1>1, <1>c, <2>1 DEF Select, Settled
  <1>2. ASSUME NEW b \in Blobs, Acquire(b) \/ FetchCertificate(b)
        PROVE  Settled(c)
    BY <1>2, <1>c DEF Acquire, FetchCertificate, TypeOK, Settled
  <1>3. ASSUME NEW b \in Blobs, CertificateFails(b)
        PROVE  Settled(c)
    BY <1>3, <1>c DEF CertificateFails, InsertProbeResult, TypeOK, Settled
  <1>4. ASSUME NEW b \in Blobs, NEW k \in RelayKeys, ProbeRelay(b, k) \/ ProbeRelayUnrecorded(b, k)
        PROVE  Settled(c)
    BY <1>4, <1>c DEF ProbeRelay, ProbeRelayUnrecorded, InsertProbeResult, TypeOK, Settled
  <1>5. ASSUME NEW b \in Blobs, NEW recorded \in BOOLEAN, FetchAttestation(b, recorded)
        PROVE  Settled(c)
    BY <1>5, <1>c DEF FetchAttestation, InsertAttestation, TypeOK, Settled
  <1>6. CASE Crash
    BY <1>6, <1>c DEF Crash, Settled
  <1>7. ASSUME stage' = stage, firstRows' = firstRows, attested' = attested, cut' = cut
        PROVE  Settled(c)
    BY <1>7, <1>c DEF Settled
  <1>8. \/ Select \/ Crash
        \/ \E b \in Blobs : Acquire(b) \/ FetchCertificate(b)
        \/ \E b \in Blobs : CertificateFails(b)
        \/ \E b \in Blobs, k \in RelayKeys : ProbeRelay(b, k) \/ ProbeRelayUnrecorded(b, k)
        \/ \E b \in Blobs, recorded \in BOOLEAN : FetchAttestation(b, recorded)
        \/ stage' = stage /\ firstRows' = firstRows /\ attested' = attested /\ cut' = cut
    BY DEF Next, Observe, Certify, Reprobe, ReprobeRelay, vars
  <1> QED  BY <1>1, <1>2, <1>3, <1>4, <1>5, <1>6, <1>7, <1>8

\* What is recorded of the blobs that are done with, in the terms of the table.
RecordsFit ==
    \A b \in DoneWith :
        /\ RecordedOf[b] \in Table!Partial
        /\ b \notin cut => keys[b] # {} /\ RecordedOf[b] = Table!Whole(b)

LEMMA RecordedWhole == TableInv => RecordsFit
  <1> SUFFICES ASSUME TableInv, NEW b \in DoneWith
               PROVE  /\ RecordedOf[b] \in Table!Partial
                      /\ b \notin cut => keys[b] # {} /\ RecordedOf[b] = Table!Whole(b)
    BY DEF RecordsFit
  <1>1. b \in Blobs /\ stage[b] = "none" /\ ~Unseen(b)
    BY DEF DoneWith, Unseen
  <1>2. TypeOK /\ BlobInv(b) /\ CertifiedOnly(b)
    BY <1>1 DEF TableInv, QueueInv
  <1>3. RecordedOf[b] = [rows |-> firstRows[b], attested |-> attested[b]]
    BY DEF RecordedOf
  <1>4. firstRows[b] \in [Relays -> 0..1] /\ attested[b] \in 0..2
    <2>1. firstRows[b] \in [Relays -> Nat] /\ attested[b] \in 0..2
      BY <1>1, <1>2 DEF TypeOK
    <2>2. \A k \in Relays : firstRows[b][k] <= 1
      BY <1>2 DEF BlobInv, RowsAwaited
    <2>3. \A k \in Relays : firstRows[b][k] \in 0..1
      BY <2>1, <2>2
    <2> QED  BY <2>1, <2>3
  <1>5. RecordedOf[b] \in Table!Partial
    BY <1>3, <1>4 DEF Table!Partial, Table!Relays, Relays
  <1>6. ASSUME b \notin cut
        PROVE  keys[b] # {} /\ RecordedOf[b] = Table!Whole(b)
    <2>1. Asked(b, {}) /\ attested[b] = 1
      BY <1>1, <1>2, <1>6 DEF BlobInv, WholeSoFar
    <2>2. keys[b] \subseteq Relays
      BY <1>1, <1>2 DEF TypeOK, Relays
    <2>3. \A k \in Relays : firstRows[b][k] = IF k \in keys[b] THEN 1 ELSE 0
      BY <1>2, <1>4, <1>6, <2>1, <2>2 DEF Asked, CertifiedOnly
    <2>4. firstRows[b] = [k \in Relays |-> IF k \in keys[b] THEN 1 ELSE 0]
      BY <1>4, <2>3
    <2> QED  BY <1>3, <2>1, <2>4 DEF Asked, Table!Whole, Table!Relays, Relays
  <1> QED  BY <1>5, <1>6

\* Every step but the certificate's arrival concludes the blobs that become done.
LEMMA StepConcludes ==
    ASSUME TableInv, TableInv', [Next]_vars, keys' = keys
    PROVE  Table!Conclude(DoneWith' \ DoneWith)
  <1>1. \A c \in DoneWith : Settled(c)
    BY DoneIsSettled DEF TableInv, QueueInv
  <1>2. DoneWith \subseteq DoneWith'
    BY <1>1 DEF Settled, DoneWith
  <1>3. DOMAIN RecordedOf = DoneWith /\ DOMAIN RecordedOf' = DoneWith'
    BY DEF RecordedOf
  <1>4. \A c \in DoneWith : RecordedOf'[c] = RecordedOf[c]
    BY <1>1, <1>2 DEF RecordedOf, Settled
  <1>5. \A c \in DoneWith' :
            /\ RecordedOf'[c] \in Table!Partial
            /\ c \notin cut' => keys[c] # {} /\ RecordedOf'[c] = Table!Whole(c)
    <2>1. RecordsFit'
      BY RecordedWhole, PTL
    <2> QED  BY <2>1 DEF RecordsFit, Table!Partial, Table!Whole, Table!Relays
  <1>6. cut \subseteq cut'
    BY DEF Next, Observe, Certify, Select, Acquire, FetchCertificate, CertificateFails,
           ProbeRelay, ProbeRelayUnrecorded, FetchAttestation, Reprobe, ReprobeRelay, Crash, vars
  <1>7. cut' \cap DoneWith \subseteq cut
    BY <1>1 DEF Settled
  <1> QED  BY <1>2, <1>3, <1>4, <1>5, <1>6, <1>7 DEF Table!Conclude, Table!Done

\* Every step is one of the abstract specification, or leaves its variables alone.
LEMMA StepRefines ==
    ASSUME TableInv, TableInv', [Next]_vars
    PROVE  [Table!Next]_(Table!vars)
  <1>1. ASSUME NEW b \in Blobs, NEW K \in SUBSET RelayKeys, Certify(b, K)
        PROVE  Table!Next
    <2>1. Table!Certify(b, K)
      BY <1>1 DEF Certify, Table!Certify, RecordedOf, DoneWith
    <2> QED  BY <2>1 DEF Table!Next
  <1>2. ASSUME keys' = keys
        PROVE  Table!Next
    <2>1. DoneWith' \ DoneWith \in SUBSET Blobs
      BY DEF DoneWith
    <2> QED  BY <1>2, <2>1, StepConcludes DEF Table!Next
  <1>3. keys' = keys \/ \E b \in Blobs, K \in SUBSET RelayKeys : Certify(b, K)
    BY DEF Next, Observe, Select, Acquire, FetchCertificate, CertificateFails, ProbeRelay,
           ProbeRelayUnrecorded, FetchAttestation, Reprobe, ReprobeRelay, Crash, vars
  <1> QED  BY <1>1, <1>2, <1>3

(* The queue implements the abstract table: the verifier is done with a blob  *)
(* once and for all, and what it leaves is whole but for the named exceptions, *)
(* with any number of blobs, relays and slots, and any size of a selection.  *)
THEOREM Refinement == Spec => ResultsSpec
  <1>1. Init => Table!Init
    <2> SUFFICES ASSUME Init PROVE Table!Init
      OBVIOUS
    <2>1. DoneWith = {}
      BY DEF Init, DoneWith
    <2> QED  BY <2>1 DEF Init, Table!Init, RecordedOf
  <1>2. TableInv /\ TableInv' /\ [Next]_vars => [Table!Next]_(Table!vars)
    BY StepRefines
  <1> QED  BY <1>1, <1>2, TableInit, TableStep, PTL DEF Spec, ResultsSpec, Table!Spec
-----------------------------------------------------------------------------
(* The size of a selection: the LIMIT of GetUnprobedBlobs.                    *)
Unprobed == {b \in observed : ~Probed(b)}
Newer(b) == {c \in Unprobed : c > b}

LEMMA NewerIsFinite ==
    ASSUME TypeOK, NEW b \in Blobs
    PROVE  IsFiniteSet(Newer(b)) /\ Cardinality(Newer(b)) \in Nat
  <1>1. Newer(b) \subseteq Blobs
    BY DEF Newer, Unprobed, TypeOK
  <1> QED  BY <1>1, BlobsAssumption, FS_Subset, FS_CardinalityType

(* A non-empty set of numbers has a least member.                            *)
LEMMA LeastNumber ==
    ASSUME NEW T \in SUBSET Nat, T # {}
    PROVE  \E m \in T : \A k \in T : m <= k
  <1>1. PICK m \in T : \A k \in T : ~(<<k, m>> \in OpToRel(<, Nat))
    BY NatLessThanWellFounded, WFMin, Zenon
  <1>2. \A k \in T : ~(k < m)
    BY <1>1 DEF OpToRel
  <1> QED  BY <1>2

(* The blobs of a selection are fewer than Limit by rank, so no more than     *)
(* Limit: the LIMIT of GetUnprobedBlobs.                                     *)
LEMMA SelectionBounded ==
    ASSUME TypeOK
    PROVE  Cardinality(GetUnprobedBlobs) <= Limit
  <1> DEFINE G == GetUnprobedBlobs
  <1>1. G = {b \in Unprobed : Cardinality(Newer(b)) < Limit}
    BY DEF GetUnprobedBlobs, Unprobed, Newer
  <1>2. Unprobed \subseteq Blobs /\ G \subseteq Unprobed
    BY <1>1 DEF Unprobed, TypeOK
  <1>3. IsFiniteSet(G) /\ Cardinality(G) \in Nat
    BY <1>2, BlobsAssumption, FS_Subset, FS_CardinalityType
  <1> HIDE DEF G
  <1>4. Cardinality(G) <= Limit
    <2>1. CASE G = {}
      BY <2>1, FS_EmptySet, LimitsAssumption
    <2>2. CASE G # {}
      <3>1. PICK m \in G : \A k \in G : m <= k
        BY <1>2, <2>2, BlobsAssumption, LeastNumber
      <3>2. \A k \in G : k \in Nat
        BY <1>2, BlobsAssumption
      <3>3. G \ {m} \subseteq Newer(m)
        BY <1>2, <3>1, <3>2 DEF Newer
      <3>4. Cardinality(G \ {m}) = Cardinality(G) - 1
        BY <1>3, <3>1, FS_RemoveElement
      <3>5. /\ Cardinality(G \ {m}) <= Cardinality(Newer(m))
            /\ Cardinality(G \ {m}) \in Nat /\ Cardinality(Newer(m)) \in Nat
        <4>1. IsFiniteSet(Newer(m)) /\ Cardinality(Newer(m)) \in Nat
          BY <1>2, <3>1, NewerIsFinite
        <4> QED  BY <3>3, <4>1, FS_Subset, FS_CardinalityType
      <3>6. Cardinality(Newer(m)) < Limit
        BY <1>1, <3>1
      <3> QED  BY <1>3, <3>4, <3>5, <3>6, LimitsAssumption
    <2> QED  BY <2>1, <2>2
  <1> QED  BY <1>4 DEF G
-----------------------------------------------------------------------------
(* The load: the blobs of one selection, of which no more are past the         *)
(* semaphore than it has slots, and none waits for a relay that is not there. *)
InHand == {b \in Blobs : stage[b] # "none"}
Holders == {b \in Blobs : stage[b] \notin {"none", "waiting"}}

LoadBounded == Cardinality(InHand) <= Limit /\ Cardinality(Holders) <= Parallel

LoadInv ==
    /\ TypeOK
    /\ LoadBounded
    /\ \A b \in Blobs : stage[b] = "relays" => todo[b] # {}

LEMMA LoadIsFinite ==
    /\ IsFiniteSet(InHand) /\ Cardinality(InHand) \in Nat
    /\ IsFiniteSet(Holders) /\ Cardinality(Holders) \in Nat
  BY BlobsAssumption, FS_Subset, FS_CardinalityType DEF InHand, Holders

LEMMA LoadInit == Init => LoadInv
  <1> SUFFICES ASSUME Init PROVE LoadInv
    OBVIOUS
  <1>1. InHand = {} /\ Holders = {}
    BY DEF Init, InHand, Holders
  <1> QED  BY <1>1, TypeInit, FS_EmptySet, LimitsAssumption DEF Init, LoadInv, LoadBounded

\* Select starts a batch when none is in hand, and none of it has a slot.
LEMMA SelectLoads ==
    ASSUME TypeOK, Select
    PROVE  InHand = {} /\ InHand' = GetUnprobedBlobs /\ Holders' = {}
  <1>1. GetUnprobedBlobs \subseteq Blobs
    BY DEF GetUnprobedBlobs, TypeOK
  <1> QED  BY <1>1 DEF Select, InHand, Holders

LEMMA LoadStep == LoadInv /\ [Next]_vars => LoadInv'
  <1> SUFFICES ASSUME LoadInv, [Next]_vars PROVE LoadInv'
    OBVIOUS
  <1>t. TypeOK /\ TypeOK'
    BY TypeStep DEF LoadInv
  <1>1. ASSUME InHand' \subseteq InHand, Holders' \subseteq Holders
        PROVE  LoadBounded'
    <2>1. Cardinality(InHand') <= Cardinality(InHand) /\ Cardinality(InHand') \in Nat
      BY <1>1, LoadIsFinite, FS_Subset, FS_CardinalityType
    <2>2. Cardinality(Holders') <= Cardinality(Holders) /\ Cardinality(Holders') \in Nat
      BY <1>1, LoadIsFinite, FS_Subset, FS_CardinalityType
    <2> QED  BY <2>1, <2>2, LoadIsFinite, LimitsAssumption DEF LoadInv, LoadBounded
  <1>2. CASE Select
    <2>1. Cardinality(InHand') <= Limit /\ Cardinality(Holders') <= Parallel
      BY <1>2, <1>t, SelectLoads, SelectionBounded, FS_EmptySet, LimitsAssumption
    <2>2. \A b \in Blobs : stage'[b] # "relays"
      BY <1>2 DEF Select
    <2> QED  BY <1>t, <2>1, <2>2 DEF LoadInv, LoadBounded
  <1>3. ASSUME NEW b \in Blobs, Acquire(b)
        PROVE  LoadInv'
    <2>1. /\ stage[b] = "waiting" /\ stage' = [stage EXCEPT ![b] = "certificate"]
          /\ todo' = todo /\ Cardinality(Holders) < Parallel
      BY <1>3 DEF Acquire, Holders
    <2>2. InHand' = InHand /\ Holders' = Holders \cup {b}
      BY <1>t, <2>1 DEF InHand, Holders, TypeOK
    <2>3. Cardinality(Holders \cup {b}) = IF b \in Holders THEN Cardinality(Holders)
                                                          ELSE Cardinality(Holders) + 1
      BY LoadIsFinite, FS_AddElement
    <2>4. Cardinality(Holders) \in Nat
      BY LoadIsFinite
    <2>5. Cardinality(Holders') <= Parallel
      BY <2>1, <2>2, <2>3, <2>4, LimitsAssumption
    <2>6. \A c \in Blobs : stage'[c] = "relays" => todo'[c] # {}
      BY <1>t, <2>1 DEF LoadInv, TypeOK
    <2> QED  BY <1>t, <2>2, <2>5, <2>6 DEF LoadInv, LoadBounded
  <1>4. ASSUME NEW b \in Blobs,
               \/ FetchCertificate(b) \/ CertificateFails(b)
               \/ \E k \in RelayKeys : ProbeRelay(b, k) \/ ProbeRelayUnrecorded(b, k)
               \/ \E recorded \in BOOLEAN : FetchAttestation(b, recorded)
        PROVE  LoadInv'
    <2>1. /\ stage[b] \notin {"none", "waiting"}
          /\ stage'[b] = "relays" => todo'[b] # {}
          /\ \A c \in Blobs : c # b => stage'[c] = stage[c] /\ todo'[c] = todo[c]
      BY <1>4, <1>t DEF FetchCertificate, CertificateFails, ProbeRelay, ProbeRelayUnrecorded,
                        FetchAttestation, TypeOK
    <2>2. InHand' \subseteq InHand /\ Holders' \subseteq Holders
      BY <2>1 DEF InHand, Holders
    <2>3. \A c \in Blobs : stage'[c] = "relays" => todo'[c] # {}
      BY <1>t, <2>1 DEF LoadInv, TypeOK
    <2> QED  BY <1>1, <1>t, <2>2, <2>3 DEF LoadInv
  <1>5. CASE Crash
    <2>1. InHand' = {} /\ Holders' = {} /\ \A c \in Blobs : stage'[c] # "relays"
      BY <1>5 DEF Crash, InHand, Holders
    <2> QED  BY <1>1, <1>t, <2>1 DEF LoadInv
  <1>6. ASSUME stage' = stage, todo' = todo
        PROVE  LoadInv'
    BY <1>1, <1>6, <1>t DEF LoadInv, InHand, Holders
  <1>7. \/ Select \/ Crash
        \/ \E b \in Blobs : Acquire(b)
        \/ \E b \in Blobs :
              \/ FetchCertificate(b) \/ CertificateFails(b)
              \/ \E k \in RelayKeys : ProbeRelay(b, k) \/ ProbeRelayUnrecorded(b, k)
              \/ \E recorded \in BOOLEAN : FetchAttestation(b, recorded)
        \/ stage' = stage /\ todo' = todo
    BY DEF Next, Observe, Certify, Reprobe, ReprobeRelay, vars
  <1> QED  BY <1>2, <1>3, <1>4, <1>5, <1>6, <1>7

(* At no moment are there more goroutines than a selection has blobs, nor     *)
(* more of them past the semaphore than RELAY_VERIFIER_PARALLEL.             *)
THEOREM LoadIsBounded == Spec => []LoadBounded
  <1>1. LoadInv => LoadBounded
    BY DEF LoadInv
  <1> QED  BY <1>1, LoadInit, LoadStep, PTL DEF Spec

(* While a batch is in hand one of its goroutines can go on: the semaphore     *)
(* never has all of them wait, nor does one have no relay left to ask.        *)
SomeoneGoesOn ==
    InHand # {} => \E b \in InHand :
        \/ stage[b] = "waiting" /\ Cardinality(Holders) < Parallel
        \/ stage[b] \in {"certificate", "uncertified", "attestation"}
        \/ stage[b] = "relays" /\ \E k \in RelayKeys : k \in todo[b]

(* The goroutines of a batch never all wait for one another.                   *)
THEOREM NeverAllWaiting == Spec => []SomeoneGoesOn
  <1>1. LoadInv => SomeoneGoesOn
    <2> SUFFICES ASSUME LoadInv, NEW a \in InHand
                 PROVE  \E b \in InHand :
                            \/ stage[b] = "waiting" /\ Cardinality(Holders) < Parallel
                            \/ stage[b] \in {"certificate", "uncertified", "attestation"}
                            \/ stage[b] = "relays" /\ \E k \in RelayKeys : k \in todo[b]
      BY DEF SomeoneGoesOn
    <2>1. CASE Holders = {}
      <3>1. stage[a] = "waiting"
        BY <2>1 DEF InHand, Holders
      <3>2. Cardinality(Holders) < Parallel
        BY <2>1, FS_EmptySet, LimitsAssumption
      <3> QED  BY <3>1, <3>2
    <2>2. ASSUME NEW h \in Holders
          PROVE  \/ stage[h] \in {"certificate", "uncertified", "attestation"}
                 \/ stage[h] = "relays" /\ \E k \in RelayKeys : k \in todo[h]
      BY DEF LoadInv, Holders, TypeOK, Stages
    <2>3. Holders \subseteq InHand
      BY DEF InHand, Holders
    <2> QED  BY <2>1, <2>2, <2>3
  <1> QED  BY <1>1, LoadInit, LoadStep, PTL DEF Spec
-----------------------------------------------------------------------------
(* What a batch still has ahead of it: for each blob in hand the slot, the     *)
(* certificate, a relay for each that may be in it, and the attestation.      *)
Works == ({"slot", "certificate", "attestation"} \X {NoRelay}) \cup ({"relay"} \X RelayKeys)

Ahead(b) ==
    {w \in Works :
        \/ w[1] = "slot" /\ stage[b] = "waiting"
        \/ w[1] = "certificate" /\ stage[b] \in {"waiting", "certificate"}
        \/ w[1] = "relay" /\ stage[b] \in {"waiting", "certificate"}
        \/ w[1] = "relay" /\ stage[b] = "relays" /\ w[2] \in todo[b]
        \/ w[1] = "attestation" /\ stage[b] # "none"}

Left == {v \in Blobs \X Works : v[2] \in Ahead(v[1])}

\* A step of the goroutine of a blob.
Goes(b) ==
    \/ Acquire(b) \/ FetchCertificate(b) \/ CertificateFails(b)
    \/ \E k \in RelayKeys : ProbeRelay(b, k) \/ ProbeRelayUnrecorded(b, k)
    \/ \E recorded \in BOOLEAN : FetchAttestation(b, recorded)

\* A batch has less ahead once a blob has, and no other has more.
LEMMA LeftShrinks ==
    ASSUME NEW b \in Blobs, NEW w \in Works, w \in Ahead(b), w \notin Ahead(b)',
           \A c \in Blobs : Ahead(c)' \subseteq Ahead(c)
    PROVE  Left' \subseteq Left /\ Left' # Left
  <1>1. Left' \subseteq Left
    BY DEF Left
  <1>2. <<b, w>> \in Left /\ <<b, w>> \notin Left'
    BY DEF Left
  <1> QED  BY <1>1, <1>2

\* The other blobs, which a step of one goroutine leaves alone.
LEMMA OthersLeft ==
    ASSUME NEW b \in Blobs, Ahead(b)' \subseteq Ahead(b),
           \A c \in Blobs : c # b => stage'[c] = stage[c] /\ todo'[c] = todo[c]
    PROVE  \A c \in Blobs : Ahead(c)' \subseteq Ahead(c)
  <1> SUFFICES ASSUME NEW c \in Blobs, c # b PROVE Ahead(c)' \subseteq Ahead(c)
    OBVIOUS
  <1> QED  BY DEF Ahead

LEMMA GoroutineAdvances ==
    ASSUME TypeOK, NEW b \in Blobs, Goes(b)
    PROVE  Left' \subseteq Left /\ Left' # Left
  <1> SUFFICES \E w \in Works : /\ w \in Ahead(b) /\ w \notin Ahead(b)'
                                /\ \A c \in Blobs : Ahead(c)' \subseteq Ahead(c)
    BY LeftShrinks
  <1>w. /\ <<"slot", NoRelay>> \in Works /\ <<"certificate", NoRelay>> \in Works
        /\ <<"attestation", NoRelay>> \in Works
        /\ \A k \in RelayKeys : <<"relay", k>> \in Works
    BY DEF Works
  <1>1. CASE Acquire(b)
    <2>1. /\ stage[b] = "waiting" /\ stage'[b] = "certificate"
          /\ \A c \in Blobs : c # b => stage'[c] = stage[c] /\ todo'[c] = todo[c]
      BY <1>1 DEF Acquire, TypeOK
    <2>2. Ahead(b)' \subseteq Ahead(b)
      BY <2>1 DEF Ahead
    <2>3. <<"slot", NoRelay>> \in Ahead(b) /\ <<"slot", NoRelay>> \notin Ahead(b)'
      BY <1>w, <2>1 DEF Ahead
    <2> QED  BY <1>w, <2>1, <2>2, <2>3, OthersLeft
  <1>2. CASE FetchCertificate(b) \/ CertificateFails(b)
    <2>1. /\ stage[b] = "certificate" /\ stage'[b] \in {"uncertified", "relays", "attestation"}
          /\ \A c \in Blobs : c # b => stage'[c] = stage[c] /\ todo'[c] = todo[c]
      BY <1>2 DEF FetchCertificate, CertificateFails, TypeOK
    <2>2. Ahead(b)' \subseteq Ahead(b)
      BY <2>1 DEF Ahead
    <2>3. <<"certificate", NoRelay>> \in Ahead(b) /\ <<"certificate", NoRelay>> \notin Ahead(b)'
      BY <1>w, <2>1 DEF Ahead
    <2> QED  BY <1>w, <2>1, <2>2, <2>3, OthersLeft
  <1>3. ASSUME NEW k \in RelayKeys, ProbeRelay(b, k) \/ ProbeRelayUnrecorded(b, k)
        PROVE  \E w \in Works : /\ w \in Ahead(b) /\ w \notin Ahead(b)'
                                /\ \A c \in Blobs : Ahead(c)' \subseteq Ahead(c)
    <2>1. /\ stage[b] = "relays" /\ k \in todo[b] /\ stage'[b] \in {"relays", "attestation"}
          /\ todo'[b] = todo[b] \ {k}
          /\ \A c \in Blobs : c # b => stage'[c] = stage[c] /\ todo'[c] = todo[c]
      BY <1>3 DEF ProbeRelay, ProbeRelayUnrecorded, TypeOK
    <2>2. Ahead(b)' \subseteq Ahead(b)
      BY <2>1 DEF Ahead
    <2>3. <<"relay", k>> \in Ahead(b) /\ <<"relay", k>> \notin Ahead(b)'
      BY <1>w, <2>1 DEF Ahead
    <2> QED  BY <1>w, <2>1, <2>2, <2>3, OthersLeft
  <1>4. ASSUME NEW recorded \in BOOLEAN, FetchAttestation(b, recorded)
        PROVE  \E w \in Works : /\ w \in Ahead(b) /\ w \notin Ahead(b)'
                                /\ \A c \in Blobs : Ahead(c)' \subseteq Ahead(c)
    <2>1. /\ stage[b] # "none" /\ stage'[b] = "none"
          /\ \A c \in Blobs : c # b => stage'[c] = stage[c] /\ todo'[c] = todo[c]
      BY <1>4 DEF FetchAttestation, TypeOK
    <2>2. Ahead(b)' \subseteq Ahead(b)
      BY <2>1 DEF Ahead
    <2>3. <<"attestation", NoRelay>> \in Ahead(b) /\ <<"attestation", NoRelay>> \notin Ahead(b)'
      BY <1>w, <2>1 DEF Ahead
    <2> QED  BY <1>w, <2>1, <2>2, <2>3, OthersLeft
  <1> QED  BY <1>1, <1>2, <1>3, <1>4 DEF Goes

(* Every step of a goroutine leaves the batch with strictly less ahead, no     *)
(* step of anyone else with more, and the next batch is not selected before    *)
(* nothing is left: whatever the collector, the certificates, the reverifier   *)
(* and the kills do, a batch ends after at most as many steps as it had ahead. *)
BatchOnlyShrinks ==
    /\ (\E b \in Blobs : Goes(b)) => Left' \subseteq Left /\ Left' # Left
    /\ Select => Left = {}
    /\ Left' \subseteq Left \/ Select
    /\ Crash => Left' = {}

(* A batch only gets shorter, and wg.Wait separates it from the next.           *)
THEOREM BatchesAdvance == Spec => [][BatchOnlyShrinks]_vars
  <1>1. ASSUME TypeOK, [Next]_vars
        PROVE  BatchOnlyShrinks
    <2>1. (\E b \in Blobs : Goes(b)) => Left' \subseteq Left /\ Left' # Left
      BY <1>1, GoroutineAdvances
    <2>2. Select => Left = {}
      BY DEF Select, Left, Ahead
    <2>3. Crash => Left' = {}
      BY DEF Crash, Left, Ahead
    <2>4. stage' = stage /\ todo' = todo => Left' = Left
      BY DEF Left, Ahead
    <2>5. \/ Select \/ Crash \/ \E b \in Blobs : Goes(b)
          \/ stage' = stage /\ todo' = todo
      BY <1>1 DEF Next, Observe, Certify, Reprobe, ReprobeRelay, Goes, vars
    <2> QED  BY <2>1, <2>2, <2>3, <2>4, <2>5 DEF BatchOnlyShrinks
  <1> QED  BY <1>1, TypeCorrect, PTL DEF Spec

(* A batch has at most Limit * (the relays + 3) steps ahead of it, and none    *)
(* ahead exactly when no goroutine is left and wg.Wait returns.              *)
BatchBounded ==
    /\ IsFiniteSet(Left) /\ Cardinality(Left) <= Limit * (Cardinality(RelayKeys) + 3)
    /\ Left = {} <=> \A b \in Blobs : stage[b] = "none"

LEMMA WorksAreFinite ==
    IsFiniteSet(Works) /\ Cardinality(Works) = Cardinality(RelayKeys) + 3
  <1> DEFINE alone == {"slot", "certificate", "attestation"}
             once == alone \X {NoRelay}
             each == {"relay"} \X RelayKeys
  <1>1. IsFiniteSet(alone) /\ Cardinality(alone) = 3
    <2>1. IsFiniteSet({"slot"}) /\ Cardinality({"slot"}) = 1
      BY FS_Singleton
    <2>2. IsFiniteSet({"slot"} \cup {"certificate"}) /\ Cardinality({"slot"} \cup {"certificate"}) = 2
      BY <2>1, FS_AddElement
    <2> DEFINE two == {"slot"} \cup {"certificate"}
    <2> HIDE DEF two
    <2>3. "attestation" \notin two
      BY DEF two
    <2>4. IsFiniteSet(two \cup {"attestation"}) /\ Cardinality(two \cup {"attestation"}) = 3
      BY <2>2, <2>3, FS_AddElement DEF two
    <2>5. alone = two \cup {"attestation"}
      BY DEF two
    <2> QED  BY <2>4, <2>5
  <1>2. IsFiniteSet(once) /\ Cardinality(once) = 3
    <2>1. IsFiniteSet({NoRelay}) /\ Cardinality({NoRelay}) = 1
      BY FS_Singleton
    <2> HIDE DEF alone
    <2>2. IsFiniteSet(once) /\ Cardinality(once) = 3 * 1
      BY <1>1, <2>1, FS_Product
    <2> QED  BY <2>2
  <1>3. IsFiniteSet(each) /\ Cardinality(each) = Cardinality(RelayKeys) /\ Cardinality(each) \in Nat
    <2>1. IsFiniteSet({"relay"}) /\ Cardinality({"relay"}) = 1 /\ Cardinality(RelayKeys) \in Nat
      BY FS_Singleton, FS_CardinalityType
    <2>2. IsFiniteSet(each) /\ Cardinality(each) = 1 * Cardinality(RelayKeys)
      BY <2>1, FS_Product
    <2> QED  BY <2>1, <2>2
  <1>4. Cardinality(once \cap each) = 0
    <2>1. once \cap each = {}
      OBVIOUS
    <2> QED  BY <2>1, FS_EmptySet
  <1>5. Works = once \cup each
    BY DEF Works
  <1> HIDE DEF once, each
  <1>6. /\ IsFiniteSet(once \cup each)
        /\ Cardinality(once \cup each)
              = Cardinality(once) + Cardinality(each) - Cardinality(once \cap each)
    BY <1>2, <1>3, FS_Union
  <1> QED  BY <1>2, <1>3, <1>4, <1>5, <1>6

LEMMA ProductMonotone ==
    ASSUME NEW m \in Nat, NEW n \in Nat, NEW k \in Nat, m <= n
    PROVE  m * k <= n * k /\ m * k \in Nat /\ n * k \in Nat
  OBVIOUS

(* A batch has, at every moment, at most Limit * (Cardinality(RelayKeys) + 3)   *)
(* steps ahead, and none exactly when wg.Wait returns.                       *)
THEOREM BatchesAreBounded == Spec => []BatchBounded
  <1>1. LoadInv => BatchBounded
    <2> SUFFICES ASSUME LoadInv PROVE BatchBounded
      OBVIOUS
    <2> DEFINE n == Cardinality(RelayKeys) + 3
    <2>1. Left \subseteq InHand \X Works
      BY DEF Left, Ahead, InHand
    <2>2. n \in Nat /\ IsFiniteSet(Works) /\ Cardinality(Works) = n
      BY WorksAreFinite, FS_CardinalityType
    <2> HIDE DEF n
    <2>3. IsFiniteSet(InHand \X Works) /\ Cardinality(InHand \X Works) = Cardinality(InHand) * n
      BY <2>2, LoadIsFinite, FS_Product
    <2>4. IsFiniteSet(Left) /\ Cardinality(Left) <= Cardinality(InHand \X Works)
          /\ Cardinality(Left) \in Nat
      BY <2>1, <2>3, FS_Subset, FS_CardinalityType
    <2>5. Cardinality(InHand) * n <= Limit * n /\ Cardinality(InHand) * n \in Nat /\ Limit * n \in Nat
      <3>1. Cardinality(InHand) \in Nat /\ Limit \in Nat /\ Cardinality(InHand) <= Limit
        BY LoadIsFinite, LimitsAssumption DEF LoadInv, LoadBounded
      <3> QED  BY <2>2, <3>1, ProductMonotone
    <2>6. Cardinality(Left) <= Limit * n
      BY <2>3, <2>4, <2>5
    <2>7. Left = {} <=> \A b \in Blobs : stage[b] = "none"
      <3>1. ASSUME NEW b \in Blobs, stage[b] # "none"
            PROVE  <<b, <<"attestation", NoRelay>>>> \in Left
        BY <3>1 DEF Left, Ahead, Works
      <3>2. (\A b \in Blobs : stage[b] = "none") => Left = {}
        BY DEF Left, Ahead
      <3> QED  BY <3>1, <3>2
    <2> QED  BY <2>4, <2>6, <2>7 DEF BatchBounded, n
  <1> QED  BY <1>1, LoadInit, LoadStep, PTL DEF Spec
=============================================================================
