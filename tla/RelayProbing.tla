---------------------------- MODULE RelayProbing ----------------------------
(***************************************************************************)
(* The RelayVerifier (internal/worker/relay_verifier.go) and the Reverifier  *)
(* (internal/worker/reverifier.go) over eigenda.observed_blobs and            *)
(* eigenda.retrieval_probes.  The verifier takes the newest blobs without a   *)
(* probe row, a goroutine each, and waits for all of them; the reverifier     *)
(* probes any blob of the right age.  Both only learn what to do from the     *)
(* table both write.                                                          *)
(***************************************************************************)
EXTENDS Integers, FiniteSets

CONSTANTS
    Blobs,           \* numbers, in the order of requested_at
    RelayKeys,
    NoRelay,         \* the relay_key -1 of a row about a certificate error
    NeverCertified,  \* blobs that failed: the DataAPI never has a certificate
    Limit,           \* the 20 of GetUnprobedBlobs
    Parallel         \* RELAY_VERIFIER_PARALLEL

ASSUME BlobsAssumption ==
    Blobs \subseteq Nat /\ IsFiniteSet(Blobs) /\ NeverCertified \subseteq Blobs
ASSUME RelayAssumption == NoRelay \notin RelayKeys /\ IsFiniteSet(RelayKeys)
\* With Parallel = 0 the semaphore has no slot and every goroutine waits for ever.
ASSUME LimitsAssumption == Limit \in Nat \ {0} /\ Parallel \in Nat \ {0}

VARIABLES
    observed,   \* the blobs with a row in observed_blobs
    keys,       \* keys[b]: the relay keys of b's certificate, {} while it has none
    stage,      \* stage[b]: where the verifier's goroutine of b stands
    todo,       \* todo[b]: the relays its loop has yet to ask
    reverified, \* what the reverifier is asking: a set of at most one [blob, todo]
    firstRows,  \* firstRows[b][k]: rows of the verifier about b and relay k
    reRows,     \* the blobs with rows of the reverifier
    attested,   \* attested[b]: rows of b per quorum in attestation_snapshots, up to 2
    cut         \* history: blobs whose goroutine met an error, or was killed, or was
                \* overtaken by the certificate

vars == <<observed, keys, stage, todo, reverified, firstRows, reRows, attested, cut>>

Relays == RelayKeys \cup {NoRelay}
Stages == {"none", "waiting", "certificate", "uncertified", "relays", "attestation"}

TypeOK ==
    /\ observed \subseteq Blobs
    /\ keys \in [Blobs -> SUBSET RelayKeys]
    /\ stage \in [Blobs -> Stages]
    /\ todo \in [Blobs -> SUBSET RelayKeys]
    /\ reverified \subseteq [blob : observed, todo : SUBSET RelayKeys]
    /\ Cardinality(reverified) <= 1
    /\ firstRows \in [Blobs -> [Relays -> Nat]]
    /\ reRows \subseteq Blobs
    /\ attested \in [Blobs -> 0..2]
    /\ cut \subseteq Blobs

Init ==
    /\ observed = {}
    /\ keys = [b \in Blobs |-> {}]
    /\ stage = [b \in Blobs |-> "none"]
    /\ todo = [b \in Blobs |-> {}]
    /\ reverified = {}
    /\ firstRows = [b \in Blobs |-> [k \in Relays |-> 0]]
    /\ reRows = {}
    /\ attested = [b \in Blobs |-> 0]
    /\ cut = {}

\* Faulty variant: a row about a certificate error does not count.
ProbedAtRelay(b) == b \in reRows \/ \E k \in RelayKeys : firstRows[b][k] > 0

\* A blob with a row in retrieval_probes.
Probed(b) == b \in reRows \/ \E k \in Relays : firstRows[b][k] > 0
-----------------------------------------------------------------------------
(* The other writers: the collector, and EigenDA signing certificates.       *)

Observe(b) ==
    /\ b \notin observed
    /\ observed' = observed \cup {b}
    /\ UNCHANGED <<keys, stage, todo, reverified, firstRows, reRows, attested, cut>>

Certify(b, K) ==
    /\ b \notin NeverCertified
    /\ keys[b] = {} /\ K # {}
    /\ keys' = [keys EXCEPT ![b] = K]
    /\ UNCHANGED <<observed, stage, todo, reverified, firstRows, reRows, attested, cut>>
-----------------------------------------------------------------------------
(* The verifier.                                                             *)

\* Faulty variant: one blob less than the limit.
UnprobedBelowLimit ==
    LET unprobed == {b \in observed : ~Probed(b)}
    IN  {b \in unprobed : Cardinality({c \in unprobed : c > b}) < Limit - 1}

\* GetUnprobedBlobs.
GetUnprobedBlobs ==
    LET unprobed == {b \in observed : ~Probed(b)}
    IN  {b \in unprobed : Cardinality({c \in unprobed : c > b}) < Limit}

\* Run, after wg.Wait: a goroutine for each blob.
Select ==
    /\ \A b \in Blobs : stage[b] = "none"
    /\ GetUnprobedBlobs # {}
    /\ stage' = [b \in Blobs |-> IF b \in GetUnprobedBlobs THEN "waiting" ELSE "none"]
    /\ UNCHANGED <<observed, keys, todo, reverified, firstRows, reRows, attested, cut>>

\* The goroutine gets a slot of the semaphore.
Acquire(b) ==
    /\ stage[b] = "waiting"
    /\ Cardinality({c \in Blobs : stage[c] \notin {"none", "waiting"}}) < Parallel
    /\ stage' = [stage EXCEPT ![b] = "certificate"]
    /\ UNCHANGED <<observed, keys, todo, reverified, firstRows, reRows, attested, cut>>

\* probeBlob reads the certificate; there may be none, or one without relays.
FetchCertificate(b) ==
    /\ stage[b] = "certificate"
    /\ todo' = [todo EXCEPT ![b] = keys[b]]
    /\ stage' = [stage EXCEPT ![b] = IF keys[b] = {} THEN "uncertified" ELSE "relays"]
    /\ UNCHANGED <<observed, keys, reverified, firstRows, reRows, attested, cut>>

InsertProbeResult(b, k) == firstRows' = [firstRows EXCEPT ![b][k] = @ + 1]

\* Any other error of the request leaves a row without a relay.
CertificateFails(b) ==
    /\ stage[b] = "certificate"
    /\ InsertProbeResult(b, NoRelay)
    /\ stage' = [stage EXCEPT ![b] = "attestation"]
    /\ cut' = cut \cup {b}
    /\ UNCHANGED <<observed, keys, todo, reverified, reRows, attested>>

\* Faulty variant: the loop over the relays ends with the first row.
ProbeRelayReturns(b, k) ==
    /\ stage[b] = "relays"
    /\ k \in todo[b]
    /\ todo' = [todo EXCEPT ![b] = {}]
    /\ stage' = [stage EXCEPT ![b] = "attestation"]
    /\ InsertProbeResult(b, k)
    /\ UNCHANGED <<observed, keys, reverified, reRows, attested, cut>>

\* probeRelay: a row about relay k, whatever the registry and the relay say; the
\* loop ends with the last relay.
ProbeRelay(b, k) ==
    /\ stage[b] = "relays"
    /\ k \in todo[b]
    /\ todo' = [todo EXCEPT ![b] = @ \ {k}]
    /\ stage' = [stage EXCEPT ![b] = IF todo[b] = {k} THEN "attestation" ELSE "relays"]
    /\ InsertProbeResult(b, k)
    /\ UNCHANGED <<observed, keys, reverified, reRows, attested, cut>>

\* The same when the insert fails.
ProbeRelayUnrecorded(b, k) ==
    /\ stage[b] = "relays"
    /\ k \in todo[b]
    /\ todo' = [todo EXCEPT ![b] = @ \ {k}]
    /\ stage' = [stage EXCEPT ![b] = IF todo[b] = {k} THEN "attestation" ELSE "relays"]
    /\ cut' = cut \cup {b}
    /\ UNCHANGED <<observed, keys, reverified, firstRows, reRows, attested>>

InsertAttestation(b) ==
    attested' = [attested EXCEPT ![b] = IF @ < 2 THEN @ + 1 ELSE @]

\* fetchAttestation, also for a blob without a certificate, and the goroutine ends.
\* There is an attestation only of a certified blob; it may not be signed yet, and
\* the request and the inserts may fail.
FetchAttestation(b, recorded) ==
    /\ stage[b] \in {"uncertified", "attestation"}
    /\ IF recorded THEN keys[b] # {} /\ InsertAttestation(b) ELSE UNCHANGED attested
    /\ cut' = IF recorded = (stage[b] = "attestation") THEN cut ELSE cut \cup {b}
    /\ stage' = [stage EXCEPT ![b] = "none"]
    /\ UNCHANGED <<observed, keys, todo, reverified, firstRows, reRows>>
-----------------------------------------------------------------------------
(* The reverifier: one goroutine, one blob after the other.                  *)

\* Faulty variant: the next blob is taken while one is being asked about.
ReprobeInParallel(b) ==
    /\ b \in observed
    /\ keys[b] # {}
    /\ reverified' = reverified \cup {[blob |-> b, todo |-> keys[b]]}
    /\ UNCHANGED <<observed, keys, stage, todo, firstRows, reRows, attested, cut>>

\* GetAgedBlobKeys returned b, and its certificate has relays.
Reprobe(b) ==
    /\ reverified = {}
    /\ b \in observed
    /\ keys[b] # {}
    /\ reverified' = {[blob |-> b, todo |-> keys[b]]}
    /\ UNCHANGED <<observed, keys, stage, todo, firstRows, reRows, attested, cut>>

\* A relay is asked and a row written, or the registry or the insert fails.
ReprobeRelay(p, k, written) ==
    /\ p \in reverified
    /\ k \in p.todo
    /\ reverified' = IF p.todo = {k} THEN {} ELSE {[p EXCEPT !.todo = @ \ {k}]}
    /\ reRows' = IF written THEN reRows \cup {p.blob} ELSE reRows
    /\ UNCHANGED <<observed, keys, stage, todo, firstRows, attested, cut>>
-----------------------------------------------------------------------------
\* The process is killed and started again.
Crash ==
    /\ reverified # {} \/ \E b \in Blobs : stage[b] # "none"
    /\ stage' = [b \in Blobs |-> "none"]
    /\ todo' = [b \in Blobs |-> {}]
    /\ reverified' = {}
    /\ cut' = cut \cup {b \in Blobs : stage[b] # "none"}
    /\ UNCHANGED <<observed, keys, firstRows, reRows, attested>>

Next ==
    \/ \E b \in Blobs : Observe(b)
    \/ \E b \in Blobs, K \in SUBSET RelayKeys : Certify(b, K)
    \/ Select
    \/ \E b \in Blobs : Acquire(b)
    \/ \E b \in Blobs : FetchCertificate(b)
    \/ \E b \in Blobs : CertificateFails(b)
    \/ \E b \in Blobs, k \in RelayKeys : ProbeRelay(b, k)
    \/ \E b \in Blobs, k \in RelayKeys : ProbeRelayUnrecorded(b, k)
    \/ \E b \in Blobs, recorded \in BOOLEAN : FetchAttestation(b, recorded)
    \/ \E b \in Blobs : Reprobe(b)
    \/ \E p \in reverified, k \in RelayKeys, written \in BOOLEAN : ReprobeRelay(p, k, written)
    \/ Crash

Spec == Init /\ [][Next]_vars

(* The verifier's loop goes on, a goroutine gets a slot and gets through      *)
(* its requests, all of which time out; neither do the inserts fail nor is    *)
(* the process killed every time.  EigenDA certifies the blobs that do not    *)
(* fail.  The reverifier owes nothing: it draws blobs at random.              *)
Fairness ==
    /\ \A b \in Blobs : WF_vars(\E K \in SUBSET RelayKeys : Certify(b, K))
    /\ SF_vars(Select)
    /\ \A b \in Blobs :
          /\ SF_vars(Acquire(b))
          /\ SF_vars(FetchCertificate(b) \/ CertificateFails(b))
          /\ SF_vars(\E k \in RelayKeys : ProbeRelay(b, k))
          /\ SF_vars(\E recorded \in BOOLEAN : FetchAttestation(b, recorded))

FairSpec == Spec /\ Fairness
-----------------------------------------------------------------------------
(* The verifier never repeats itself: through its own parallel goroutines,   *)
(* the reverifier's rows, lost inserts and restarts, it writes at most one   *)
(* row about a blob and a relay.                                             *)
FirstProbeOnce == \A b \in Blobs, k \in Relays : firstRows[b][k] <= 1

(* The verifier is done with a blob once and for all: it has a row of the     *)
(* verifier and no goroutine.  From then on its rows never change, and but    *)
(* for the exceptions in cut they are one for each relay of the certificate   *)
(* and one attestation, through parallel goroutines, repeated selections, the *)
(* reverifier's rows and kills.                                               *)
DoneWith == {b \in Blobs : stage[b] = "none" /\ \E k \in Relays : firstRows[b][k] > 0}
RecordedOf == [b \in DoneWith |-> [rows |-> firstRows[b], attested |-> attested[b]]]
Table == INSTANCE RelayResults WITH results <- RecordedOf, broken <- cut
ResultsSpec == Table!Spec

(* A blob the verifier is done with, in that the rows it wrote keep it from  *)
(* being selected again, had every relay of its certificate asked and its     *)
(* attestation recorded exactly once, however often it was selected before it *)
(* was certified.  Exceptions are a failed request or insert, an attestation  *)
(* asked for before it was signed or just as the certificate appeared, and a  *)
(* kill; nothing repairs any of them later.                                   *)
ProbesAreWhole ==
    \A b \in Blobs :
        /\ \E k \in Relays : firstRows[b][k] > 0
        /\ stage[b] = "none"
        /\ b \notin cut
        => attested[b] = 1 /\ \A k \in keys[b] : firstRows[b][k] > 0

(* Every observed blob that has a certificate is eventually probed: the      *)
(* blobs that never get one do not keep the verifier busy for ever.          *)
CertifiedEventuallyProbed ==
    \A b \in Blobs : (b \in observed /\ keys[b] # {}) ~> Probed(b)
=============================================================================
