------------------------- MODULE OperatorRetrieval -------------------------
(***************************************************************************)
(* The OperatorVerifier's measurement of one blob (internal/worker/         *)
(* operator_verifier.go, probeAndRetrieve and probeSet) together with the   *)
(* failure counters of Discovery it reports to (internal/operator/          *)
(* discovery.go): rounds of parallel probes over a set of operators, under a *)
(* deadline, that end in a RECOVERABLE verdict, an AT_RISK verdict or none.  *)
(* The blob is measured again and again while it ages; operators drop its    *)
(* chunks at any moment, in the middle of a call too.                        *)
(***************************************************************************)
EXTENDS Integers, FiniteSets

CONSTANTS
    Operators,             \* the operators of all quorums
    MaxHeld,               \* the most chunks of the blob one operator holds
    MinChunksForRecovery,  \* minChunksForRecovery
    FetchConcurrency,      \* fetchConcurrency
    MaxProbeRetries,       \* maxProbeRetries
    GcChunksPerOpMax,      \* gcChunksPerOpMax
    BlacklistThreshold,    \* blacklistThreshold
    MaxFails               \* bound: failure counts above it are not told apart

ASSUME OperatorsAssumption == IsFiniteSet(Operators) /\ MaxHeld \in Nat
ASSUME SettingsAssumption ==
    /\ MinChunksForRecovery \in Nat \ {0}
    /\ FetchConcurrency \in Nat \ {0}
    /\ MaxProbeRetries \in Nat
    /\ GcChunksPerOpMax \in Nat
\* The code's 5 is more than the 1 + 2 rounds of a call.
ASSUME BlacklistAssumption ==
    /\ BlacklistThreshold \in Nat
    /\ BlacklistThreshold > MaxProbeRetries + 1
    /\ MaxFails \in Nat
    /\ MaxFails >= BlacklistThreshold

VARIABLES
    held,          \* held[op]: the chunks of the blob op still stores
    failCount,     \* Discovery.failCount
    pc,            \* "idle", "probe" (inside probeSet) or "verdict"
    allOperators,  \* what GetOperators returned to this call
    expired,       \* the 120 s of this call are over
    pending,       \* operators probeSet has yet to start
    inflight,      \* operators with a running goroutine
    failed,        \* operators that returned nothing in this round
    chunks, ok,            \* the results of this round
    totalChunks, okCount,  \* the results of the rounds before
    rounds,
    retrieval,     \* the row this call left in operator_retrievals, as a set
    probed,        \* operator_probes has a row about the blob
    given,         \* history: given[op] chunks came from op in this call, 0 if none
    fresh          \* history: operators without a failure when the call began

callVars == <<allOperators, expired, pending, inflight, failed, chunks, ok,
              totalChunks, okCount, rounds>>
history == <<given, fresh>>
vars == <<held, failCount, pc, callVars, retrieval, probed, history>>

\* The chunks of the operators of S, when h[op] of them are op's.
Chunks(h, S) == Cardinality({c \in S \X (1..MaxHeld) : c[2] <= h[c[1]]})

NoChunks == [op \in Operators |-> 0]

\* operatorsTotal to decodeSuccess are columns; the others are what the table
\* does not say: the chunks that exist when the row is written (enough or not), the
\* operators without a finished probe, and whether the deadline had passed.
Retrievals ==
    [operatorsTotal : 0..Cardinality(Operators),
     operatorsOK : 0..Cardinality(Operators),
     chunksCollected : Nat,
     decodeSuccess : BOOLEAN,
     decodable : BOOLEAN,
     untried : SUBSET Operators,
     cutShort : BOOLEAN]

TypeOK ==
    /\ held \in [Operators -> 0..MaxHeld]
    /\ failCount \in [Operators -> 0..MaxFails]
    /\ pc \in {"idle", "probe", "verdict"}
    /\ allOperators \subseteq Operators
    /\ expired \in BOOLEAN
    /\ pending \subseteq allOperators
    /\ inflight \subseteq allOperators
    /\ failed \subseteq allOperators
    /\ chunks \in Nat /\ ok \in Nat
    /\ totalChunks \in Nat /\ okCount \in Nat
    /\ rounds \in 0..(MaxProbeRetries + 1)
    /\ retrieval \subseteq Retrievals
    /\ probed \in BOOLEAN
    /\ given \in [Operators -> 0..MaxHeld]
    /\ fresh \subseteq Operators

\* The locals of a call that is not running.
NoCall ==
    /\ allOperators = {}
    /\ expired = FALSE
    /\ pending = {} /\ inflight = {} /\ failed = {}
    /\ chunks = 0 /\ ok = 0 /\ totalChunks = 0 /\ okCount = 0
    /\ rounds = 0
    /\ given = NoChunks

Init ==
    /\ held \in [Operators -> 0..MaxHeld]
    /\ failCount = [op \in Operators |-> 0]
    /\ pc = "idle"
    /\ NoCall
    /\ retrieval = {}
    /\ probed = FALSE
    /\ fresh = {}
-----------------------------------------------------------------------------
\* An operator drops a chunk, at any moment: decodeAgeGroups measures where they
\* do, and a call takes up to 120 s.
Collect(op) ==
    /\ held[op] > 0
    /\ held' = [held EXCEPT ![op] = @ - 1]
    /\ UNCHANGED <<failCount, pc, callVars, retrieval, probed, history>>

\* probeAndRetrieve starts; GetOperators returned S (never an empty set, but
\* not always all operators: a quorum whose query failed is missing).
ProbeAndRetrieve(S) ==
    /\ pc = "idle"
    /\ S # {}
    /\ pc' = "probe"
    /\ allOperators' = S
    /\ pending' = S
    /\ retrieval' = {}
    /\ fresh' = {op \in S : failCount[op] = 0}
    /\ UNCHANGED <<held, given, failCount, expired, inflight, failed, chunks, ok,
                   totalChunks, okCount, rounds, probed>>

\* The context of the call runs out.
Deadline ==
    /\ pc # "idle"
    /\ ~expired
    /\ expired' = TRUE
    /\ UNCHANGED <<held, failCount, pc, allOperators, pending, inflight, failed,
                   chunks, ok, totalChunks, okCount, rounds, retrieval, probed, history>>

\* The loop of probeSet gets a slot of the semaphore and starts a goroutine.
StartProbe(op) ==
    /\ pc = "probe"
    /\ op \in pending
    /\ Cardinality(inflight) < FetchConcurrency
    /\ pending' = pending \ {op}
    /\ inflight' = inflight \cup {op}
    /\ UNCHANGED <<held, failCount, pc, allOperators, expired, failed, chunks, ok,
                   totalChunks, okCount, rounds, retrieval, probed, history>>

\* ReportResult: consecutive failures, capped at MaxFails.
ReportResult(op, success) ==
    failCount' = [failCount EXCEPT ![op] = IF success THEN 0
                                           ELSE IF @ < MaxFails THEN @ + 1 ELSE @]

\* InsertOperatorProbe, on the context of the call: nothing is written once it
\* has run out, and an error is ignored.
InsertOperatorProbe ==
    \/ ~expired /\ probed' = TRUE
    \/ probed' = probed

\* The goroutine of op, up to the end, when the operator answers in time: its
\* chunks count, and an answer without chunks makes it a candidate for a retry.
Answers(op) ==
    /\ op \in inflight
    /\ ~expired
    /\ ReportResult(op, TRUE)
    /\ InsertOperatorProbe
    /\ inflight' = inflight \ {op}
    /\ given' = [given EXCEPT ![op] = held[op]]
    /\ IF held[op] > 0
       THEN chunks' = chunks + held[op] /\ ok' = ok + 1 /\ failed' = failed
       ELSE failed' = failed \cup {op} /\ UNCHANGED <<chunks, ok>>
    /\ UNCHANGED <<held, pc, allOperators, expired, pending, totalChunks, okCount,
                   rounds, retrieval, fresh>>

\* The same when it does not: an error, its own 8 s, or the call's 120 s.
DoesNotAnswer(op) ==
    /\ op \in inflight
    /\ ReportResult(op, FALSE)
    /\ InsertOperatorProbe
    /\ inflight' = inflight \ {op}
    /\ failed' = failed \cup {op}
    /\ UNCHANGED <<held, pc, allOperators, expired, pending, chunks, ok, totalChunks,
                   okCount, rounds, retrieval, history>>

\* Faulty variant: one round too many.
LeavesLate(total, n) ==
    total >= MinChunksForRecovery \/ n > MaxProbeRetries + 1 \/ chunks = 0 \/ failed = {}

\* The two breaks of the loop of probeAndRetrieve, after n rounds.
LeavesLoop(total, n) ==
    total >= MinChunksForRecovery \/ n > MaxProbeRetries \/ chunks = 0 \/ failed = {}

\* Faulty variant: a retry probes all operators again.
RetryAll == allOperators

\* The operators of the next round: those that returned nothing.
RetrySet == failed

\* Faulty variant: only the rounds that found chunks count, and no other ends the loop.
EndRoundUncounted ==
    /\ pc = "probe"
    /\ pending = {} /\ inflight = {}
    /\ totalChunks' = totalChunks + chunks
    /\ okCount' = okCount + ok
    /\ rounds' = IF chunks > 0 THEN rounds + 1 ELSE rounds
    /\ IF totalChunks' >= MinChunksForRecovery \/ rounds' > MaxProbeRetries \/ failed = {}
       THEN pc' = "verdict" /\ UNCHANGED <<pending, failed, chunks, ok>>
       ELSE /\ pending' = failed
            /\ failed' = {} /\ chunks' = 0 /\ ok' = 0
            /\ pc' = pc
    /\ UNCHANGED <<held, failCount, allOperators, expired, inflight, retrieval, probed, history>>

\* probeSet returns after wg.Wait; the loop of probeAndRetrieve leaves or goes on.
EndRound ==
    /\ pc = "probe"
    /\ pending = {} /\ inflight = {}
    /\ totalChunks' = totalChunks + chunks
    /\ okCount' = okCount + ok
    /\ rounds' = rounds + 1
    /\ IF LeavesLoop(totalChunks', rounds')
       THEN pc' = "verdict" /\ UNCHANGED <<pending, failed, chunks, ok>>
       ELSE /\ pending' = RetrySet
            /\ failed' = {} /\ chunks' = 0 /\ ok' = 0
            /\ pc' = pc
    /\ UNCHANGED <<held, failCount, allOperators, expired, inflight, retrieval, probed, history>>
-----------------------------------------------------------------------------
\* Faulty variant: the chunks of the last round are added a second time.
RecoverableOvercounted == totalChunks + chunks >= MinChunksForRecovery

Recoverable == totalChunks >= MinChunksForRecovery

\* chunksPerOk >= gcChunksPerOpMax, where chunksPerOk is 0.0 if okCount is 0.
Inconclusive ==
    /\ ~Recoverable
    /\ IF okCount > 0 THEN totalChunks >= GcChunksPerOpMax * okCount
                      ELSE GcChunksPerOpMax = 0

Row ==
    [operatorsTotal |-> Cardinality(allOperators),
     operatorsOK |-> okCount,
     chunksCollected |-> totalChunks,
     decodeSuccess |-> Recoverable,
     decodable |-> Chunks(held, Operators) >= MinChunksForRecovery,
     untried |-> pending \cup inflight,
     cutShort |-> expired]

\* Faulty variant: the list of operators to retry outlives the call.
ReturnWithFailed ==
    /\ pc' = "idle"
    /\ allOperators' = {}
    /\ expired' = FALSE
    /\ pending' = {} /\ inflight' = {} /\ failed' = failed
    /\ chunks' = 0 /\ ok' = 0 /\ totalChunks' = 0 /\ okCount' = 0
    /\ rounds' = 0
    /\ given' = NoChunks

\* probeAndRetrieve returns.
ReturnFromCall ==
    /\ pc' = "idle"
    /\ allOperators' = {}
    /\ expired' = FALSE
    /\ pending' = {} /\ inflight' = {} /\ failed' = {}
    /\ chunks' = 0 /\ ok' = 0 /\ totalChunks' = 0 /\ okCount' = 0
    /\ rounds' = 0
    /\ given' = NoChunks

\* A measurement miss is logged and not recorded.
Drop ==
    /\ pc = "verdict"
    /\ Inconclusive
    /\ ReturnFromCall
    /\ UNCHANGED <<held, failCount, retrieval, probed, fresh>>

\* Faulty variant: the insert uses the context of the worker.
RecordOnParentContext ==
    /\ pc = "verdict"
    /\ ~Inconclusive
    /\ retrieval' = {Row}
    /\ ReturnFromCall
    /\ UNCHANGED <<held, failCount, probed, fresh>>

\* InsertOperatorRetrieval, on the context of the call.
Record ==
    /\ pc = "verdict"
    /\ ~Inconclusive
    /\ ~expired
    /\ retrieval' = {Row}
    /\ ReturnFromCall
    /\ UNCHANGED <<held, failCount, probed, fresh>>

\* The insert fails; its error is ignored.
RecordFails ==
    /\ pc = "verdict"
    /\ ~Inconclusive
    /\ ReturnFromCall
    /\ UNCHANGED <<held, failCount, retrieval, probed, fresh>>

\* The process is killed and started again: the counters are in memory.
Crash ==
    /\ pc # "idle"
    /\ ReturnFromCall
    /\ failCount' = [op \in Operators |-> 0]
    /\ fresh' = {}
    /\ UNCHANGED <<held, retrieval, probed>>

Next ==
    \/ \E op \in Operators : Collect(op)
    \/ \E S \in SUBSET Operators : ProbeAndRetrieve(S)
    \/ Deadline
    \/ \E op \in Operators : StartProbe(op)
    \/ \E op \in Operators : Answers(op)
    \/ \E op \in Operators : DoesNotAnswer(op)
    \/ EndRound
    \/ Drop
    \/ Record
    \/ RecordFails
    \/ Crash

Spec == Init /\ [][Next]_vars

(* The goroutine of the call runs on (its statement at the end returns, with *)
(* an error if need be), and the goroutines of a round end, after 8 s at the *)
(* latest.                                                                   *)
Fairness ==
    /\ WF_vars((\E op \in Operators : StartProbe(op)) \/ EndRound
                   \/ Drop \/ Record \/ RecordFails)
    /\ WF_vars(\E op \in Operators : Answers(op) \/ DoesNotAnswer(op))

FairSpec == Spec /\ Fairness
-----------------------------------------------------------------------------
\* The operators that gave their chunks to the running call.
Contributed == allOperators \ (pending \cup inflight \cup failed)

(* The tallies count every operator once: across the rounds of a call they   *)
(* are the chunks that the operators that contributed gave, each when it      *)
(* answered, and the number of those.  (In the verdict the results of the     *)
(* last round are in the totals.)                                            *)
TalliesAreExact ==
    /\ pc = "probe" => /\ totalChunks + chunks = Chunks(given, Contributed)
                       /\ okCount + ok = Cardinality(Contributed)
    /\ pc = "verdict" => /\ totalChunks = Chunks(given, Contributed)
                         /\ okCount = Cardinality(Contributed)

(* A recorded verdict rests on a whole measurement: no operator of the set   *)
(* was still to be probed or still being probed, and the deadline of the     *)
(* call, after which every probe fails by itself, had not passed.            *)
VerdictIsMeasured == \A r \in retrieval : r.untried = {} /\ ~r.cutShort

(* The row of a measurement is made of what the operators held, each at the   *)
(* moment it answered and each at most once: rounds, retries, goroutines, the *)
(* deadline, a chunk dropped meanwhile, a failed insert and a kill never mix  *)
(* into it what belongs to another call or to an operator without chunks, and *)
(* a verdict against the blob follows from few chunks per answer, or no       *)
(* answer.                                                                   *)
LatestVerdict ==
    {[operatorsTotal |-> r.operatorsTotal, operatorsOK |-> r.operatorsOK,
      chunksCollected |-> r.chunksCollected, decodeSuccess |-> r.decodeSuccess] :
        r \in retrieval}
Measurement ==
    INSTANCE BlobMeasurement WITH sample <- given, verdict <- LatestVerdict
MeasurementSpec == Measurement!Spec

(* What IsBlacklisted, and through it the operator status worker, calls dead. *)
IsBlacklisted(op) == failCount[op] >= BlacklistThreshold

(* One blob is not enough to declare an operator dead: an operator without a *)
(* failure when the call began is not blacklisted by the retries of the call. *)
OneCallNeverBlacklists ==
    pc # "idle" => \A op \in fresh : ~IsBlacklisted(op)

(* Every call comes to an end: the loop that makes them gets back its turn   *)
(* again and again.                                                         *)
CallEnds == []<>(pc = "idle")

(* "a NOT-recoverable verdict must mean the DA lost the data, never 'we      *)
(* failed to reach an operator'" (operator_verifier.go, on maxProbeRetries):  *)
(* asked here only of calls that were given every operator.                   *)
AtRiskMeansLost ==
    \A r \in retrieval :
        ~r.decodeSuccess /\ r.operatorsTotal = Cardinality(Operators)
            => ~r.decodable
=============================================================================
