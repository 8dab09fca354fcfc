-------------------------- MODULE BlobMeasurement --------------------------
(***************************************************************************)
(* What the measurement of a blob promises the readers of                    *)
(* eigenda.operator_retrievals: although it takes rounds of parallel probes, *)
(* retries and up to two minutes in which operators go on dropping chunks,   *)
(* the row is made of one sample of each operator, what it held when it      *)
(* answered.  (Of no single moment: the operators answer at different ones.) *)
(* Nothing is said about goroutines, rounds, deadlines or kills:             *)
(* OperatorRetrieval implements this specification.                          *)
(***************************************************************************)
EXTENDS Integers, FiniteSets

CONSTANTS Operators, MaxHeld, MinChunksForRecovery, GcChunksPerOpMax

VARIABLES held,      \* held[op]: the chunks of the blob op still stores
          sample,    \* sample[op]: what op gave to this measurement, 0 if nothing
          verdict    \* the latest row about the blob, as a set: {} while there is none

vars == <<held, sample, verdict>>

NoSample == [op \in Operators |-> 0]

\* The operators with a sample, and the chunks in all samples.
Sampled == {op \in Operators : sample[op] > 0}
SampledChunks == Cardinality({c \in Sampled \X (1..MaxHeld) : c[2] <= sample[c[1]]})

Init ==
    /\ held \in [Operators -> 0..MaxHeld]
    /\ sample = NoSample
    /\ verdict = {}

\* An operator deletes a chunk, at any moment.
Collect(op) ==
    /\ held[op] > 0
    /\ held' = [held EXCEPT ![op] = @ - 1]
    /\ UNCHANGED <<sample, verdict>>

\* Another measurement begins, without anything from the one before.
Begin ==
    /\ sample = NoSample
    /\ verdict' = {}
    /\ UNCHANGED <<held, sample>>

\* An operator gives what it holds now, and once.
Sample(op) ==
    /\ sample[op] = 0
    /\ held[op] > 0
    /\ sample' = [sample EXCEPT ![op] = held[op]]
    /\ UNCHANGED <<held, verdict>>

\* The measurement is given up without a row.
Abandon ==
    /\ sample' = NoSample
    /\ UNCHANGED <<held, verdict>>

\* The row about the operators of S.  A verdict against the blob rests on
\* answers of few chunks each, or on none at all.
Conclude(S) ==
    /\ Sampled \subseteq S
    /\ \/ SampledChunks >= MinChunksForRecovery
       \/ SampledChunks < GcChunksPerOpMax * Cardinality(Sampled)
       \/ Sampled = {}
    /\ verdict' = {[operatorsTotal |-> Cardinality(S),
                    operatorsOK |-> Cardinality(Sampled),
                    chunksCollected |-> SampledChunks,
                    decodeSuccess |-> SampledChunks >= MinChunksForRecovery]}
    /\ sample' = NoSample
    /\ UNCHANGED held

Next ==
    \/ \E op \in Operators : Collect(op) \/ Sample(op)
    \/ Begin
    \/ Abandon
    \/ \E S \in SUBSET Operators : Conclude(S)

Spec == Init /\ [][Next]_vars
=============================================================================
