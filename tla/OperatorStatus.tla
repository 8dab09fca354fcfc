--------------------------- MODULE OperatorStatus ---------------------------
(***************************************************************************)
(* The OperatorStatusWorker (internal/worker/operator_status_worker.go), the *)
(* failure counters of Discovery it reads, the client that resolves the name *)
(* of an operator from the chain (internal/eigenexplorer/client.go), and the *)
(* queries over eigenda.operator_status_snapshots.  The table only grows;    *)
(* its readers take the latest row of each operator.                         *)
(***************************************************************************)
EXTENDS Integers, FiniteSets

CONSTANTS
    Operators,
    Named,        \* the operators that ever publish a metadata URI
    NoOperator,
    Threshold,    \* blacklistThreshold
    MaxFails,     \* where the counters are capped
    Ranges,       \* the number of block ranges FetchMetadataURI tries
    MaxVersion,   \* bound on the URIs an operator publishes
    MaxKills      \* bound on the restarts

ASSUME OperatorsAssumption ==
    /\ IsFiniteSet(Operators)
    /\ Named \subseteq Operators /\ NoOperator \notin Operators
ASSUME BoundsAssumption ==
    /\ Threshold \in Nat \ {0} /\ MaxFails \in Nat /\ MaxFails >= Threshold
    /\ Ranges \in Nat \ {0} /\ MaxVersion \in Nat /\ MaxKills \in Nat

VARIABLES
    failCount,  \* Discovery.failCount
    uri,        \* uri[op]: the latest URI op has published, a version; 0 is none
    \* the worker
    todo,       \* the operators of the snapshot the loop has yet to come to
    stage,      \* what it is doing for op
    op,         \* the operator it is at, NoOperator between two
    status,     \* what it found: "active" or "dead"
    seen,       \* the URI of the latest event up to latestBlock
    tried,      \* the ranges FetchMetadataURI has tried
    name,       \* the version the name found so far is of, 0 for none
    \* operator_status_snapshots
    latest,     \* the latest row of each operator
    kills,      \* the restarts so far
    \* histories
    changed,    \* operators whose verdict may have changed since it was last read
    updated     \* operators that published since a row with what the chain showed was written

workerVars == <<todo, stage, op, status, seen, tried, name>>
vars == <<failCount, uri, workerVars, latest, kills, changed, updated>>

Versions == 0..MaxVersion
Statuses == {"", "active", "dead"}
NoRow == [status |-> "", name |-> 0]
Stages == {"idle", "next", "address", "logs", "document", "insert"}

TypeOK ==
    /\ failCount \in [Operators -> 0..MaxFails]
    /\ uri \in [Operators -> Versions]
    /\ todo \subseteq Operators
    /\ stage \in Stages
    /\ op \in Operators \cup {NoOperator}
    /\ (op = NoOperator) <=> (stage \in {"idle", "next"})
    /\ op \notin todo
    /\ status \in Statuses
    /\ seen \in Versions /\ tried \in 0..Ranges /\ name \in Versions
    /\ latest \in [Operators -> [status : Statuses, name : Versions]]
    /\ kills \in 0..MaxKills
    /\ changed \subseteq Operators /\ updated \subseteq Operators

Init ==
    /\ failCount = [o \in Operators |-> 0]
    /\ uri = [o \in Operators |-> 0]
    /\ todo = {} /\ stage = "idle" /\ op = NoOperator
    /\ status = "" /\ seen = 0 /\ tried = 0 /\ name = 0
    /\ latest = [o \in Operators |-> NoRow]
    /\ kills = 0
    /\ changed = Operators /\ updated = {}

IsBlacklisted(o) == failCount[o] >= Threshold
StatusOf(o) == IF IsBlacklisted(o) THEN "dead" ELSE "active"
-----------------------------------------------------------------------------
(* The environment: operators publish URIs, blocks are mined, the            *)
(* OperatorVerifier reports, and the process is killed.                      *)

Publish(o) ==
    /\ o \in Named /\ uri[o] < MaxVersion
    /\ uri' = [uri EXCEPT ![o] = @ + 1]
    /\ updated' = updated \cup {o}
    /\ UNCHANGED <<failCount, workerVars, latest, changed, kills>>

\* Discovery.ReportResult, by the OperatorVerifier.
ReportResult(o, success) ==
    /\ failCount' = [failCount EXCEPT
           ![o] = IF success THEN 0 ELSE IF @ < MaxFails THEN @ + 1 ELSE @]
    /\ changed' = IF IsBlacklisted(o) = (failCount'[o] >= Threshold)
                  THEN changed ELSE changed \cup {o}
    /\ UNCHANGED <<uri, workerVars, latest, updated, kills>>

\* The counters are in memory, and so is the place in the loop.
Crash ==
    /\ kills < MaxKills
    /\ kills' = kills + 1
    /\ failCount' = [o \in Operators |-> 0]
    /\ todo' = {} /\ stage' = "idle" /\ op' = NoOperator
    /\ status' = "" /\ seen' = 0 /\ tried' = 0 /\ name' = 0
    /\ changed' = Operators
    /\ updated' = updated \cup (Named \cap {op})
    /\ UNCHANGED <<uri, latest>>
-----------------------------------------------------------------------------
(* snapshot.                                                                 *)

\* GetOperators answered with S; an error returns without a change.
Snapshot(S) ==
    /\ stage = "idle"
    /\ S # {}
    /\ todo' = S
    /\ stage' = "next"
    /\ UNCHANGED <<failCount, uri, op, status, seen, tried, name, latest, changed, updated, kills>>

\* The status is read before the metadata is fetched, and written after.
NextOperator(o) ==
    /\ stage = "next"
    /\ o \in todo
    /\ todo' = todo \ {o}
    /\ op' = o /\ stage' = "address"
    /\ status' = StatusOf(o)
    /\ changed' = changed \ {o}
    /\ UNCHANGED <<failCount, uri, seen, tried, name, latest, updated, kills>>

\* FetchMetadata: ResolveOperatorAddress and BlockNumber answer, or the name stays
\* empty.  What the chain shows from here on is settled by the latest block.
ResolveOperatorAddress(answered) ==
    /\ stage = "address"
    /\ IF answered
       THEN /\ stage' = "logs"
            /\ seen' = uri[op]
            /\ updated' = updated \ {op}
       ELSE stage' = "insert" /\ UNCHANGED <<seen, updated>>
    /\ UNCHANGED <<failCount, uri, todo, op, status, tried, name, latest, changed, kills>>

\* Faulty variant: the first of the events in the range.
UnpackFirst(v) == v \in 1..seen

\* The last of the events in the range.
Unpack(v) == v = seen

\* FilterLogs finds the event in the range, and its URI is taken: a range that has
\* any event has the latest, as all of them end at latestBlock.
FilterLogs(v) ==
    /\ stage = "logs"
    /\ tried < Ranges
    /\ seen # 0
    /\ Unpack(v)
    /\ name' = v
    /\ stage' = "document"
    /\ UNCHANGED <<failCount, uri, todo, op, status, seen, tried, latest, changed, updated, kills>>

\* Faulty variant: one range too many.
NarrowRangePastEnd ==
    /\ stage = "logs"
    /\ tried <= Ranges
    /\ tried' = tried + 1
    /\ stage' = IF tried = Ranges THEN "insert" ELSE "logs"
    /\ UNCHANGED <<failCount, uri, todo, op, status, seen, name, latest, changed, updated, kills>>

\* The range is refused, or is too narrow for the event, or the call fails, or the
\* first block wraps around on a short chain: a narrower one is tried.
NarrowRange ==
    /\ stage = "logs"
    /\ tried < Ranges
    /\ tried' = tried + 1
    /\ stage' = IF tried + 1 = Ranges THEN "insert" ELSE "logs"
    /\ UNCHANGED <<failCount, uri, todo, op, status, seen, name, latest, changed, updated, kills>>

\* Faulty variant: an error of the document ends the snapshot.
FetchMetadataJSONReturns(answered) ==
    /\ stage = "document"
    /\ IF answered THEN stage' = "insert" /\ UNCHANGED <<todo, op, name>>
                   ELSE stage' = "idle" /\ todo' = {} /\ op' = NoOperator /\ name' = 0
    /\ UNCHANGED <<failCount, uri, status, seen, tried, latest, changed, updated, kills>>

\* The event can be unpacked and the document at the URI has a name, or none is had.
FetchMetadataJSON(answered) ==
    /\ stage = "document"
    /\ stage' = "insert"
    /\ name' = IF answered THEN name ELSE 0
    /\ UNCHANGED <<failCount, uri, todo, op, status, seen, tried, latest, changed, updated, kills>>

\* The loop goes on, or the snapshot is over.
EndOperator ==
    /\ op' = NoOperator /\ status' = "" /\ seen' = 0 /\ tried' = 0 /\ name' = 0
    /\ stage' = IF todo = {} THEN "idle" ELSE "next"

\* Faulty variant: an upsert that does nothing on a conflict.
UpsertKeepsFirst ==
    /\ stage = "insert"
    /\ latest' = IF latest[op] # NoRow THEN latest
                 ELSE [latest EXCEPT ![op] = [status |-> status, name |-> name]]
    /\ EndOperator
    /\ UNCHANGED <<failCount, uri, todo, changed, updated, kills>>

\* UpsertOperatorStatus, an INSERT whose row is the operator's latest.
UpsertOperatorStatus ==
    /\ stage = "insert"
    /\ latest' = [latest EXCEPT ![op] = [status |-> status, name |-> name]]
    /\ EndOperator
    /\ UNCHANGED <<failCount, uri, todo, changed, updated, kills>>

\* The insert fails, is logged, and the loop goes on.
UpsertFails ==
    /\ stage = "insert"
    /\ changed' = changed \cup {op}
    /\ updated' = updated \cup (Named \cap {op})
    /\ EndOperator
    /\ UNCHANGED <<failCount, uri, todo, latest, kills>>

Next ==
    \/ \E o \in Operators : Publish(o)
    \/ \E o \in Operators, success \in BOOLEAN : ReportResult(o, success)
    \/ Crash
    \/ \E S \in SUBSET Operators : Snapshot(S)
    \/ \E o \in Operators : NextOperator(o)
    \/ \E answered \in BOOLEAN : ResolveOperatorAddress(answered)
    \/ \E v \in Versions : FilterLogs(v)
    \/ NarrowRange
    \/ \E answered \in BOOLEAN : FetchMetadataJSON(answered)
    \/ UpsertOperatorStatus
    \/ UpsertFails

Spec == Init /\ [][Next]_vars

\* A step of the loop that leaves the lookup of a name behind, whatever it finds.
LookUpName ==
    \/ \E answered \in BOOLEAN : ResolveOperatorAddress(answered)
    \/ \E v \in Versions : FilterLogs(v)
    \/ NarrowRange
    \/ \E answered \in BOOLEAN : FetchMetadataJSON(answered)

(* The ticker fires for ever and every request ends; GetOperators does not   *)
(* leave an operator out every time, nor does every insert about one fail.   *)
(* No lookup of a name need ever succeed.                                    *)
Fairness ==
    /\ SF_vars(Snapshot(Operators))
    /\ WF_vars(\E o \in Operators : NextOperator(o))
    /\ WF_vars(LookUpName)
    /\ WF_vars(UpsertOperatorStatus \/ UpsertFails)
    /\ \A o \in Operators : SF_vars(op = o /\ UpsertOperatorStatus)

FairSpec == Spec /\ Fairness
-----------------------------------------------------------------------------
\* handleOperatorStatus (api/server.go): the latest row of each operator, and of
\* those the ones with the status asked for, "" for all.
HandleOperatorStatus(filter) ==
    {o \in Operators : latest[o] # NoRow /\ filter \in {"", latest[o].status}}

(* Between two operators a row that is the latest of its operator agrees     *)
(* with the failure counter, unless the verdict changed, the process was     *)
(* restarted or an insert failed since it was read: the status of one        *)
(* operator never comes from another, nor from before an answer it gave.     *)
StatusIsCurrent ==
    \A o \in Operators \ changed :
        o # op => o \in HandleOperatorStatus(StatusOf(o))

(* The name of a row is that of the operator's own latest document as of the *)
(* last look at the chain, or empty; however the ranges fail and fall back,  *)
(* an older document's name is never written over a newer one's.             *)
NameIsLatest ==
    \A o \in Operators \ updated :
        (o # op \/ stage = "address") => latest[o].name \in {0, uri[o]}

(* An operator that stays blacklisted is eventually reported dead for good,  *)
(* and one that answers again is reported active, whatever its metadata      *)
(* does.                                                                     *)
StatusCatchesUp ==
    \A o \in Operators, verdict \in {"active", "dead"} :
        <>[](StatusOf(o) = verdict) => <>[](o \in HandleOperatorStatus(verdict))
=============================================================================
