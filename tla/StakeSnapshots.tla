--------------------------- MODULE StakeSnapshots ---------------------------
(***************************************************************************)
(* The StakeIndexer (internal/worker/stake_indexer.go): for each quorum in   *)
(* turn it asks the StakeRegistry for the stake of every operator, one call   *)
(* per operator, and leaves the sum, the number and the concentration in      *)
(* eigenda.stake_snapshots.  Stakes change between the calls, calls and       *)
(* inserts fail one by one, and the process may be killed in between.         *)
(***************************************************************************)
EXTENDS Integers, FiniteSets, Folds

CONSTANTS
    Operators,
    Stakes,       \* the amounts an operator may have at stake in a quorum
    NumQuorums,   \* 3: the loop goes from quorum 0 to 2
    MaxKills      \* bound on the kills of the process

ASSUME OperatorsAssumption == IsFiniteSet(Operators)
ASSUME StakesAssumption == IsFiniteSet(Stakes) /\ Stakes \subseteq Nat /\ Stakes # {}
ASSUME QuorumsAssumption == NumQuorums \in Nat \ {0} /\ MaxKills \in Nat

VARIABLES
    stake,       \* stake[o]: what o has at stake in the quorum being read (external)
    pc,          \* "idle", "read" (the loop over the operators) or "parts"
    operators,   \* what GetOperators returned
    quorum,
    todo,        \* the operators the loop has yet to ask
    stakes,      \* stakes[o]: what the loop has appended for o, 0 if nothing
    totalStake,
    snapshots,   \* the row this turn has left in stake_snapshots, as a set
    seen,        \* history: seen[o]: the stakes o has had since this turn began
    failed,      \* history: the operators whose call failed in this turn
    kills        \* the kills so far

locals == <<operators, quorum, todo, stakes, totalStake>>
vars == <<stake, pc, locals, snapshots, seen, failed, kills>>

Quorums == 0..(NumQuorums - 1)

\* The sum of f[o] for o in S.
Total(f, S) == MapThenFoldSet(+, 0, LAMBDA o : f[o], LAMBDA T : CHOOSE o \in T : TRUE, S)

\* The HHI is squares / total^2, times 10000.
Snapshots == [quorum : Quorums, total : Nat, count : Nat, squares : Nat]

TypeOK ==
    /\ stake \in [Operators -> Stakes]
    /\ pc \in {"idle", "read", "parts"}
    /\ operators \subseteq Operators
    /\ quorum \in Quorums
    /\ todo \subseteq operators
    /\ stakes \in [Operators -> Stakes \cup {0}]
    /\ totalStake \in Nat
    /\ snapshots \subseteq Snapshots /\ Cardinality(snapshots) <= 1
    /\ seen \in [Operators -> SUBSET Stakes]
    /\ failed \subseteq operators
    /\ kills \in 0..MaxKills

\* The variables of a worker that waits for its ticker.
Waiting ==
    /\ pc = "idle"
    /\ operators = {} /\ quorum = 0 /\ todo = {}
    /\ stakes = [o \in Operators |-> 0] /\ totalStake = 0
    /\ snapshots = {}
    /\ seen = [o \in Operators |-> {}] /\ failed = {}

Init ==
    /\ stake \in [Operators -> Stakes]
    /\ Waiting
    /\ kills = 0
-----------------------------------------------------------------------------
\* An operator's stake changes.
ChangeStake(o, amount) ==
    /\ pc = "read"
    /\ stake[o] # amount
    /\ stake' = [stake EXCEPT ![o] = amount]
    /\ seen' = [seen EXCEPT ![o] = @ \cup {amount}]
    /\ UNCHANGED <<pc, locals, snapshots, failed, kills>>

\* Faulty variant: the sum is declared before the loop over the quorums.
BeginQuorumKeepsSum(S, q) ==
    /\ pc' = "read"
    /\ operators' = S /\ quorum' = q /\ todo' = S
    /\ stake' \in [Operators -> Stakes]
    /\ stakes' = [o \in Operators |-> 0] /\ UNCHANGED totalStake
    /\ snapshots' = {}
    /\ seen' = [o \in Operators |-> {stake'[o]}] /\ failed' = {}

\* A turn of the loop over the quorums; another quorum has other stakes.
BeginQuorum(S, q) ==
    /\ pc' = "read"
    /\ operators' = S /\ quorum' = q /\ todo' = S
    /\ stake' \in [Operators -> Stakes]
    /\ stakes' = [o \in Operators |-> 0] /\ totalStake' = 0
    /\ snapshots' = {}
    /\ seen' = [o \in Operators |-> {stake'[o]}] /\ failed' = {}

\* snapshot begins; GetOperators, which fails rather than return no operator,
\* has returned S.  When it fails nothing changes.
Snapshot(S) ==
    /\ pc = "idle"
    /\ S # {}
    /\ BeginQuorum(S, 0)
    /\ UNCHANGED kills

\* GetCurrentStake is answered; a stake of 0 is left out.
ReadStake(o) ==
    /\ pc = "read"
    /\ o \in todo
    /\ todo' = todo \ {o}
    /\ stakes' = [stakes EXCEPT ![o] = stake[o]]
    /\ totalStake' = totalStake + stake[o]
    /\ UNCHANGED <<stake, pc, operators, quorum, snapshots, seen, failed, kills>>

\* It fails, and the loop goes on.
SkipOperator(o) ==
    /\ pc = "read"
    /\ o \in todo
    /\ todo' = todo \ {o}
    /\ failed' = failed \cup {o}
    /\ UNCHANGED <<stake, pc, operators, quorum, stakes, totalStake, snapshots, seen, kills>>

\* snapshot returns, and the worker waits for the next tick.
Return ==
    /\ pc' = "idle"
    /\ operators' = {} /\ quorum' = 0 /\ todo' = {}
    /\ stakes' = [o \in Operators |-> 0] /\ totalStake' = 0
    /\ snapshots' = {}
    /\ seen' = [o \in Operators |-> {}] /\ failed' = {}
    /\ UNCHANGED stake

\* Faulty variant: one quorum too many.
NextQuorumPastEnd ==
    IF quorum < NumQuorums THEN BeginQuorum(operators, quorum + 1) ELSE Return

\* The next turn of the loop over the quorums, if there is one.
NextQuorum ==
    IF quorum + 1 \in Quorums THEN BeginQuorum(operators, quorum + 1) ELSE Return

\* Faulty variant: a quorum without stake ends the snapshot.
EmptyQuorumReturns ==
    /\ pc = "read"
    /\ todo = {}
    /\ totalStake = 0
    /\ Return
    /\ UNCHANGED kills

\* No operator has been found to have stake in the quorum.
EmptyQuorum ==
    /\ pc = "read"
    /\ todo = {}
    /\ totalStake = 0
    /\ NextQuorum
    /\ UNCHANGED kills

\* The total, the number of stakes and their concentration.
Row ==
    [quorum |-> quorum,
     total |-> totalStake,
     count |-> Cardinality({o \in Operators : stakes[o] > 0}),
     squares |-> Total([o \in Operators |-> stakes[o] * stakes[o]], Operators)]

\* InsertStakeSnapshot.  Whether it fails or not, the rows of the operators follow.
InsertStakeSnapshot(inserted) ==
    /\ pc = "read"
    /\ todo = {}
    /\ totalStake > 0
    /\ snapshots' = IF inserted THEN {Row} ELSE {}
    /\ pc' = "parts"
    /\ UNCHANGED <<stake, locals, seen, failed, kills>>

\* InsertStakeSnapshotOperator for each of them.  The statement gives no
\* snapshot_time, which is NOT NULL and has no default: it fails every time, and
\* the error is logged.  So stake_snapshot_operators, which stays empty, is no
\* variable, and the loop only goes on to the next quorum.
InsertStakeSnapshotOperators ==
    /\ pc = "parts"
    /\ NextQuorum
    /\ UNCHANGED kills

\* The process is killed and started again.
Crash ==
    /\ pc # "idle"
    /\ kills < MaxKills
    /\ kills' = kills + 1
    /\ Return

Next ==
    \/ \E o \in Operators, amount \in Stakes : ChangeStake(o, amount)
    \/ \E S \in SUBSET Operators : Snapshot(S)
    \/ \E o \in Operators : ReadStake(o)
    \/ \E o \in Operators : SkipOperator(o)
    \/ EmptyQuorum
    \/ \E inserted \in BOOLEAN : InsertStakeSnapshot(inserted)
    \/ InsertStakeSnapshotOperators
    \/ Crash

Spec == Init /\ [][Next]_vars

(* The ticker goes on, every call returns, and GetOperators does not fail    *)
(* for ever.  No call and no insert need ever succeed.                        *)
Fairness ==
    /\ WF_vars(\E S \in SUBSET Operators : Snapshot(S))
    /\ WF_vars(\E o \in Operators : ReadStake(o) \/ SkipOperator(o))
    /\ WF_vars(EmptyQuorum \/ \E inserted \in BOOLEAN : InsertStakeSnapshot(inserted))
    /\ WF_vars(InsertStakeSnapshotOperators)

FairSpec == Spec /\ Fairness
-----------------------------------------------------------------------------
(* The row of a quorum is made of nothing but the stakes of its operators    *)
(* while that quorum was read: each operator of the set whose call did not    *)
(* fail counts once, with a stake it had in the meantime; the number, the sum *)
(* and the concentration are of the same stakes; and nothing is left over     *)
(* from another quorum, a failed insert or an earlier snapshot.               *)
SnapshotIsExplained ==
    \A r \in snapshots :
        \E f \in [Operators -> Stakes \cup {0}] :
            /\ \A o \in operators \ failed : f[o] \in seen[o]
            /\ \A o \in (Operators \ operators) \cup failed : f[o] = 0
            /\ r.quorum = quorum
            /\ r.total = Total(f, Operators)
            /\ r.count = Cardinality({o \in Operators : f[o] > 0})
            /\ r.squares = Total([o \in Operators |-> f[o] * f[o]], Operators)

(* Every quorum has its turn again and again, and the reading of its stakes  *)
(* comes to an end: neither quorums without stake nor failed calls and        *)
(* inserts keep the later quorums from being read.                            *)
EveryQuorumRead ==
    \A q \in Quorums : []<>(pc = "read" /\ quorum = q /\ todo = {})
=============================================================================
