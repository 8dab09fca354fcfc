------------------------- MODULE OperatorDiscovery -------------------------
(***************************************************************************)
(* Discovery.GetOperators (internal/operator/discovery.go): the operator set *)
(* read from the IndexRegistry contract, one call per quorum and per index,   *)
(* and kept for an hour.  It is shared by the OperatorVerifier, the            *)
(* StakeIndexer and the OperatorStatusWorker, which may all read it at once,   *)
(* while operators register, leave and are ejected.                            *)
(***************************************************************************)
EXTENDS Integers, Sequences, SequencesExt

CONSTANTS
    Operators,
    Socketless,   \* operators that registered an empty socket
    NumQuorums,   \* the quorums that exist; the loop tries 10
    Callers       \* the workers that call GetOperators

ASSUME OperatorsAssumption == Socketless \subseteq Operators
ASSUME QuorumsAssumption == NumQuorums \in 1..10

VARIABLES
    registry,    \* registry[q]: the operators of quorum q, by index (external)
    cache,       \* Discovery.cache
    fresh,       \* the cache is younger than its ttl
    pc,          \* pc[c]: "idle", "total" or "index"
    quorum,      \* quorum[c]: the quorum the call is reading
    total,       \* total[c]: totalOps of that quorum
    index,       \* index[c]: the next index
    operators,   \* operators[c]: what fetchOperators has collected
    found,       \* found[c]: allOperators, which the call returns
    owed         \* history: owed[c]: operators the call has no excuse for missing

callVars == <<pc, quorum, total, index, operators, found>>
vars == <<registry, cache, fresh, callVars, owed>>

Quorums == 1..NumQuorums
Registered == UNION {Range(registry[q]) : q \in Quorums}

TypeOK ==
    /\ registry \in [Quorums -> Seq(Operators)]
    /\ cache \in Seq(Operators)
    /\ fresh \in BOOLEAN
    /\ pc \in [Callers -> {"idle", "total", "index"}]
    /\ quorum \in [Callers -> 1..(NumQuorums + 1)]
    /\ total \in [Callers -> Nat]
    /\ index \in [Callers -> Nat \ {0}]
    /\ operators \in [Callers -> Seq(Operators)]
    /\ found \in [Callers -> Seq(Operators)]
    /\ owed \in [Callers -> SUBSET Operators]

Init ==
    /\ registry = [q \in Quorums |-> <<>>]
    /\ cache = <<>> /\ fresh = FALSE
    /\ pc = [c \in Callers |-> "idle"]
    /\ quorum = [c \in Callers |-> 1]
    /\ total = [c \in Callers |-> 0]
    /\ index = [c \in Callers |-> 1]
    /\ operators = [c \in Callers |-> <<>>]
    /\ found = [c \in Callers |-> <<>>]
    /\ owed = [c \in Callers |-> {}]
-----------------------------------------------------------------------------
(* The contract: an operator registers at the end, and the last one takes    *)
(* the index of one that leaves or is ejected.                                *)

Register(o, q) ==
    /\ o \notin Range(registry[q])
    /\ registry' = [registry EXCEPT ![q] = Append(@, o)]
    /\ UNCHANGED <<cache, fresh, callVars, owed>>

Deregister(i, q) ==
    /\ i \in DOMAIN registry[q]
    /\ LET listed == registry[q]
       IN  registry' = [registry EXCEPT ![q] = Front([listed EXCEPT ![i] = Last(listed)])]
    /\ owed' = [c \in Callers |-> owed[c] \ {registry[q][i], Last(registry[q])}]
    /\ UNCHANGED <<cache, fresh, callVars>>

\* An hour passes.
Expire ==
    /\ fresh
    /\ fresh' = FALSE
    /\ UNCHANGED <<registry, cache, callVars, owed>>
-----------------------------------------------------------------------------
CacheHit == cache # <<>> /\ fresh

\* GetOperators goes through the quorums.  With a cache hit it returns a copy of
\* the cache and changes nothing.  (The order, by failures, is left out.)
StartFetch(c) ==
    /\ pc[c] = "idle"
    /\ ~CacheHit
    /\ pc' = [pc EXCEPT ![c] = "total"]
    /\ owed' = [owed EXCEPT ![c] = Registered \ Socketless]
    /\ UNCHANGED <<registry, cache, fresh, quorum, total, index, operators, found>>

\* totalOperatorsForQuorum of an existing quorum.
ReadTotal(c) ==
    /\ pc[c] = "total"
    /\ quorum[c] \in Quorums
    /\ total' = [total EXCEPT ![c] = Len(registry[quorum[c]])]
    /\ pc' = [pc EXCEPT ![c] = "index"]
    /\ UNCHANGED <<registry, cache, fresh, quorum, index, operators, found, owed>>

\* Faulty variant: the zero operator of an index given up is not left out.
ReadIndexUnchecked(c) ==
    /\ pc[c] = "index"
    /\ index[c] <= total[c]
    /\ LET listed == registry[quorum[c]]
       IN  operators' = [operators EXCEPT ![c] =
                            Append(@, IF index[c] <= Len(listed) THEN listed[index[c]] ELSE "")]
    /\ index' = [index EXCEPT ![c] = @ + 1]
    /\ UNCHANGED <<registry, cache, fresh, pc, quorum, total, found, owed>>

\* getOperatorAtIndex: an index given up meanwhile holds no operator, and an
\* operator without a socket is left out.
ReadIndex(c) ==
    /\ pc[c] = "index"
    /\ index[c] <= total[c]
    /\ LET listed == registry[quorum[c]]
       IN  operators' = IF index[c] <= Len(listed) /\ listed[index[c]] \notin Socketless
                        THEN [operators EXCEPT ![c] = Append(@, listed[index[c]])]
                        ELSE operators
    /\ index' = [index EXCEPT ![c] = @ + 1]
    /\ UNCHANGED <<registry, cache, fresh, pc, quorum, total, found, owed>>

\* A failing call skips the index.
SkipIndex(c) ==
    /\ pc[c] = "index"
    /\ index[c] <= total[c]
    /\ index' = [index EXCEPT ![c] = @ + 1]
    /\ owed' = [owed EXCEPT ![c] =
                   @ \ {registry[quorum[c]][i] : i \in {index[c]} \cap DOMAIN registry[quorum[c]]}]
    /\ UNCHANGED <<registry, cache, fresh, pc, quorum, total, operators, found>>

\* Faulty variant: the operators of the quorums are put one after the other.
MergeAll(all, ops) == all \o ops

\* Faulty variant: the operators of the last quorum replace the others.
MergeReplaces(all, ops) == IF ops = <<>> THEN all ELSE ops

\* The operators of ops that are not in all yet, each once, at the end of all.
Merge(all, ops) ==
    FoldLeft(LAMBDA acc, o : IF Contains(acc, o) THEN acc ELSE Append(acc, o), all, ops)

\* fetchOperators returns, its operators are added and the next quorum is read.
EndQuorum(c) ==
    /\ pc[c] = "index"
    /\ index[c] > total[c]
    /\ found' = [found EXCEPT ![c] = Merge(@, operators[c])]
    /\ quorum' = [quorum EXCEPT ![c] = @ + 1]
    /\ pc' = [pc EXCEPT ![c] = "total"]
    /\ total' = [total EXCEPT ![c] = 0]
    /\ index' = [index EXCEPT ![c] = 1]
    /\ operators' = [operators EXCEPT ![c] = <<>>]
    /\ UNCHANGED <<registry, cache, fresh, owed>>

\* The total of a quorum is not answered, because it does not exist or because
\* the call failed: the loop ends.  An empty set is an error, any other is cached.
EndFetch(c) ==
    /\ pc[c] = "total"
    /\ pc' = [pc EXCEPT ![c] = "idle"]
    /\ IF found[c] = <<>> THEN UNCHANGED <<cache, fresh>>
                          ELSE cache' = found[c] /\ fresh' = TRUE
    /\ quorum' = [quorum EXCEPT ![c] = 1]
    /\ found' = [found EXCEPT ![c] = <<>>]
    /\ owed' = [owed EXCEPT ![c] = {}]
    /\ UNCHANGED <<registry, total, index, operators>>

Next ==
    \/ \E o \in Operators, q \in Quorums : Register(o, q)
    \/ \E q \in Quorums : \E i \in DOMAIN registry[q] : Deregister(i, q)
    \/ Expire
    \/ \E c \in Callers : StartFetch(c)
    \/ \E c \in Callers : ReadTotal(c)
    \/ \E c \in Callers : ReadIndex(c)
    \/ \E c \in Callers : SkipIndex(c)
    \/ \E c \in Callers : EndQuorum(c)
    \/ \E c \in Callers : EndFetch(c)

Spec == Init /\ [][Next]_vars
-----------------------------------------------------------------------------
(* What the OperatorVerifier's tallies rely on: no operator comes twice, in  *)
(* the cache or in what a call returns, although it may be in several         *)
(* quorums and may change its index while the quorum is being read.           *)
NoDuplicates ==
    /\ IsInjective(cache)
    /\ \A c \in Callers : IsInjective(found[c])

\* The operators of the quorums a call has not read.
Unread(c) == UNION {Range(registry[q]) : q \in {p \in Quorums : p >= quorum[c]}}

(* The set is short of an operator only for a reason: one that has a socket, *)
(* was registered when the call began, has kept its place since and was not   *)
(* skipped by a failed call is in the set as soon as its quorum is read.      *)
(* What a call returns misses, besides, the quorums after a failed total.     *)
OmissionsAreExplained ==
    \A c \in Callers :
        pc[c] = "total" => owed[c] \subseteq Range(found[c]) \cup Unread(c)
=============================================================================
