-------------------------- MODULE EjectionIndexer --------------------------
(***************************************************************************)
(* The EjectionIndexer worker (internal/worker/ejection_indexer.go): one    *)
(* goroutine that polls an Ethereum node for OperatorEjected logs and keeps  *)
(* its progress in eigenda.indexer_cursors, against a chain that grows and   *)
(* reorganises, nodes that lag, a database that fails and a process that     *)
(* may be killed between any two statements.                                 *)
(***************************************************************************)
EXTENDS Integers

CONSTANTS
    Events,          \* OperatorEjected logs, each standing for its (tx hash, log index);
                     \* numbers, in the order a block lists the ones it holds
    Malformed,       \* the logs that carry fewer than two topics
    FinalityBlocks,  \* finalityBlocks
    MaxBlockRange,   \* maxBlockRange
    MaxLag,          \* how far behind the chain an answering node may be
    MaxHead          \* bound on the height of the chain

ASSUME EventsAssumption == Events \subseteq Nat /\ Malformed \subseteq Events
ASSUME ParametersAssumption ==
    /\ FinalityBlocks \in Nat
    /\ MaxBlockRange \in Nat
    /\ MaxHead \in Nat
\* The node that answers eth_getLogs is allowed to be stale, but by no more
\* than the blocks the indexer keeps clear of the head.
ASSUME LagAssumption == MaxLag \in 0..FinalityBlocks

VARIABLES
    head,      \* height of the canonical chain
    block,     \* block[e]: where the canonical chain has event e, 0 if nowhere
    cursor,    \* eigenda.indexer_cursors.last_block, 0 without a row
    rows,      \* eigenda.ejection_events
    pc,        \* where poll stands: "idle", "filter" or "insert"
    toBlock,   \* the local toBlock
    logs,      \* the local logs, without the ones the loop is done with
    lost       \* history: events whose latest attempt ended without a row

chain == <<head, block>>
vars == <<head, block, cursor, rows, pc, toBlock, logs, lost>>

Heights == 0..MaxHead
Logs == [event : Events, block : Heights]
Rows == [event : Events, block : Heights, time : {"block", "now"}]

TypeOK ==
    /\ head \in Heights
    /\ block \in [Events -> Heights]
    /\ cursor \in Heights
    /\ rows \subseteq Rows
    /\ pc \in {"idle", "filter", "insert"}
    /\ toBlock \in Heights
    /\ logs \subseteq Logs
    /\ lost \subseteq Events

Recorded == {r.event : r \in rows}
Final(e) == block[e] # 0 /\ block[e] <= head - FinalityBlocks

Init ==
    /\ head = 0
    /\ block = [e \in Events |-> 0]
    /\ cursor = 0
    /\ rows = {}
    /\ pc = "idle"
    /\ toBlock = 0
    /\ logs = {}
    /\ lost = {}
-----------------------------------------------------------------------------
(* The chain.                                                               *)

\* A block is added; it carries some of the events that are not on the chain.
Mine ==
    /\ head < MaxHead
    /\ head' = head + 1
    /\ \E S \in SUBSET {e \in Events : block[e] = 0} :
          block' = [e \in Events |-> IF e \in S THEN head + 1 ELSE block[e]]
    /\ UNCHANGED <<cursor, rows, pc, toBlock, logs, lost>>

\* The blocks that are not final are replaced: their events move or vanish.
Reorg ==
    /\ \E b \in [Events -> 0..head] :
          /\ \A e \in Events :
                IF Final(e) THEN b[e] = block[e]
                            ELSE b[e] = 0 \/ b[e] > head - FinalityBlocks
          /\ block' = b
    /\ UNCHANGED <<head, cursor, rows, pc, toBlock, logs, lost>>
-----------------------------------------------------------------------------
(* The poll.  A failing read of the cursor or of the block number returns   *)
(* with nothing changed, as does safeHead <= cursor; neither is a step.      *)

\* Faulty variant: the range is not cut off at the safe head.
RangeEndUnclamped(safeHead) == cursor + 1 + MaxBlockRange

\* The last block of the queried range: at most MaxBlockRange + 1 blocks.
RangeEnd(safeHead) ==
    LET fromBlock == cursor + 1
    IN  IF safeHead - fromBlock > MaxBlockRange THEN fromBlock + MaxBlockRange
                                                ELSE safeHead

\* Faulty variant: no early return when there is nothing new.
PollUnguarded(h) ==
    /\ pc = "idle"
    /\ toBlock' = RangeEnd(h - FinalityBlocks)
    /\ pc' = "filter"
    /\ UNCHANGED <<head, block, cursor, rows, logs, lost>>

\* The cursor and the block number are read; the node reports height h.
Poll(h) ==
    /\ pc = "idle"
    /\ h - FinalityBlocks > cursor
    /\ toBlock' = RangeEnd(h - FinalityBlocks)
    /\ pc' = "filter"
    /\ UNCHANGED <<head, block, cursor, rows, logs, lost>>

\* Faulty variant: the query has no ToBlock.
FoundToLatest(n) == {e \in Events : block[e] > cursor /\ block[e] <= n}

\* The events of the queried range, as far as a node at height n has them.
Found(n) == {e \in Events : block[e] \in (cursor + 1)..toBlock /\ block[e] <= n}

\* Faulty variant: the cursor is saved before the logs are.
FilterLogsSavesCursor(n) ==
    /\ pc = "filter"
    /\ logs' = {[event |-> e, block |-> block[e]] : e \in Found(n)}
    /\ lost' = lost \ Found(n)
    /\ pc' = "insert"
    /\ cursor' = toBlock
    /\ UNCHANGED <<head, block, rows, toBlock>>

\* Faulty variant: the rows of the range are deleted before it is read again.
FilterLogsPurges(n) ==
    /\ pc = "filter"
    /\ logs' = {[event |-> e, block |-> block[e]] : e \in Found(n)}
    /\ lost' = lost \ Found(n)
    /\ rows' = {r \in rows : r.event \notin Found(n)}
    /\ pc' = "insert"
    /\ UNCHANGED <<head, block, cursor, toBlock>>

\* Faulty variant: poll returns at once when the range holds no log.
FilterLogsReturnsIfEmpty(n) ==
    /\ pc = "filter"
    /\ logs' = {[event |-> e, block |-> block[e]] : e \in Found(n)}
    /\ lost' = lost \ Found(n)
    /\ IF Found(n) = {} THEN pc' = "idle" /\ toBlock' = 0
                        ELSE pc' = "insert" /\ toBlock' = toBlock
    /\ UNCHANGED <<head, block, cursor, rows>>

\* eth_getLogs is answered by a node at height n.
FilterLogs(n) ==
    /\ pc = "filter"
    /\ logs' = {[event |-> e, block |-> block[e]] : e \in Found(n)}
    /\ lost' = lost \ Found(n)
    /\ pc' = "insert"
    /\ UNCHANGED <<head, block, cursor, rows, toBlock>>

FilterLogsFails ==
    /\ pc = "filter"
    /\ pc' = "idle"
    /\ toBlock' = 0
    /\ UNCHANGED <<head, block, cursor, rows, logs, lost>>

\* The loop handles the logs in the order of the chain.
IsNext(l) ==
    /\ pc = "insert"
    /\ l \in logs
    /\ \A m \in logs : \/ l.block < m.block
                       \/ l.block = m.block /\ l.event <= m.event

\* Faulty variant: the table has no unique (tx_hash, log_index).
InsertAlways(l, time) ==
    rows \cup {[event |-> l.event, block |-> l.block, time |-> time]}

\* InsertEjectionEvent: a row with the same (tx hash, log index) is kept.
InsertEjectionEvent(l, time) ==
    IF l.event \in Recorded
    THEN rows
    ELSE rows \cup {[event |-> l.event, block |-> l.block, time |-> time]}

\* One turn of the loop, with the block's time or, if BlockByNumber fails, now.
IndexLog(l) ==
    /\ IsNext(l)
    /\ l.event \notin Malformed
    /\ \E time \in {"block", "now"} : rows' = InsertEjectionEvent(l, time)
    /\ logs' = logs \ {l}
    /\ lost' = lost \ {l.event}
    /\ UNCHANGED <<head, block, cursor, pc, toBlock>>

\* The turn of a log without an operator id, or whose insert fails: the error
\* is logged and the loop goes on.
SkipLog(l) ==
    /\ IsNext(l)
    /\ logs' = logs \ {l}
    /\ lost' = IF l.event \in Recorded THEN lost ELSE lost \cup {l.event}
    /\ UNCHANGED <<head, block, cursor, rows, pc, toBlock>>

\* The body of the loop for the log of event e.
HandleLog(e) == \E l \in logs : l.event = e /\ (IndexLog(l) \/ SkipLog(l))

\* UpdateIndexerCursor, once the loop is through; poll returns.
AdvanceCursor ==
    /\ pc = "insert"
    /\ logs = {}
    /\ cursor' = toBlock
    /\ pc' = "idle"
    /\ toBlock' = 0
    /\ UNCHANGED <<head, block, rows, logs, lost>>

\* The statement fails; poll returns all the same.
AdvanceCursorFails ==
    /\ pc = "insert"
    /\ logs = {}
    /\ pc' = "idle"
    /\ toBlock' = 0
    /\ UNCHANGED <<head, block, cursor, rows, logs, lost>>

\* The process is killed in the middle of a poll and started again.
Crash ==
    /\ pc # "idle"
    /\ pc' = "idle"
    /\ toBlock' = 0
    /\ logs' = {}
    /\ UNCHANGED <<head, block, cursor, rows, lost>>
-----------------------------------------------------------------------------
NodeHeights == {n \in Heights : n >= head - MaxLag /\ n <= head}

Next ==
    \/ Mine
    \/ Reorg
    \/ \E h \in NodeHeights : Poll(h)
    \/ \E n \in NodeHeights : FilterLogs(n)
    \/ FilterLogsFails
    \/ \E l \in logs : IndexLog(l)
    \/ \E l \in logs : SkipLog(l)
    \/ AdvanceCursor
    \/ AdvanceCursorFails
    \/ Crash

Spec == Init /\ [][Next]_vars

(* The ticker of Run calls poll again and again; a query, a turn of the     *)
(* loop or a statement that is tried infinitely often is assumed not to fail *)
(* or be cut off by a crash every time.  The chain owes nothing.             *)
Fairness ==
    /\ SF_vars(Poll(head))
    /\ SF_vars(\E n \in NodeHeights : FilterLogs(n))
    /\ \A e \in Events : SF_vars(HandleLog(e))
    /\ SF_vars(AdvanceCursor)

FairSpec == Spec /\ Fairness
-----------------------------------------------------------------------------
(* The indexer never reads, nor declares settled, a block that can still be *)
(* replaced: cursor and toBlock stay FinalityBlocks behind the head.         *)
CursorIsFinal ==
    /\ cursor <= head - FinalityBlocks \/ cursor = 0
    /\ pc # "idle" => toBlock <= head - FinalityBlocks

(* Whatever reorganisations happen before, during and after a poll, a row    *)
(* holds the block the canonical chain has for its event.                    *)
RecordedIsCanonical == \A r \in rows : Final(r.event) /\ r.block = block[r.event]

(* Polls that are repeated after a crash or a failed cursor update, and that *)
(* see a different event time, leave one row per event.                      *)
AtMostOneRow == \A r, s \in rows : r.event = s.event => r = s

(* The cursor passes an event only when it has a row or when its turn in the *)
(* latest poll over its block ended in an error (or it had no operator id):  *)
(* no crash, lag, range cap or repeated poll lets an event slip through.     *)
NoEventSkipped ==
    \A e \in Events : block[e] \in 1..cursor => e \in Recorded \/ e \in lost

(* The stored cursor never moves back, whatever height the node reports.     *)
CursorMonotone == [][cursor' >= cursor]_vars

(* The indexer implements the abstract index: a poll that is cut short,      *)
(* repeated or overtaken by the chain never shows in the table but as a new   *)
(* row of a final event, and never in the cursor but as a move over settled   *)
(* events.                                                                    *)
FinalBlock == [e \in Events |-> IF Final(e) THEN block[e] ELSE 0]
RecordedBlock ==
    [e \in Events |-> IF e \in Recorded THEN (CHOOSE r \in rows : r.event = e).block
                                        ELSE 0]
Index == INSTANCE EjectionIndex WITH final <- FinalBlock, index <- RecordedBlock
IndexSpec == Index!Spec

(* The cursor eventually passes every final event, however many polls fail   *)
(* or crash and however far behind it starts: also when the queried ranges    *)
(* before the event hold no log at all.                                       *)
EveryFinalEventPassed == \A e \in Events : Final(e) ~> (block[e] <= cursor)
-----------------------------------------------------------------------------
(* The inductive invariant behind the safety properties.                    *)

\* No event is above the head.
BlocksOnChain == \A e \in Events : block[e] <= head

\* The logs at hand are final events of the queried range, at their blocks.
LogsInRange ==
    /\ pc # "insert" => logs = {}
    /\ pc # "idle" => cursor < toBlock
    /\ \A l \in logs : l.block = block[l.event] /\ l.block \in (cursor + 1)..toBlock

\* An event of the queried range is settled or still to be handled.
RangeCovered ==
    pc = "insert" => \A e \in Events :
        block[e] \in (cursor + 1)..toBlock =>
            \/ e \in Recorded
            \/ e \in lost
            \/ [event |-> e, block |-> block[e]] \in logs

\* An event is not both in the table and lost.
LostHasNoRow == Recorded \cap lost = {}

IndInv ==
    /\ TypeOK
    /\ BlocksOnChain
    /\ CursorIsFinal
    /\ LogsInRange
    /\ RangeCovered
    /\ RecordedIsCanonical
    /\ AtMostOneRow
    /\ NoEventSkipped
    /\ LostHasNoRow
=============================================================================
