----------------------- MODULE EjectionIndexerProofs -----------------------
(***************************************************************************)
(* Machine-checked proofs about the EjectionIndexer worker, for every set   *)
(* of events, every finality depth, block range and node lag up to the      *)
(* finality depth.                                                          *)
(***************************************************************************)
EXTENDS EjectionIndexer, NaturalsInduction, WellFoundedInduction, TLAPS

USE DEF Heights, Logs, Rows

(* The safe head follows the head.                                          *)
LEMMA SafeHeadGrows ==
    \A h, k, d, n \in Int : h <= k /\ n <= h - d => n <= k - d
  OBVIOUS

(* A final block stays where it is when the chain grows or reorganises.     *)
LEMMA FinalBlocksStay ==
    ASSUME TypeOK, BlocksOnChain, Mine \/ Reorg
    PROVE  /\ TypeOK' /\ BlocksOnChain' /\ head <= head'
           /\ \A e \in Events :
                 /\ Final(e) => Final(e)' /\ block'[e] = block[e]
                 /\ ~Final(e) => block'[e] = 0 \/ block'[e] > head - FinalityBlocks
  <1> USE ParametersAssumption
  <1>1. CASE Mine
    <2>1. PICK S \in SUBSET {x \in Events : block[x] = 0} :
             block' = [x \in Events |-> IF x \in S THEN head + 1 ELSE block[x]]
      BY <1>1 DEF Mine
    <2>2. TypeOK' /\ BlocksOnChain' /\ head <= head'
      BY <1>1, <2>1 DEF Mine, TypeOK, BlocksOnChain
    <2> QED  BY <1>1, <2>1, <2>2 DEF Mine, TypeOK, Final
  <1>2. CASE Reorg
    <2>1. PICK b \in [Events -> 0..head] :
             /\ \A x \in Events :
                   IF Final(x) THEN b[x] = block[x]
                               ELSE b[x] = 0 \/ b[x] > head - FinalityBlocks
             /\ block' = b
      BY <1>2 DEF Reorg
    <2>2. TypeOK' /\ BlocksOnChain' /\ head <= head'
      BY <1>2, <2>1 DEF Reorg, TypeOK, BlocksOnChain
    <2> QED  BY <1>2, <2>1, <2>2 DEF Reorg, TypeOK, Final
  <1> QED  BY <1>1, <1>2

(* The steps of the chain preserve the invariant: everything the indexer    *)
(* holds on to is final.                                                    *)
LEMMA ChainStep ==
    ASSUME IndInv, Mine \/ Reorg
    PROVE  IndInv'
  <1> USE ParametersAssumption
  <1>1. TypeOK /\ BlocksOnChain /\ CursorIsFinal /\ LogsInRange
    BY DEF IndInv
  <1>2. UNCHANGED <<cursor, rows, pc, toBlock, logs, lost>>
    BY DEF Mine, Reorg
  <1>3. TypeOK' /\ BlocksOnChain' /\ head <= head'
    BY <1>1, FinalBlocksStay
  <1>4. \A e \in Events : /\ Final(e) => Final(e)' /\ block'[e] = block[e]
                          /\ ~Final(e) => block'[e] = 0 \/ block'[e] > head - FinalityBlocks
    BY <1>1, FinalBlocksStay
  <1>5. CursorIsFinal'
    <2>1. head \in Int /\ head' \in Int /\ cursor \in Int /\ toBlock \in Int
      BY <1>1, <1>3 DEF TypeOK
    <2>2. head <= head' /\ FinalityBlocks \in Int
      BY <1>3
    <2>3. \A n \in Int : n <= head - FinalityBlocks => n <= head' - FinalityBlocks
      BY ONLY <2>1, <2>2, SafeHeadGrows
    <2>4. CursorIsFinal /\ UNCHANGED <<cursor, pc, toBlock>>
      BY <1>1, <1>2
    <2> QED  BY <2>1, <2>3, <2>4 DEF CursorIsFinal
  <1>6. LogsInRange'
    <2>1. \A l \in logs : Final(l.event)
      BY <1>1 DEF LogsInRange, CursorIsFinal, TypeOK, Final
    <2> QED  BY <1>1, <1>2, <1>4, <2>1 DEF LogsInRange, TypeOK
  <1>7. ASSUME NEW e \in Events, NEW n \in Nat, n <= head - FinalityBlocks, block'[e] \in 1..n
        PROVE  Final(e) /\ block'[e] = block[e]
    BY <1>1, <1>3, <1>4, <1>7 DEF Final, TypeOK
  <1>8. RangeCovered'
    <2> SUFFICES ASSUME pc = "insert", NEW e \in Events, block'[e] \in (cursor + 1)..toBlock
                 PROVE  \/ e \in Recorded
                        \/ e \in lost
                        \/ [event |-> e, block |-> block'[e]] \in logs
      BY <1>2 DEF RangeCovered, Recorded
    <2>1. block'[e] = block[e]
      BY <1>1, <1>7 DEF CursorIsFinal, TypeOK
    <2> QED  BY <2>1 DEF IndInv, RangeCovered
  <1>9. NoEventSkipped'
    <2> SUFFICES ASSUME NEW e \in Events, block'[e] \in 1..cursor
                 PROVE  e \in Recorded \/ e \in lost
      BY <1>2 DEF NoEventSkipped, Recorded
    <2>1. block'[e] = block[e]
      BY <1>1, <1>7 DEF CursorIsFinal, TypeOK
    <2> QED  BY <2>1 DEF IndInv, NoEventSkipped
  <1>10. RecordedIsCanonical'
    BY <1>1, <1>2, <1>4 DEF IndInv, RecordedIsCanonical, TypeOK
  <1>11. AtMostOneRow' /\ LostHasNoRow'
    BY <1>2 DEF IndInv, AtMostOneRow, LostHasNoRow, Recorded
  <1> QED  BY <1>3, <1>5, <1>6, <1>8, <1>9, <1>10, <1>11 DEF IndInv

(* A poll takes a range of final blocks after the cursor.                   *)
LEMMA PollStep ==
    ASSUME IndInv, NEW h \in NodeHeights, Poll(h)
    PROVE  IndInv'
  <1> USE ParametersAssumption
  <1>1. TypeOK' /\ cursor < toBlock' /\ toBlock' <= head - FinalityBlocks
    BY DEF IndInv, TypeOK, Poll, RangeEnd, NodeHeights
  <1>2. /\ BlocksOnChain' /\ RecordedIsCanonical' /\ AtMostOneRow' /\ NoEventSkipped'
        /\ LostHasNoRow'
    BY DEF IndInv, Poll, BlocksOnChain, RecordedIsCanonical, AtMostOneRow,
           NoEventSkipped, LostHasNoRow, Recorded, Final
  <1>3. CursorIsFinal' /\ LogsInRange' /\ RangeCovered'
    BY <1>1 DEF IndInv, Poll, CursorIsFinal, LogsInRange, RangeCovered, TypeOK
  <1> QED  BY <1>1, <1>2, <1>3 DEF IndInv

(* The answer of a node that lags by no more than the finality depth holds  *)
(* every event of the range.                                                *)
LEMMA FilterLogsStep ==
    ASSUME IndInv, NEW n \in NodeHeights, FilterLogs(n)
    PROVE  IndInv'
  <1> USE ParametersAssumption, LagAssumption
  <1>1. UNCHANGED <<head, block, cursor, rows, toBlock>> /\ pc = "filter" /\ pc' = "insert"
    BY DEF FilterLogs
  <1>2. Found(n) = {e \in Events : block[e] \in (cursor + 1)..toBlock}
    BY <1>1 DEF IndInv, TypeOK, CursorIsFinal, NodeHeights, Found
  <1>3. logs' = {[event |-> e, block |-> block[e]] : e \in Found(n)}
    BY DEF FilterLogs
  <1>4. lost' = lost \ Found(n)
    BY DEF FilterLogs
  <1>5. TypeOK'
    BY <1>1, <1>3, <1>4 DEF IndInv, TypeOK, Found
  <1>6. BlocksOnChain' /\ RecordedIsCanonical' /\ AtMostOneRow' /\ CursorIsFinal'
    BY <1>1 DEF IndInv, BlocksOnChain, RecordedIsCanonical, AtMostOneRow, CursorIsFinal,
                Recorded, Final
  <1>7. LogsInRange'
    BY <1>1, <1>2, <1>3 DEF IndInv, LogsInRange
  <1>8. RangeCovered'
    BY <1>1, <1>2, <1>3 DEF RangeCovered
  <1>9. NoEventSkipped' /\ LostHasNoRow'
    BY <1>1, <1>2, <1>4 DEF IndInv, NoEventSkipped, LostHasNoRow, TypeOK, Recorded
  <1> QED  BY <1>5, <1>6, <1>7, <1>8, <1>9 DEF IndInv

(* What one turn of the loop does to the table: at most it adds the row of  *)
(* an event that has none.                                                  *)
LEMMA RecordedAfterInsert ==
    ASSUME NEW l \in Logs, NEW time \in {"block", "now"}, rows \subseteq Rows,
           rows' = InsertEjectionEvent(l, time)
    PROVE  /\ Recorded' = Recorded \cup {l.event}
           /\ \A r \in rows' : r \in rows \/ (l.event \notin Recorded /\
                   r = [event |-> l.event, block |-> l.block, time |-> time])
           /\ rows' \subseteq Rows
  <1> DEFINE row == [event |-> l.event, block |-> l.block, time |-> time]
  <1>1. row \in Rows /\ row.event = l.event
    OBVIOUS
  <1>2. CASE l.event \in Recorded
    <2>1. rows' = rows
      BY <1>2 DEF InsertEjectionEvent
    <2> QED  BY <1>2, <2>1 DEF Recorded
  <1>3. CASE l.event \notin Recorded
    <2>1. rows' = rows \cup {row}
      BY <1>3 DEF InsertEjectionEvent
    <2>2. Recorded' = Recorded \cup {row.event}
      BY <2>1 DEF Recorded
    <2> QED  BY <1>1, <1>3, <2>1, <2>2
  <1> QED  BY <1>2, <1>3

(* A turn of poll's loop that inserts its log keeps the invariant: the row  *)
(* new or InsertEjectionEvent keeps the one there is, the block final.       *)
LEMMA IndexLogStep ==
    ASSUME IndInv, NEW l \in logs, IndexLog(l)
    PROVE  IndInv'
  <1> USE ParametersAssumption
  <1>1. UNCHANGED <<head, block, cursor, pc, toBlock>> /\ pc = "insert"
    BY DEF IndexLog, IsNext
  <1>2. logs' = logs \ {l} /\ lost' = lost \ {l.event}
    BY DEF IndexLog
  <1>3. TypeOK /\ l \in Logs /\ l.block = block[l.event] /\ Final(l.event)
    BY <1>1 DEF IndInv, TypeOK, LogsInRange, CursorIsFinal, Final
  <1>4. PICK time \in {"block", "now"} : rows' = InsertEjectionEvent(l, time)
    BY DEF IndexLog
  <1>5. /\ Recorded' = Recorded \cup {l.event}
        /\ \A r \in rows' : r \in rows \/ (l.event \notin Recorded /\
                r = [event |-> l.event, block |-> l.block, time |-> time])
        /\ rows' \subseteq Rows
    BY <1>3, <1>4, RecordedAfterInsert DEF TypeOK
  <1>6. TypeOK' /\ BlocksOnChain' /\ CursorIsFinal' /\ LogsInRange'
    BY <1>1, <1>2, <1>5 DEF IndInv, TypeOK, BlocksOnChain, CursorIsFinal, LogsInRange
  <1>7. RangeCovered'
    <2> SUFFICES ASSUME NEW e \in Events, block[e] \in (cursor + 1)..toBlock, e # l.event
                 PROVE  \/ e \in Recorded
                        \/ e \in lost'
                        \/ [event |-> e, block |-> block[e]] \in logs'
      BY <1>1, <1>5 DEF RangeCovered
    <2>1. [event |-> e, block |-> block[e]] # l
      OBVIOUS
    <2> QED  BY <1>1, <1>2, <2>1 DEF IndInv, RangeCovered
  <1>8. RecordedIsCanonical'
    BY <1>1, <1>3, <1>5 DEF IndInv, RecordedIsCanonical, Final
  <1>9. AtMostOneRow'
    BY <1>5 DEF IndInv, AtMostOneRow, Recorded
  <1>10. NoEventSkipped'
    BY <1>1, <1>2, <1>5 DEF IndInv, NoEventSkipped
  <1>11. LostHasNoRow'
    BY <1>2, <1>5 DEF IndInv, LostHasNoRow
  <1> QED  BY <1>6, <1>7, <1>8, <1>9, <1>10, <1>11 DEF IndInv

(* A turn that leaves no row, because the log is malformed or the insert    *)
(* failed, keeps the invariant: the event is accounted for as lost.         *)
LEMMA SkipLogStep ==
    ASSUME IndInv, NEW l \in logs, SkipLog(l)
    PROVE  IndInv'
  <1> USE ParametersAssumption
  <1>1. UNCHANGED <<head, block, cursor, rows, pc, toBlock>> /\ pc = "insert"
    BY DEF SkipLog, IsNext
  <1>2. logs' = logs \ {l}
    BY DEF SkipLog
  <1>3. lost' = IF l.event \in Recorded THEN lost ELSE lost \cup {l.event}
    BY DEF SkipLog
  <1>4. TypeOK' /\ BlocksOnChain' /\ CursorIsFinal' /\ LogsInRange'
    BY <1>1, <1>2, <1>3 DEF IndInv, TypeOK, BlocksOnChain, CursorIsFinal, LogsInRange
  <1>5. RangeCovered'
    <2> SUFFICES ASSUME NEW e \in Events, block[e] \in (cursor + 1)..toBlock
                 PROVE  \/ e \in Recorded
                        \/ e \in lost'
                        \/ [event |-> e, block |-> block[e]] \in logs'
      BY <1>1 DEF RangeCovered, Recorded
    <2>1. CASE [event |-> e, block |-> block[e]] = l
      <3>1. l.event = e
        BY <2>1
      <3> QED  BY <3>1, <1>3
    <2>2. CASE [event |-> e, block |-> block[e]] # l
      BY <1>1, <1>2, <1>3, <2>2 DEF IndInv, RangeCovered
    <2> QED  BY <2>1, <2>2
  <1>6. RecordedIsCanonical' /\ AtMostOneRow'
    BY <1>1 DEF IndInv, RecordedIsCanonical, AtMostOneRow, Final
  <1>7. NoEventSkipped' /\ LostHasNoRow'
    BY <1>1, <1>3 DEF IndInv, NoEventSkipped, LostHasNoRow, Recorded
  <1> QED  BY <1>4, <1>5, <1>6, <1>7 DEF IndInv

(* The cursor moves when the loop is through.                               *)
LEMMA AdvanceCursorStep ==
    ASSUME IndInv, AdvanceCursor
    PROVE  IndInv'
  <1> USE ParametersAssumption
  <1>1. /\ UNCHANGED <<head, block, rows, logs, lost>> /\ pc = "insert" /\ logs = {}
        /\ cursor' = toBlock /\ pc' = "idle" /\ toBlock' = 0
    BY DEF AdvanceCursor
  <1>2. TypeOK' /\ BlocksOnChain' /\ CursorIsFinal' /\ LogsInRange' /\ RangeCovered'
    BY <1>1 DEF IndInv, TypeOK, BlocksOnChain, CursorIsFinal, LogsInRange, RangeCovered
  <1>3. RecordedIsCanonical' /\ AtMostOneRow' /\ LostHasNoRow'
    BY <1>1 DEF IndInv, RecordedIsCanonical, AtMostOneRow, LostHasNoRow, Recorded, Final
  <1>4. NoEventSkipped'
    <2> SUFFICES ASSUME NEW e \in Events, block[e] \in 1..toBlock
                 PROVE  e \in Recorded \/ e \in lost
      BY <1>1 DEF NoEventSkipped, Recorded
    <2>1. CASE block[e] <= cursor
      BY <2>1 DEF IndInv, TypeOK, NoEventSkipped
    <2>2. CASE block[e] > cursor
      BY <1>1, <2>2 DEF IndInv, TypeOK, RangeCovered
    <2> QED  BY <2>1, <2>2 DEF IndInv, TypeOK
  <1> QED  BY <1>2, <1>3, <1>4 DEF IndInv

(* A poll that ends early leaves the database as it is.                     *)
LEMMA GiveUpStep ==
    ASSUME IndInv, FilterLogsFails \/ AdvanceCursorFails \/ Crash
    PROVE  IndInv'
  <1> USE ParametersAssumption
  <1>1. UNCHANGED <<head, block, cursor, rows, lost>> /\ pc' = "idle" /\ toBlock' = 0
    BY DEF FilterLogsFails, AdvanceCursorFails, Crash
  <1>2. logs' = {}
    BY DEF IndInv, LogsInRange, FilterLogsFails, AdvanceCursorFails, Crash
  <1>3. TypeOK' /\ BlocksOnChain' /\ CursorIsFinal' /\ LogsInRange' /\ RangeCovered'
    BY <1>1, <1>2 DEF IndInv, TypeOK, BlocksOnChain, CursorIsFinal, LogsInRange, RangeCovered
  <1>4. RecordedIsCanonical' /\ AtMostOneRow' /\ NoEventSkipped' /\ LostHasNoRow'
    BY <1>1 DEF IndInv, RecordedIsCanonical, AtMostOneRow, NoEventSkipped, LostHasNoRow,
                Recorded, Final
  <1> QED  BY <1>3, <1>4 DEF IndInv

(* The invariant is inductive.                                              *)
LEMMA IndInvStep ==
    ASSUME IndInv, [Next]_vars
    PROVE  IndInv'
  <1>1. CASE Mine \/ Reorg
    BY <1>1, ChainStep
  <1>2. CASE \E h \in NodeHeights : Poll(h)
    BY <1>2, PollStep
  <1>3. CASE \E n \in NodeHeights : FilterLogs(n)
    BY <1>3, FilterLogsStep
  <1>4. CASE \E l \in logs : IndexLog(l)
    BY <1>4, IndexLogStep
  <1>5. CASE \E l \in logs : SkipLog(l)
    BY <1>5, SkipLogStep
  <1>6. CASE AdvanceCursor
    BY <1>6, AdvanceCursorStep
  <1>7. CASE FilterLogsFails \/ AdvanceCursorFails \/ Crash
    BY <1>7, GiveUpStep
  <1>8. CASE UNCHANGED vars
    BY <1>8 DEF vars, IndInv, TypeOK, BlocksOnChain, CursorIsFinal, LogsInRange,
                RangeCovered, RecordedIsCanonical, AtMostOneRow, NoEventSkipped,
                LostHasNoRow, Recorded, Final
  <1> QED  BY <1>1, <1>2, <1>3, <1>4, <1>5, <1>6, <1>7, <1>8 DEF Next

(* The invariant holds before the first poll, with an empty database.       *)
LEMMA IndInvInit ==
    ASSUME Init PROVE IndInv
  BY ParametersAssumption DEF Init, IndInv, TypeOK, BlocksOnChain, CursorIsFinal,
     LogsInRange, RangeCovered, RecordedIsCanonical, AtMostOneRow, NoEventSkipped,
     LostHasNoRow, Recorded, Final

(* Every reachable state of the worker and the chain satisfies the          *)
(* invariant, whatever poll, the nodes, the database and the process do.    *)
THEOREM InductiveInvariant == Spec => []IndInv
  <1>1. Init => IndInv
    BY IndInvInit
  <1>2. IndInv /\ [Next]_vars => IndInv'
    BY IndInvStep
  <1> QED  BY <1>1, <1>2, PTL DEF Spec

(* Every reachable state has its type.                                      *)
THEOREM TypeCorrect == Spec => []TypeOK
  BY InductiveInvariant, PTL DEF IndInv

(* The worker never reads or passes a block that can still be replaced.     *)
THEOREM OnlyFinalBlocks == Spec => []CursorIsFinal
  BY InductiveInvariant, PTL DEF IndInv

(* The rows of ejection_events agree with the canonical chain through every *)
(* reorganisation.                                                          *)
THEOREM TableIsCanonical == Spec => []RecordedIsCanonical
  BY InductiveInvariant, PTL DEF IndInv

(* An event has one row through every repeated poll and every kill.         *)
THEOREM RowsAreUnique == Spec => []AtMostOneRow
  BY InductiveInvariant, PTL DEF IndInv

(* The cursor passes only events that have a row or whose insert failed.    *)
THEOREM NothingSlipsThrough == Spec => []NoEventSkipped
  BY InductiveInvariant, PTL DEF IndInv

(* The cursor never moves back.                                             *)
THEOREM CursorNeverMovesBack == Spec => CursorMonotone
  <1>1. IndInv /\ [Next]_vars => [cursor' >= cursor]_vars
    <2> SUFFICES ASSUME IndInv, Next
                 PROVE  cursor' >= cursor
      OBVIOUS
    <2>1. CASE AdvanceCursor
      BY <2>1 DEF AdvanceCursor, IndInv, LogsInRange, TypeOK
    <2>2. CASE UNCHANGED cursor
      BY <2>2 DEF IndInv, TypeOK
    <2> QED  BY <2>1, <2>2 DEF Next, Mine, Reorg, Poll, FilterLogs, FilterLogsFails,
                IndexLog, SkipLog, AdvanceCursorFails, Crash
  <1> QED  BY <1>1, InductiveInvariant, PTL DEF Spec, CursorMonotone
-----------------------------------------------------------------------------
(* The refinement.                                                          *)

(* The block the abstract index holds for a recorded event is its block.    *)
RecordedBlockIsCanonical ==
    RecordedBlock = [e \in Events |-> IF e \in Recorded THEN block[e] ELSE 0]

(* The blocks the rows of ejection_events carry are those of the chain.     *)
LEMMA RecordedBlockIsBlock == IndInv => RecordedBlockIsCanonical
  <1> SUFFICES ASSUME IndInv, NEW e \in Events, e \in Recorded
               PROVE  (CHOOSE r \in rows : r.event = e).block = block[e]
    BY DEF RecordedBlock, RecordedBlockIsCanonical
  <1>1. \E r \in rows : r.event = e
    BY DEF Recorded
  <1>2. (CHOOSE r \in rows : r.event = e) \in rows /\ (CHOOSE r \in rows : r.event = e).event = e
    BY <1>1
  <1> QED  BY <1>2 DEF IndInv, RecordedIsCanonical

(* A recorded event, or one at hand in the loop, is final: its block in the *)
(* abstract index is its block on the chain, and is not 0.                  *)
LEMMA FinalBlockIsBlock ==
    ASSUME IndInv, NEW e \in Events
    PROVE  /\ e \in Recorded => Final(e)
           /\ \A l \in logs : l.event = e => Final(e)
           /\ Final(e) => FinalBlock[e] = block[e] /\ block[e] # 0
  <1>1. e \in Recorded => Final(e)
    BY DEF IndInv, RecordedIsCanonical, Recorded
  <1>2. ASSUME NEW l \in logs, l.event = e
        PROVE  Final(e)
    BY <1>2, ParametersAssumption DEF IndInv, LogsInRange, CursorIsFinal, TypeOK, Final
  <1>3. Final(e) => FinalBlock[e] = block[e] /\ block[e] # 0
    BY DEF FinalBlock, Final
  <1> QED  BY <1>1, <1>2, <1>3

(* A new block or a reorganisation is, to the readers of the index, events  *)
(* becoming final after the cursor.                                         *)
LEMMA ChainStepRefines ==
    ASSUME IndInv, IndInv', Mine \/ Reorg
    PROVE  Index!Finalize
  <1>1. TypeOK /\ BlocksOnChain /\ TypeOK' /\ CursorIsFinal
    BY DEF IndInv
  <1>2. UNCHANGED <<cursor, rows, pc, toBlock, logs, lost>>
    BY DEF Mine, Reorg
  <1>3. \A e \in Events : /\ Final(e) => Final(e)' /\ block'[e] = block[e]
                          /\ ~Final(e) => block'[e] = 0 \/ block'[e] > head - FinalityBlocks
    BY <1>1, FinalBlocksStay
  <1>4. FinalBlock' \in [Events -> Nat]
    BY <1>1 DEF FinalBlock, TypeOK
  <1>5. ASSUME NEW e \in Events
        PROVE  \/ FinalBlock'[e] = FinalBlock[e]
               \/ FinalBlock[e] = 0 /\ FinalBlock'[e] > cursor
    <2>1. CASE Final(e)
      BY <1>3, <2>1 DEF FinalBlock
    <2>2. CASE ~Final(e) /\ ~Final(e)'
      BY <2>2 DEF FinalBlock
    <2>3. CASE ~Final(e) /\ Final(e)'
      <3>1. FinalBlock[e] = 0 /\ FinalBlock'[e] = block'[e]
        BY <2>3 DEF FinalBlock
      <3>2. block'[e] # 0
        BY <2>3 DEF Final
      <3>3. block'[e] > head - FinalityBlocks
        BY <1>3, <2>3, <3>2
      <3>4. block'[e] > cursor
        BY <1>1, <3>2, <3>3, ParametersAssumption DEF CursorIsFinal, TypeOK
      <3> QED  BY <3>1, <3>4
    <2> QED  BY <2>1, <2>2, <2>3
  <1>6. RecordedBlock' = RecordedBlock
    BY <1>2 DEF RecordedBlock, Recorded
  <1> QED  BY <1>2, <1>4, <1>5, <1>6 DEF Index!Finalize

(* Reading a range again is the abstract retry of the events lost in it.    *)
LEMMA FilterLogsStepRefines ==
    ASSUME IndInv, NEW n \in NodeHeights, FilterLogs(n)
    PROVE  Index!Retry
  <1>1. UNCHANGED <<head, block, cursor, rows>> /\ lost' = lost \ Found(n) /\ pc = "filter"
    BY DEF FilterLogs
  <1>2. RecordedBlock' = RecordedBlock /\ FinalBlock' = FinalBlock
    BY <1>1 DEF RecordedBlock, Recorded, FinalBlock, Final
  <1>3. ASSUME NEW e \in Found(n)
        PROVE  FinalBlock[e] > cursor
    <2>1. e \in Events /\ block[e] \in (cursor + 1)..toBlock
      BY DEF Found
    <2>2. Final(e)
      BY <1>1, <2>1, ParametersAssumption DEF IndInv, CursorIsFinal, TypeOK, Final
    <2> QED  BY <2>1, <2>2, FinalBlockIsBlock DEF IndInv, TypeOK
  <1> QED  BY <1>1, <1>2, <1>3 DEF Index!Retry

(* A turn of the loop that inserts records its event, or nothing changes wh *)
(* the table has it already.                                                *)
LEMMA IndexLogStepRefines ==
    ASSUME IndInv, IndInv', NEW l \in logs, IndexLog(l)
    PROVE  \/ \E e \in Events : Index!Record(e)
           \/ UNCHANGED Index!vars
  <1>1. UNCHANGED <<head, block, cursor>> /\ lost' = lost \ {l.event}
    BY DEF IndexLog
  <1>2. FinalBlock' = FinalBlock
    BY <1>1 DEF FinalBlock, Final
  <1>3. PICK time \in {"block", "now"} : rows' = InsertEjectionEvent(l, time)
    BY DEF IndexLog
  <1>4. l \in Logs /\ l.event \in Events
    BY DEF IndInv, TypeOK
  <1>5. CASE l.event \in Recorded
    <2>1. rows' = rows
      BY <1>3, <1>5 DEF InsertEjectionEvent
    <2>2. lost' = lost
      BY <1>1, <1>5 DEF IndInv, LostHasNoRow
    <2> QED  BY <1>1, <1>2, <2>1, <2>2 DEF Index!vars, RecordedBlock, Recorded
  <1>6. CASE l.event \notin Recorded
    <2>1. Recorded' = Recorded \cup {l.event}
      BY <1>3, <1>4, RecordedAfterInsert DEF IndInv, TypeOK
    <2>2. Final(l.event) /\ FinalBlock[l.event] = block[l.event] /\ block[l.event] # 0
      BY <1>4, FinalBlockIsBlock
    <2>3. RecordedBlock' = [RecordedBlock EXCEPT ![l.event] = FinalBlock[l.event]]
      <3>1. RecordedBlockIsCanonical /\ RecordedBlockIsCanonical'
        BY RecordedBlockIsBlock, PTL
      <3> QED  BY <1>1, <1>4, <2>1, <2>2, <3>1 DEF RecordedBlockIsCanonical
    <2>4. RecordedBlock[l.event] = 0
      BY <1>4, <1>6 DEF RecordedBlock
    <2> QED  BY <1>1, <1>2, <1>4, <2>2, <2>3, <2>4 DEF Index!Record
  <1> QED  BY <1>5, <1>6

(* A turn without an insert loses its event, or nothing changes.            *)
LEMMA SkipLogStepRefines ==
    ASSUME IndInv, NEW l \in logs, SkipLog(l)
    PROVE  \/ \E e \in Events : Index!Lose(e)
           \/ UNCHANGED Index!vars
  <1>1. UNCHANGED <<head, block, cursor, rows>>
    BY DEF SkipLog
  <1>2. FinalBlock' = FinalBlock /\ RecordedBlock' = RecordedBlock
    BY <1>1 DEF FinalBlock, Final, RecordedBlock, Recorded
  <1>3. l.event \in Events
    BY DEF IndInv, TypeOK
  <1>4. FinalBlock[l.event] # 0
    BY <1>3, FinalBlockIsBlock
  <1>5. CASE l.event \in Recorded
    BY <1>1, <1>2, <1>5 DEF SkipLog, Index!vars
  <1>6. CASE l.event \notin Recorded
    <2>1. RecordedBlock[l.event] = 0
      BY <1>3, <1>6 DEF RecordedBlock
    <2>2. lost' = lost \cup {l.event}
      BY <1>6 DEF SkipLog
    <2> QED  BY <1>1, <1>2, <1>3, <1>4, <2>1, <2>2 DEF Index!Lose
  <1> QED  BY <1>5, <1>6

(* UpdateIndexerCursor moves the cursor over settled events only.           *)
LEMMA AdvanceCursorStepRefines ==
    ASSUME IndInv, IndInv', AdvanceCursor
    PROVE  Index!Advance
  <1>1. UNCHANGED <<head, block, rows, lost>> /\ cursor' = toBlock
    BY DEF AdvanceCursor
  <1>2. FinalBlock' = FinalBlock /\ RecordedBlock' = RecordedBlock
    BY <1>1 DEF FinalBlock, Final, RecordedBlock, Recorded
  <1>3. cursor' \in Nat /\ cursor' > cursor
    BY <1>1 DEF AdvanceCursor, IndInv, TypeOK, LogsInRange
  <1>4. ASSUME NEW e \in Events, FinalBlock[e] \in 1..cursor'
        PROVE  RecordedBlock[e] # 0 \/ e \in lost
    <2>1. Final(e) /\ FinalBlock[e] = block[e]
      BY <1>4 DEF FinalBlock
    <2>2. e \in Recorded \/ e \in lost
      BY <1>1, <1>4, <2>1 DEF IndInv, NoEventSkipped, Recorded
    <2>3. e \in Recorded => RecordedBlock[e] = block[e]
      BY RecordedBlockIsBlock DEF RecordedBlockIsCanonical
    <2> QED  BY <2>1, <2>2, <2>3 DEF Final
  <1> QED  BY <1>1, <1>2, <1>3, <1>4 DEF Index!Advance

(* Every step of the worker or of the chain is a step of the abstract index *)
(* or leaves it unchanged.                                                  *)
LEMMA StepRefines ==
    ASSUME IndInv, IndInv', [Next]_vars
    PROVE  [Index!Next]_(Index!vars)
  <1>1. CASE Mine \/ Reorg
    BY <1>1, ChainStepRefines DEF Index!Next
  <1>2. CASE \E n \in NodeHeights : FilterLogs(n)
    BY <1>2, FilterLogsStepRefines DEF Index!Next
  <1>3. CASE \E l \in logs : IndexLog(l)
    BY <1>3, IndexLogStepRefines DEF Index!Next
  <1>4. CASE \E l \in logs : SkipLog(l)
    BY <1>4, SkipLogStepRefines DEF Index!Next
  <1>5. CASE AdvanceCursor
    BY <1>5, AdvanceCursorStepRefines DEF Index!Next
  <1>6. CASE UNCHANGED <<head, block, cursor, rows, lost>>
    BY <1>6 DEF Index!vars, FinalBlock, Final, RecordedBlock, Recorded
  <1> QED  BY <1>1, <1>2, <1>3, <1>4, <1>5, <1>6
           DEF Next, vars, Poll, FilterLogsFails, AdvanceCursorFails, Crash

(* The worker implements the abstract index: whatever the chain, the nodes, *)
(* the database and the process do, its readers see final events recorded   *)
(* once, and a cursor that moves forward over settled events.               *)
THEOREM Refinement == Spec => IndexSpec
  <1>1. Init => Index!Init
    BY DEF Init, Index!Init, FinalBlock, Final, RecordedBlock, Recorded
  <1>2. IndInv /\ IndInv' /\ [Next]_vars => [Index!Next]_(Index!vars)
    BY StepRefines
  <1> QED  BY <1>1, <1>2, InductiveInvariant, PTL DEF Spec, IndexSpec, Index!Spec
-----------------------------------------------------------------------------
(* What a poll leaves to do until the cursor has moved: the half of            *)
(* EveryFinalEventPassed that needs no fairness.                             *)

(* A query is for at least one and at most MaxBlockRange + 1 blocks.         *)
RangeFits == pc # "idle" => toBlock \in (cursor + 1)..(cursor + 1 + MaxBlockRange)

LEMMA RangeStep == IndInv /\ RangeFits /\ [Next]_vars => RangeFits'
  <1> USE ParametersAssumption
  <1> SUFFICES ASSUME IndInv, RangeFits, [Next]_vars PROVE RangeFits'
    OBVIOUS
  <1>t. TypeOK
    BY DEF IndInv
  <1>1. ASSUME NEW h \in NodeHeights, Poll(h)
        PROVE  RangeFits'
    <2>1. /\ h \in Int /\ h - FinalityBlocks > cursor /\ toBlock' = RangeEnd(h - FinalityBlocks)
          /\ cursor' = cursor
      BY <1>1 DEF Poll, NodeHeights
    <2> QED  BY <1>t, <2>1 DEF RangeFits, RangeEnd, TypeOK
  <1>2. pc' = "idle" => RangeFits'
    BY DEF RangeFits
  <1>3. pc' # "idle" /\ pc # "idle" /\ cursor' = cursor /\ toBlock' = toBlock => RangeFits'
    BY DEF RangeFits
  <1>4. \/ \E h \in NodeHeights : Poll(h)
        \/ pc' = "idle"
        \/ pc' # "idle" /\ pc # "idle" /\ cursor' = cursor /\ toBlock' = toBlock
    BY DEF Next, Mine, Reorg, FilterLogs, FilterLogsFails, IndexLog, SkipLog, IsNext,
           AdvanceCursor, AdvanceCursorFails, Crash, vars
  <1> QED  BY <1>1, <1>2, <1>3, <1>4

(* No query asks an RPC provider for more than MaxBlockRange + 1 blocks, nor   *)
(* for none, however far behind the head the cursor is.                      *)
THEOREM QueriesFit == Spec => []RangeFits
  <1>1. Init => RangeFits
    BY DEF Init, RangeFits
  <1> QED  BY <1>1, RangeStep, InductiveInvariant, PTL DEF Spec

(* A poll that gets through moves the cursor forward, past every event of its  *)
(* range and no further; so a final event at block b is passed by the b-th     *)
(* such poll at the latest, and no other step moves the cursor.              *)
CursorAdvances ==
    /\ AdvanceCursor =>
          /\ cursor' \in (cursor + 1)..(cursor + 1 + MaxBlockRange)
          /\ \A e \in Events : block[e] \in (cursor + 1)..cursor' =>
                e \in Recorded \/ e \in lost
    /\ cursor' # cursor => AdvanceCursor

(* Only the statement that saves the cursor at the end of poll moves it, and    *)
(* never past an event that was neither recorded nor given up.                *)
THEOREM PollsAdvance == Spec => [][CursorAdvances]_vars
  <1>1. ASSUME IndInv, RangeFits, [Next]_vars
        PROVE  CursorAdvances
    <2>1. ASSUME AdvanceCursor
          PROVE  /\ cursor' \in (cursor + 1)..(cursor + 1 + MaxBlockRange)
                 /\ \A e \in Events : block[e] \in (cursor + 1)..cursor' =>
                       e \in Recorded \/ e \in lost
      <3>1. pc = "insert" /\ logs = {} /\ cursor' = toBlock
        BY <2>1 DEF AdvanceCursor
      <3> QED  BY <1>1, <3>1 DEF IndInv, RangeFits, RangeCovered
    <2>2. cursor' # cursor => AdvanceCursor
      BY <1>1 DEF Next, Mine, Reorg, Poll, FilterLogs, FilterLogsFails, IndexLog, SkipLog,
             AdvanceCursorFails, Crash, vars
    <2> QED  BY <2>1, <2>2 DEF CursorAdvances
  <1> QED  BY <1>1, InductiveInvariant, QueriesFit, PTL DEF Spec

(* A non-empty set of numbers has a least member.                            *)
LEMMA LeastNumber ==
    ASSUME NEW T \in SUBSET Nat, T # {}
    PROVE  \E m \in T : \A k \in T : m <= k
  <1>1. PICK m \in T : \A k \in T : ~(<<k, m>> \in OpToRel(<, Nat))
    BY NatLessThanWellFounded, WFMin, Zenon
  <1>2. \A k \in T : ~(k < m)
    BY <1>1 DEF OpToRel
  <1> QED  BY <1>2

(* While the loop has a log left there is exactly one whose turn it is: the    *)
(* order of the chain never leaves poll without a next log, nor with a choice. *)
LoopIsOrdered ==
    pc = "insert" /\ logs # {} =>
        \E l \in logs : IsNext(l) /\ \A m \in logs : IsNext(m) => m = l

(* The loop of poll never has to choose and never gets stuck with logs left.   *)
THEOREM LoopGoesOn == Spec => []LoopIsOrdered
  <1>1. ASSUME TypeOK, pc = "insert", logs # {}
        PROVE  \E l \in logs : IsNext(l) /\ \A m \in logs : IsNext(m) => m = l
    <2>1. ASSUME NEW l \in logs
          PROVE  l \in Logs /\ l.block \in Nat /\ l.event \in Nat
      <3>1. l \in [event : Events, block : 0..MaxHead]
        BY <1>1 DEF TypeOK
      <3>2. l.event \in Events /\ l.block \in 0..MaxHead
        BY <3>1
      <3>3. l.event \in Nat
        BY <3>2, EventsAssumption
      <3>4. l.block \in Nat
        BY <3>2, ParametersAssumption
      <3> QED  BY <3>1, <3>3, <3>4
    <2> DEFINE blocks == {l.block : l \in logs}
    <2>2. PICK b \in blocks : \A k \in blocks : b <= k
      <3>1. blocks \in SUBSET Nat /\ blocks # {}
        BY <1>1, <2>1
      <3> HIDE DEF blocks
      <3> QED  BY <3>1, LeastNumber
    <2> DEFINE first == {l \in logs : l.block = b}
    <2>f. first # {}
      BY <2>2
    <2> DEFINE events == {l.event : l \in first}
    <2>3. PICK e \in events : \A k \in events : e <= k
      <3>1. events \in SUBSET Nat /\ events # {}
        BY <2>1, <2>f
      <3> HIDE DEF events
      <3> QED  BY <3>1, LeastNumber
    <2>4. PICK l \in logs : l.block = b /\ l.event = e
      OBVIOUS
    <2>5. ASSUME NEW m \in logs
          PROVE  l.block < m.block \/ (l.block = m.block /\ l.event <= m.event)
      <3>1. b <= m.block
        BY <2>2
      <3>2. m.block = b => e <= m.event
        BY <2>3
      <3> QED  BY <2>1, <2>4, <3>1, <3>2
    <2>6. IsNext(l)
      BY <1>1, <2>4, <2>5 DEF IsNext
    <2>7. ASSUME NEW m \in logs, IsNext(m)
          PROVE  m = l
      <3>1. m.block < l.block \/ (m.block = l.block /\ m.event <= l.event)
        BY <2>4, <2>7 DEF IsNext
      <3>2. l.block < m.block \/ (l.block = m.block /\ l.event <= m.event)
        BY <2>5
      <3>3. m.block = l.block /\ m.event = l.event
        BY <2>1, <2>4, <3>1, <3>2
      <3> QED  BY <2>1, <2>4, <3>3
    <2> QED  BY <2>4, <2>6, <2>7
  <1>2. IndInv => LoopIsOrdered
    BY <1>1 DEF IndInv, LoopIsOrdered
  <1> QED  BY <1>2, InductiveInvariant, PTL
=============================================================================
