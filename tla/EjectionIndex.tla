--------------------------- MODULE EjectionIndex ---------------------------
(***************************************************************************)
(* What the ejection index promises its readers: a table of final          *)
(* OperatorEjected events together with a cursor.  An entry is made from a  *)
(* final event only, and never changes; the cursor only moves forward, and  *)
(* when it moves to block n every final event up to n has been settled,     *)
(* that is, it is in the table or it is known to be lost.  Nothing is said   *)
(* about polls, node answers, reorganisations or crashes: EjectionIndexer   *)
(* implements this specification.                                           *)
(***************************************************************************)
EXTENDS Integers

CONSTANT Events

VARIABLES final,    \* final[e]: the final block of event e, 0 while it has none
          index,    \* index[e]: the block recorded for e, 0 while e has no row
          lost,     \* events whose latest attempt to record them failed
          cursor    \* the block up to which the index is settled

vars == <<final, index, lost, cursor>>

Init ==
    /\ final = [e \in Events |-> 0]
    /\ index = [e \in Events |-> 0]
    /\ lost = {}
    /\ cursor = 0

\* Events become final, each in a block the cursor has not passed.
Finalize ==
    /\ final' \in [Events -> Nat]
    /\ \A e \in Events : \/ final'[e] = final[e]
                         \/ final[e] = 0 /\ final'[e] > cursor
    /\ UNCHANGED <<index, lost, cursor>>

\* A final event gets its row; the block of the row is its final block.
Record(e) ==
    /\ final[e] # 0
    /\ index[e] = 0
    /\ index' = [index EXCEPT ![e] = final[e]]
    /\ lost' = lost \ {e}
    /\ UNCHANGED <<final, cursor>>

\* An attempt to record a final event fails.
Lose(e) ==
    /\ final[e] # 0
    /\ index[e] = 0
    /\ lost' = lost \cup {e}
    /\ UNCHANGED <<final, index, cursor>>

\* Events above the cursor are going to be tried again.
Retry ==
    /\ lost' \subseteq lost
    /\ \A e \in lost \ lost' : final[e] > cursor
    /\ UNCHANGED <<final, index, cursor>>

\* The cursor moves over settled events only.
Advance ==
    /\ cursor' \in Nat
    /\ cursor' > cursor
    /\ \A e \in Events :
          final[e] \in 1..cursor' => index[e] # 0 \/ e \in lost
    /\ UNCHANGED <<final, index, lost>>

Next ==
    \/ Finalize
    \/ \E e \in Events : Record(e) \/ Lose(e)
    \/ Retry
    \/ Advance

Spec == Init /\ [][Next]_vars
=============================================================================
