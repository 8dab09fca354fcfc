-------------------------- MODULE OperatorSchedule --------------------------
(***************************************************************************)
(* OperatorVerifier.Run (internal/worker/operator_verifier.go): which blob    *)
(* the next measurement (module OperatorRetrieval) is about.  One loop shares *)
(* its turns among the blobs of the age groups, the prober's own blobs and    *)
(* the blobs without an operator probe, by a counter and in this order.       *)
(***************************************************************************)
EXTENDS Integers

CONSTANTS
    NumGroups,   \* len(decodeAgeGroups), 16
    SelfPeriod   \* the 3 of cycle%3

ASSUME ScheduleAssumption ==
    /\ NumGroups \in Nat \ {0}
    /\ SelfPeriod \in Nat \ {0}
\* As 16 and 3: otherwise some groups never meet a turn of the own blobs.
ASSUME CoprimeAssumption ==
    \A d \in 2..SelfPeriod : ~(NumGroups % d = 0 /\ SelfPeriod % d = 0)

VARIABLES
    cycle,      \* cycle, modulo what the loop tells apart
    aged,       \* the age groups with a blob
    ownBlob,    \* a self-dispersed blob has no operator retrieval
    unprobed,   \* an observed blob has no operator probe
    turn,       \* history: what the latest cycle did
    group       \* history: the age group it looked at

vars == <<cycle, aged, ownBlob, unprobed, turn, group>>

Period == NumGroups * SelfPeriod
Groups == 0..(NumGroups - 1)

TypeOK ==
    /\ cycle \in 0..(Period - 1)
    /\ aged \subseteq Groups
    /\ ownBlob \in BOOLEAN /\ unprobed \in BOOLEAN
    /\ turn \in {"none", "aged", "own", "unprobed", "sleep"}
    /\ group \in Groups

Init ==
    /\ cycle = 0
    /\ aged = {}
    /\ ownBlob = FALSE /\ unprobed = FALSE
    /\ turn = "none" /\ group = 0
-----------------------------------------------------------------------------
(* The other workers and the passing of time.                               *)

\* Blobs grow into an age group, or out of it.
Age(g) ==
    /\ aged' = IF g \in aged THEN aged \ {g} ELSE aged \cup {g}
    /\ UNCHANGED <<cycle, ownBlob, unprobed, turn, group>>

\* The write prober disperses a blob.
Disperse ==
    /\ ~ownBlob
    /\ ownBlob' = TRUE
    /\ UNCHANGED <<cycle, aged, unprobed, turn, group>>

\* The collector finds a blob.
Observe ==
    /\ ~unprobed
    /\ unprobed' = TRUE
    /\ UNCHANGED <<cycle, aged, ownBlob, turn, group>>
-----------------------------------------------------------------------------
\* Faulty variant: one group too many.
AgeGroupPastEnd(c) == c % (NumGroups + 1)

\* The index into decodeAgeGroups.
AgeGroup(c) == c % NumGroups

\* Faulty variant: every second cycle.
SelfTurnEverySecond(c) == c % 2 = 0

SelfTurn(c) == c % SelfPeriod = 0

\* The end of a cycle that did t.
EndCycle(t) ==
    /\ cycle' = (cycle + 1) % Period
    /\ turn' = t
    /\ group' = AgeGroup(cycle)

\* Faulty variant: the branch continues without cycle++.
ProbeAgedAgain ==
    /\ AgeGroup(cycle) \in aged
    /\ turn' = "aged"
    /\ group' = AgeGroup(cycle)
    /\ UNCHANGED <<cycle, aged, ownBlob, unprobed>>

\* GetAgedBlobKeys has a blob of the group.  It may be any blob of that age, the
\* prober's own or one without a probe among them.
ProbeAged ==
    /\ AgeGroup(cycle) \in aged
    /\ EndCycle("aged")
    /\ ownBlob' \in {ownBlob, FALSE}
    /\ unprobed' \in {unprobed, FALSE}
    /\ UNCHANGED aged

\* It has none, or the query failed; GetUnretrievedSelfBlob has one.  The call
\* need not leave a retrieval.
ProbeSelf(agedFails) ==
    /\ AgeGroup(cycle) \notin aged \/ agedFails
    /\ SelfTurn(cycle) /\ ownBlob
    /\ EndCycle("own")
    /\ ownBlob' \in BOOLEAN
    /\ unprobed' \in {unprobed, FALSE}
    /\ UNCHANGED aged

\* There is none either, or that query failed too; GetUnprobedOperatorBlobs has
\* a blob.
ProbeUnprobed(agedFails, selfFails) ==
    /\ AgeGroup(cycle) \notin aged \/ agedFails
    /\ SelfTurn(cycle) /\ ownBlob => selfFails
    /\ unprobed
    /\ EndCycle("unprobed")
    /\ ownBlob' \in {ownBlob, FALSE}
    /\ unprobed' \in BOOLEAN
    /\ UNCHANGED aged

\* Nothing to do, or the third query failed: two seconds of sleep.
Sleep(agedFails, selfFails, unprobedFails) ==
    /\ AgeGroup(cycle) \notin aged \/ agedFails
    /\ SelfTurn(cycle) /\ ownBlob => selfFails
    /\ unprobed => unprobedFails
    /\ EndCycle("sleep")
    /\ UNCHANGED <<aged, ownBlob, unprobed>>

Next ==
    \/ \E g \in Groups : Age(g)
    \/ Disperse
    \/ Observe
    \/ ProbeAged
    \/ \E f1 \in BOOLEAN : ProbeSelf(f1)
    \/ \E f1, f2 \in BOOLEAN : ProbeUnprobed(f1, f2)
    \/ \E f1, f2, f3 \in BOOLEAN : Sleep(f1, f2, f3)

Spec == Init /\ [][Next]_vars

(* The loop never stops, and no query fails each time it has a blob.         *)
Fairness ==
    /\ WF_vars(\/ ProbeAged
               \/ ProbeSelf(FALSE)
               \/ ProbeUnprobed(FALSE, FALSE)
               \/ Sleep(FALSE, FALSE, FALSE))
    /\ SF_vars(ProbeSelf(FALSE))
    /\ \A g \in Groups : SF_vars(AgeGroup(cycle) = g /\ ProbeAged)

FairSpec == Spec /\ Fairness
-----------------------------------------------------------------------------
(* The round-robin over decodeAgeGroups skips no group: one that has blobs   *)
(* from some time on is measured again and again, whatever the turns of the  *)
(* other branches.                                                           *)
EveryAgeMeasured ==
    \A g \in Groups : <>[](g \in aged) => []<>(turn = "aged" /\ group = g)

(* While one age group, whichever, stays empty, the prober's own blobs get   *)
(* their turn, or were retrieved as aged ones: the counter of the groups and  *)
(* cycle%3 do not run in step.                                                *)
OwnBlobsGetTurns ==
    \A g \in Groups : <>[](g \notin aged) => (ownBlob ~> (turn = "own" \/ ~ownBlob))
=============================================================================
