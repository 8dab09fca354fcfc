---------------------------- MODULE RelayResults ----------------------------
(***************************************************************************)
(* What the RelayVerifier promises the readers of its rows: it is done with  *)
(* a blob once and for all.  Whatever it has recorded of a blob by then      *)
(* never changes, and is whole unless the blob is broken: one row about each *)
(* relay of the certificate and no other, and one attestation.  Nothing is   *)
(* said about selections, goroutines, slots or the reverifier: RelayProbing  *)
(* implements this specification.                                            *)
(***************************************************************************)
EXTENDS Integers

CONSTANTS Blobs, RelayKeys, NoRelay

VARIABLES keys,      \* keys[b]: the relay keys of b's certificate, {} while it has none
          results,   \* results[b]: what is recorded of b, for the blobs that are done with
          broken     \* blobs whose probing met an error, a kill or a late certificate

vars == <<keys, results, broken>>

Done == DOMAIN results

Relays == RelayKeys \cup {NoRelay}

\* The numbers of rows about each relay, and of attestations.
Whole(b) == [rows |-> [k \in Relays |-> IF k \in keys[b] THEN 1 ELSE 0], attested |-> 1]
Partial == [rows : [Relays -> 0..1], attested : 0..2]

Init ==
    /\ keys = [b \in Blobs |-> {}]
    /\ results = [b \in {} |-> {}]
    /\ broken = {}

Certify(b, K) ==
    /\ keys[b] = {}
    /\ keys' = [keys EXCEPT ![b] = K]
    /\ UNCHANGED <<results, broken>>

\* The verifier gets done with the blobs of B: one, several when it is killed, or
\* none when it only meets an error.
Conclude(B) ==
    /\ B \cap Done = {}
    /\ Done' = Done \cup B
    /\ \A b \in Done : results'[b] = results[b]
    /\ \A b \in B \ broken' : keys[b] # {} /\ results'[b] = Whole(b)
    /\ \A b \in B \cap broken' : results'[b] \in Partial
    /\ broken \subseteq broken' /\ broken' \cap Done \subseteq broken
    /\ UNCHANGED keys

Next ==
    \/ \E b \in Blobs, K \in SUBSET RelayKeys : Certify(b, K)
    \/ \E B \in SUBSET Blobs : Conclude(B)

Spec == Init /\ [][Next]_vars
=============================================================================
