--------------------------- MODULE ObservedBlobs ---------------------------
(***************************************************************************)
(* The two writers of eigenda.observed_blobs and the DataAPI feed they both  *)
(* read: the BlobCollector (internal/worker/collector.go), which follows the *)
(* feed with a watermark it keeps in memory, and the WriteProber             *)
(* (internal/worker/write_prober.go), which disperses a blob of its own and  *)
(* then looks for it in the feed.  UpsertBlob (internal/db/db.go) merges      *)
(* what they write.                                                          *)
(***************************************************************************)
EXTENDS Integers, FiniteSets

CONSTANTS
    Blobs,
    Ours,        \* the blobs the WriteProber disperses
    NoBlob,
    FeedLimit,   \* the collector's page: the 100 newest blobs
    FindLimit,   \* the prober's page: the 20 newest blobs
    MaxTime      \* bound on the clock

ASSUME BlobsAssumption ==
    IsFiniteSet(Blobs) /\ Ours \subseteq Blobs /\ NoBlob \notin Blobs
ASSUME PagesAssumption ==
    FeedLimit \in Nat \ {0} /\ FindLimit \in Nat \ {0} /\ MaxTime \in Nat \ {0}

VARIABLES
    now,          \* the clock of the disperser
    requestedAt,  \* requestedAt[b]: when b was requested, 0 if it was not
    visible,      \* the blobs the DataAPI lists
    \* the collector
    lastSeen,     \* lastSeenTimestamp
    page,         \* what is left of the page the loop goes through
    top,          \* RequestedAt of the first blob of that page, 0 outside the loop
    \* the prober
    ppc,          \* "idle", "posting", "finding" or "writing"
    dispersed,    \* the blob the proxy is dispersing, or dispersed
    found,        \* what findSelfBlob returned
    \* eigenda.observed_blobs
    observed,     \* the blobs with a row
    complete,     \* the rows with account, commitment, expiry and requested_at
    self,         \* the rows with is_self_dispersed
    latency,      \* dispersal_latency_ms: the blob whose dispersal was timed, or NoBlob
    \* histories
    failed,       \* blobs whose upsert by the collector failed
    overflowed,   \* blobs newer than the watermark that a page had no room for
    late          \* blobs listed only after a newer one had been read

feedVars == <<now, requestedAt, visible>>
collectorVars == <<lastSeen, page, top, failed, overflowed>>
proberVars == <<ppc, dispersed, found>>
table == <<observed, complete, self, latency>>
vars == <<feedVars, collectorVars, proberVars, table, late>>

Times == 0..MaxTime

TypeOK ==
    /\ now \in Times
    /\ requestedAt \in [Blobs -> Times]
    /\ visible \subseteq Blobs
    /\ lastSeen \in Times
    /\ page \subseteq visible
    /\ top \in Times
    /\ ppc \in {"idle", "posting", "finding", "writing"}
    /\ dispersed \in Ours \cup {NoBlob}
    /\ found \in Ours \cup {NoBlob}
    /\ observed \subseteq Blobs
    /\ complete \subseteq observed
    /\ self \subseteq observed
    /\ latency \in [Blobs -> Ours \cup {NoBlob}]
    /\ failed \subseteq Blobs /\ overflowed \subseteq Blobs /\ late \subseteq Blobs

Init ==
    /\ now = 1
    /\ requestedAt = [b \in Blobs |-> 0]
    /\ visible = {}
    /\ lastSeen = 0 /\ page = {} /\ top = 0
    /\ ppc = "idle" /\ dispersed = NoBlob /\ found = NoBlob
    /\ observed = {} /\ complete = {} /\ self = {}
    /\ latency = [b \in Blobs |-> NoBlob]
    /\ failed = {} /\ overflowed = {} /\ late = {}
-----------------------------------------------------------------------------
(* EigenDA: blobs are requested, and listed by the DataAPI some time later.  *)

Tick ==
    /\ now < MaxTime
    /\ now' = now + 1
    /\ UNCHANGED <<requestedAt, visible, collectorVars, proberVars, table, late>>

\* Somebody else disperses a blob.
Request(b) ==
    /\ b \notin Ours
    /\ requestedAt[b] = 0
    /\ requestedAt' = [requestedAt EXCEPT ![b] = now]
    /\ UNCHANGED <<now, visible, collectorVars, proberVars, table, late>>

\* The DataAPI lists the blob.
List(b) ==
    /\ requestedAt[b] # 0
    /\ b \notin visible
    /\ visible' = visible \cup {b}
    /\ late' = IF requestedAt[b] <= top \/ requestedAt[b] <= lastSeen
               THEN late \cup {b} ELSE late
    /\ UNCHANGED <<now, requestedAt, collectorVars, proberVars, table>>

\* The feed's page of n blobs, in the order of time, the newest first.
IsPage(F, n) ==
    /\ F \subseteq visible
    /\ Cardinality(F) <= n
    /\ F # visible => Cardinality(F) = n
    /\ \A b \in F, c \in visible \ F : requestedAt[c] <= requestedAt[b]

Newest(S) == {b \in S : \A c \in S : requestedAt[c] <= requestedAt[b]}
-----------------------------------------------------------------------------
\* Faulty variant: the conflict clause overwrites the flag and the latency.
UpsertOverwrites(b, full, isSelf, timed) ==
    /\ observed' = observed \cup {b}
    /\ complete' = IF full /\ b \notin observed THEN complete \cup {b} ELSE complete
    /\ self' = IF isSelf THEN self \cup {b} ELSE self \ {b}
    /\ latency' = [latency EXCEPT ![b] = timed]

\* UpsertBlob: of an existing row only the flag and the latency (and the payment)
\* are touched; a latency replaces the one before.
UpsertBlob(b, full, isSelf, timed) ==
    /\ observed' = observed \cup {b}
    /\ complete' = IF full /\ b \notin observed THEN complete \cup {b} ELSE complete
    /\ self' = IF isSelf THEN self \cup {b} ELSE self
    /\ latency' = IF timed # NoBlob THEN [latency EXCEPT ![b] = timed] ELSE latency
-----------------------------------------------------------------------------
(* The collector.  An error of the feed, and an empty page, return without a *)
(* change.                                                                   *)

\* Faulty variant: the watermark is compared one unit too high.
NewBlobsAfter(F) == {b \in F : requestedAt[b] > lastSeen + 1}

\* The blobs before the break of the loop.
NewBlobs(F) == {b \in F : requestedAt[b] > lastSeen}

FetchPage(F) ==
    /\ top = 0
    /\ F # {}
    /\ IsPage(F, FeedLimit)
    /\ page' = NewBlobs(F)
    /\ \E b \in Newest(F) : top' = requestedAt[b]
    /\ overflowed' = overflowed \cup {b \in visible \ F : requestedAt[b] > lastSeen}
    /\ UNCHANGED <<feedVars, lastSeen, failed, proberVars, table, late>>

\* A turn of the loop.
CollectBlob(b) ==
    /\ b \in Newest(page)
    /\ page' = page \ {b}
    /\ UpsertBlob(b, TRUE, FALSE, NoBlob)
    /\ UNCHANGED <<feedVars, lastSeen, top, failed, overflowed, proberVars, late>>

\* The same when the statement fails: the blob is not counted, and that is all.
CollectFails(b) ==
    /\ b \in Newest(page)
    /\ page' = page \ {b}
    /\ failed' = failed \cup {b}
    /\ UNCHANGED <<feedVars, lastSeen, top, overflowed, proberVars, table, late>>

\* Faulty variant: the watermark moves although blobs of the page are left.
AdvanceEarly ==
    /\ top # 0
    /\ lastSeen' = IF top > lastSeen THEN top ELSE lastSeen
    /\ top' = 0
    /\ page' = {}
    /\ UNCHANGED <<feedVars, failed, overflowed, proberVars, table, late>>

\* After the loop the watermark moves to the first blob of the page.
AdvanceWatermark ==
    /\ top # 0
    /\ page = {}
    /\ lastSeen' = IF top > lastSeen THEN top ELSE lastSeen
    /\ top' = 0
    /\ UNCHANGED <<feedVars, page, failed, overflowed, proberVars, table, late>>
-----------------------------------------------------------------------------
(* The prober.                                                               *)

\* disperse posts a payload; the proxy's dispersal is blob b.
Disperse(b) ==
    /\ ppc = "idle"
    /\ b \in Ours
    /\ requestedAt[b] = 0
    /\ requestedAt' = [requestedAt EXCEPT ![b] = now]
    /\ dispersed' = b
    /\ ppc' = "posting"
    /\ UNCHANGED <<now, visible, collectorVars, found, table, late>>

\* The proxy answers 200.
ProxyConfirms ==
    /\ ppc = "posting"
    /\ ppc' = "finding"
    /\ UNCHANGED <<feedVars, collectorVars, dispersed, found, table, late>>

\* disperse returns.
ReturnFromDisperse ==
    /\ ppc' = "idle"
    /\ dispersed' = NoBlob
    /\ found' = NoBlob

\* It answers with an error, or not within 5 minutes; the blob may exist all the same.
ProxyFails ==
    /\ ppc = "posting"
    /\ ReturnFromDisperse
    /\ UNCHANGED <<feedVars, collectorVars, table, late>>

\* findSelfBlob: the newest blob of our account on the page, in one of five tries.
FindSelfBlob(F) ==
    /\ ppc = "finding"
    /\ IsPage(F, FindLimit)
    /\ found' \in Newest(F \cap Ours)
    /\ ppc' = "writing"
    /\ UNCHANGED <<feedVars, collectorVars, dispersed, table, late>>

\* Faulty variant: disperse goes on without a blob.
FindsNothingUnchecked ==
    /\ ppc = "finding"
    /\ ppc' = "writing"
    /\ UNCHANGED <<feedVars, collectorVars, dispersed, found, table, late>>

\* The fifth try fails, or finds no blob of ours either.
FindsNothing ==
    /\ ppc = "finding"
    /\ ReturnFromDisperse
    /\ UNCHANGED <<feedVars, collectorVars, table, late>>

\* The row of the found blob: size, flag, latency and now as requested_at.
RecordDispersal ==
    /\ ppc = "writing"
    /\ UpsertBlob(found, FALSE, TRUE, dispersed)
    /\ ReturnFromDisperse
    /\ UNCHANGED <<feedVars, collectorVars, late>>

RecordDispersalFails ==
    /\ ppc = "writing"
    /\ ReturnFromDisperse
    /\ UNCHANGED <<feedVars, collectorVars, table, late>>
-----------------------------------------------------------------------------
\* The process is killed and started again: the watermark is in memory.
Crash ==
    /\ top # 0 \/ lastSeen # 0 \/ ppc # "idle"
    /\ lastSeen' = 0 /\ page' = {} /\ top' = 0
    /\ ReturnFromDisperse
    /\ UNCHANGED <<feedVars, failed, overflowed, table, late>>

Next ==
    \/ Tick
    \/ \E b \in Blobs : Request(b)
    \/ \E b \in Blobs : List(b)
    \/ \E F \in SUBSET visible : FetchPage(F)
    \/ \E b \in page : CollectBlob(b)
    \/ \E b \in page : CollectFails(b)
    \/ AdvanceWatermark
    \/ \E b \in Ours : Disperse(b)
    \/ ProxyConfirms
    \/ ProxyFails
    \/ \E F \in SUBSET visible : FindSelfBlob(F)
    \/ FindsNothing
    \/ RecordDispersal
    \/ RecordDispersalFails
    \/ Crash

Spec == Init /\ [][Next]_vars

(* The collector's loop goes on and the feed does not fail for ever; and the *)
(* process is not killed in the middle of every page, each time before it    *)
(* comes to the same blob.                                                   *)
Fairness ==
    /\ WF_vars(\E F \in SUBSET visible : FetchPage(F))
    /\ \A b \in Blobs : SF_vars(b \in page /\ (CollectBlob(b) \/ CollectFails(b)))
    /\ WF_vars(AdvanceWatermark)

FairSpec == Spec /\ Fairness
-----------------------------------------------------------------------------
\* Why a listed blob may have no row although the collector is past it.
Explained(b) == b \in failed \cup overflowed \cup late

(* The watermark leaves no blob behind without a reason: a listed blob that  *)
(* is not newer than lastSeenTimestamp has a row, or its upsert failed, or a *)
(* page had no room for it, or the DataAPI listed it too late.               *)
SkipsAreExplained ==
    \A b \in visible :
        requestedAt[b] <= lastSeen => b \in observed \/ Explained(b)

(* The two writers never undo each other, through every order of upserts and *)
(* through restarts that read the feed again: a row stays, keeps its flag and *)
(* has the columns its first writer gave it, no more and no fewer.  It never  *)
(* loses a latency; one dispersal's may give way to another's, but only to    *)
(* that of one requested no earlier.                                         *)
RowNeverDegrades ==
    [][/\ self \subseteq self'
       /\ \A b \in observed : b \in observed' /\ (b \in complete' <=> b \in complete)
       /\ \A b \in Blobs : latency[b] # NoBlob =>
              /\ latency'[b] # NoBlob
              /\ requestedAt[latency[b]] <= requestedAt[latency'[b]]]_vars

(* Every listed blob is eventually observed, unless there is a reason: as a  *)
(* listed blob stays listed, it is never left out for good.                  *)
EventuallyAccounted ==
    \A b \in Blobs : []<>(b \in visible => b \in observed \/ Explained(b))

(* "Find the actual blob from DataAPI by matching our account"               *)
(* (write_prober.go): a latency is recorded for the blob it was measured on. *)
LatencyBelongsToBlob ==
    \A b \in Blobs : latency[b] \in {b, NoBlob}
=============================================================================
