-------------------------- MODULE ObservedBlobsProofs --------------------------
(***************************************************************************)
(* Proofs about the two writers of observed_blobs: the collector passes over  *)
(* a listed blob for a named reason only, and no writer undoes another; for   *)
(* any blobs, pages and clock.                                               *)
(***************************************************************************)
EXTENDS ObservedBlobs, FiniteSetTheorems, NaturalsInduction, WellFoundedInduction, TLAPS

USE BlobsAssumption, PagesAssumption

(* A listed blob was requested, at a time that is not 0, the watermark of a    *)
(* collector that has just started.                                          *)
Requested ==
    /\ now # 0
    /\ \A b \in visible : requestedAt[b] # 0

(* The blobs up to the first of the page are left, observed, or explained: the *)
(* watermark will take them over when none is left.                          *)
PageCovered ==
    /\ top = 0 => page = {}
    /\ top # 0 => \A b \in visible :
           requestedAt[b] <= top => b \in page \/ b \in observed \/ Explained(b)

\* disperse has a blob in hand, and writes about one it has found.
FoundInTime ==
    /\ ppc # "idle" => dispersed \in Ours
    /\ ppc = "writing" => found \in Ours

FeedInv == TypeOK /\ FoundInTime /\ Requested /\ PageCovered /\ SkipsAreExplained

\* All the writers of the table do to it.
LEMMA UpsertAdds ==
    ASSUME TypeOK, NEW b \in Blobs, NEW full \in BOOLEAN, NEW isSelf \in BOOLEAN,
           NEW timed \in Ours \cup {NoBlob}, UpsertBlob(b, full, isSelf, timed)
    PROVE  /\ observed' = observed \cup {b}
           /\ self \subseteq self' /\ complete \subseteq complete'
           /\ self' \subseteq observed' /\ complete' \subseteq observed'
           /\ latency' \in [Blobs -> Ours \cup {NoBlob}]
  <1> USE DEF UpsertBlob, TypeOK
  <1>1. observed' = observed \cup {b} /\ self \subseteq self' /\ complete \subseteq complete'
    OBVIOUS
  <1>2. self' \subseteq observed' /\ complete' \subseteq observed'
    OBVIOUS
  <1>3. latency' \in [Blobs -> Ours \cup {NoBlob}]
    OBVIOUS
  <1> QED  BY <1>1, <1>2, <1>3

LEMMA FeedInit == Init => FeedInv
  <1> SUFFICES ASSUME Init PROVE FeedInv
    OBVIOUS
  <1>1. 0 \in Times /\ 1 \in Times
    BY DEF Times
  <1>2. TypeOK
    BY <1>1 DEF Init, TypeOK
  <1> QED  BY <1>2 DEF Init, FeedInv, FoundInTime, Requested, PageCovered, SkipsAreExplained

\* Neither the clock nor the prober before it writes touches what the collector knows.
LEMMA CollectorUntouched ==
    ASSUME FeedInv, UNCHANGED <<visible, lastSeen, page, top, observed, failed, overflowed, late>>,
           now' # 0, \A b \in visible : requestedAt'[b] = requestedAt[b]
    PROVE  Requested' /\ PageCovered' /\ SkipsAreExplained'
  <1> QED  BY DEF FeedInv, Requested, PageCovered, SkipsAreExplained, Explained

LEMMA FeedStepTick ==
    ASSUME FeedInv, Tick
    PROVE  FeedInv'
  <1> USE DEF Tick, collectorVars, proberVars, table
  <1>1. now' \in Times /\ now' # 0
    BY DEF FeedInv, TypeOK, Times
  <1>2. TypeOK'
    BY <1>1 DEF FeedInv, TypeOK
  <1>3. FoundInTime'
    BY DEF FeedInv, FoundInTime
  <1> QED  BY <1>1, <1>2, <1>3, CollectorUntouched DEF FeedInv

LEMMA RequestStep ==
    ASSUME FeedInv, NEW b \in Blobs, Request(b)
    PROVE  FeedInv'
  <1> USE DEF Request, collectorVars, proberVars, table
  <1>1. b \notin visible
    BY DEF FeedInv, Requested
  <1>2. \A c \in visible : requestedAt'[c] = requestedAt[c]
    BY <1>1 DEF FeedInv, TypeOK
  <1>3. requestedAt' \in [Blobs -> Times]
    BY DEF FeedInv, TypeOK
  <1>4. TypeOK'
    BY <1>3 DEF FeedInv, TypeOK
  <1>5. FoundInTime' /\ now' # 0
    BY DEF FeedInv, FoundInTime, Requested
  <1> QED  BY <1>2, <1>4, <1>5, CollectorUntouched DEF FeedInv

LEMMA ListStep ==
    ASSUME FeedInv, NEW b \in Blobs, List(b)
    PROVE  FeedInv'
  <1> USE DEF List, collectorVars, proberVars, table
  <1>1. TypeOK'
    BY DEF FeedInv, TypeOK
  <1>2. FoundInTime' /\ Requested'
    BY DEF FeedInv, FoundInTime, Requested
  <1>3. late \subseteq late' /\ (requestedAt[b] <= top \/ requestedAt[b] <= lastSeen => b \in late')
    OBVIOUS
  <1>4. PageCovered'
    BY <1>3 DEF FeedInv, PageCovered, Explained
  <1>5. SkipsAreExplained'
    BY <1>3 DEF FeedInv, SkipsAreExplained, Explained
  <1> QED  BY <1>1, <1>2, <1>4, <1>5 DEF FeedInv

LEMMA FetchPageStep ==
    ASSUME FeedInv, NEW F \in SUBSET visible, FetchPage(F)
    PROVE  FeedInv'
  <1> USE DEF FetchPage, feedVars, proberVars, table
  <1>1. PICK n \in F : /\ top' = requestedAt[n]
                       /\ \A c \in F : requestedAt[c] <= requestedAt[n]
    BY DEF Newest
  <1>2. requestedAt \in [Blobs -> Times] /\ visible \subseteq Blobs /\ n \in visible
        /\ requestedAt[n] # 0 /\ requestedAt[n] \in Times
    BY DEF FeedInv, TypeOK, Requested
  <1>3. page' \subseteq visible /\ overflowed \subseteq overflowed' /\ overflowed' \subseteq Blobs
    BY <1>2 DEF NewBlobs, FeedInv, TypeOK
  <1>4. TypeOK'
    BY <1>1, <1>2, <1>3 DEF FeedInv, TypeOK
  <1>5. FoundInTime' /\ Requested'
    BY DEF FeedInv, FoundInTime, Requested
  <1>6. SkipsAreExplained'
    BY <1>3 DEF FeedInv, SkipsAreExplained, Explained
  <1>7. ASSUME NEW c \in visible
        PROVE  c \in page' \/ c \in observed \/ Explained(c)'
    <2>1. requestedAt[c] \in Nat /\ lastSeen \in Nat
      BY <1>2 DEF FeedInv, TypeOK, Times
    <2>2. CASE requestedAt[c] <= lastSeen
      BY <1>3, <2>2 DEF FeedInv, SkipsAreExplained, Explained
    <2>3. CASE requestedAt[c] > lastSeen /\ c \in F
      BY <2>3 DEF NewBlobs
    <2>4. CASE requestedAt[c] > lastSeen /\ c \notin F
      BY <2>4 DEF Explained
    <2> QED  BY <2>1, <2>2, <2>3, <2>4
  <1>8. PageCovered'
    BY <1>1, <1>2, <1>7 DEF PageCovered
  <1> QED  BY <1>4, <1>5, <1>6, <1>8 DEF FeedInv

\* A turn of the loop, whether the statement fails or not.
LEMMA CollectStep ==
    ASSUME FeedInv, NEW b \in page, CollectBlob(b) \/ CollectFails(b)
    PROVE  FeedInv'
  <1> USE DEF CollectBlob, CollectFails, feedVars, proberVars, table
  <1>1. b \in Blobs /\ page \subseteq visible
    BY DEF FeedInv, TypeOK
  <1>2. /\ page' = page \ {b} /\ observed \subseteq observed' /\ failed \subseteq failed'
        /\ b \in observed' \cup failed'
        /\ UNCHANGED <<visible, requestedAt, now, lastSeen, top, overflowed, late, ppc, dispersed, found>>
    BY DEF UpsertBlob
  <1>3. /\ observed' \subseteq Blobs /\ failed' \subseteq Blobs
        /\ complete' \subseteq observed' /\ self' \subseteq observed'
        /\ latency' \in [Blobs -> Ours \cup {NoBlob}]
    <2>1. CASE CollectBlob(b)
      <3>1. UpsertBlob(b, TRUE, FALSE, NoBlob) /\ TypeOK /\ failed' = failed
        BY <2>1 DEF FeedInv
      <3> QED  BY <1>1, <3>1, UpsertAdds DEF TypeOK
    <2>2. CASE CollectFails(b)
      BY <1>1, <2>2 DEF FeedInv, TypeOK
    <2> QED  BY <2>1, <2>2
  <1>4. TypeOK'
    BY <1>1, <1>2, <1>3 DEF FeedInv, TypeOK
  <1>5. FoundInTime' /\ Requested'
    BY <1>2 DEF FeedInv, FoundInTime, Requested
  <1>6. PageCovered'
    BY <1>2 DEF FeedInv, PageCovered, Explained
  <1>7. SkipsAreExplained'
    BY <1>2 DEF FeedInv, SkipsAreExplained, Explained
  <1> QED  BY <1>4, <1>5, <1>6, <1>7 DEF FeedInv

LEMMA AdvanceWatermarkStep ==
    ASSUME FeedInv, AdvanceWatermark
    PROVE  FeedInv'
  <1> USE DEF AdvanceWatermark, feedVars, proberVars, table
  <1>0. 0 \in Times
    BY DEF Times
  <1>1. TypeOK'
    BY <1>0 DEF FeedInv, TypeOK
  <1>2. FoundInTime' /\ Requested' /\ PageCovered'
    BY DEF FeedInv, FoundInTime, Requested, PageCovered
  <1>3. SkipsAreExplained'
    BY DEF FeedInv, PageCovered, SkipsAreExplained, Explained
  <1> QED  BY <1>1, <1>2, <1>3 DEF FeedInv

LEMMA DisperseStep ==
    ASSUME FeedInv, NEW b \in Ours, Disperse(b)
    PROVE  FeedInv'
  <1> USE DEF Disperse, collectorVars, table
  <1>1. b \notin visible /\ b \in Blobs
    BY DEF FeedInv, Requested
  <1>2. \A c \in visible : requestedAt'[c] = requestedAt[c]
    BY <1>1 DEF FeedInv, TypeOK
  <1>3. requestedAt' \in [Blobs -> Times]
    BY DEF FeedInv, TypeOK
  <1>4. TypeOK'
    BY <1>3 DEF FeedInv, TypeOK
  <1>5. FoundInTime' /\ now' # 0
    BY DEF FeedInv, FoundInTime, Requested
  <1> QED  BY <1>2, <1>4, <1>5, CollectorUntouched DEF FeedInv

\* The prober goes on or returns without writing.
LEMMA ProberStep ==
    ASSUME FeedInv,
           \/ ProxyConfirms \/ ProxyFails \/ FindsNothing \/ RecordDispersalFails
           \/ \E F \in SUBSET visible : FindSelfBlob(F)
    PROVE  FeedInv'
  <1> USE DEF ProxyConfirms, ProxyFails, FindsNothing, RecordDispersalFails, FindSelfBlob,
              ReturnFromDisperse, feedVars, collectorVars, table
  <1>1. /\ UNCHANGED <<feedVars, collectorVars, table, late>>
        /\ ppc' \in {"idle", "finding", "writing"}
        /\ dispersed' \in Ours \cup {NoBlob} /\ found' \in Ours \cup {NoBlob}
    BY DEF Newest, FeedInv, TypeOK
  <1>2. FoundInTime'
    BY DEF Newest, FeedInv, FoundInTime
  <1>3. TypeOK'
    BY <1>1 DEF FeedInv, TypeOK
  <1>4. Requested' /\ PageCovered' /\ SkipsAreExplained'
    BY <1>1, CollectorUntouched DEF FeedInv, Requested
  <1> QED  BY <1>2, <1>3, <1>4 DEF FeedInv

LEMMA RecordDispersalStep ==
    ASSUME FeedInv, RecordDispersal
    PROVE  FeedInv'
  <1> USE DEF RecordDispersal, ReturnFromDisperse, feedVars, collectorVars
  <1>1. found \in Blobs /\ dispersed \in Ours /\ TypeOK
    BY DEF FeedInv, FoundInTime
  <1>2. UpsertBlob(found, FALSE, TRUE, dispersed)
    OBVIOUS
  <1>3. /\ observed' = observed \cup {found}
        /\ self' \subseteq observed' /\ complete' \subseteq observed'
        /\ latency' \in [Blobs -> Ours \cup {NoBlob}]
    BY <1>1, <1>2, UpsertAdds
  <1>4. TypeOK'
    BY <1>1, <1>3 DEF TypeOK
  <1>5. FoundInTime' /\ Requested'
    BY DEF FeedInv, FoundInTime, Requested
  <1>6. PageCovered' /\ SkipsAreExplained'
    BY <1>3 DEF FeedInv, PageCovered, SkipsAreExplained, Explained
  <1> QED  BY <1>4, <1>5, <1>6 DEF FeedInv

LEMMA CrashStep ==
    ASSUME FeedInv, Crash
    PROVE  FeedInv'
  <1> USE DEF Crash, ReturnFromDisperse, feedVars, table
  <1>0. 0 \in Times
    BY DEF Times
  <1>1. TypeOK'
    BY <1>0 DEF FeedInv, TypeOK
  <1>2. FoundInTime' /\ Requested' /\ PageCovered'
    BY DEF FeedInv, FoundInTime, Requested, PageCovered
  <1>3. \A b \in visible : ~(requestedAt[b] <= 0)
    BY DEF FeedInv, Requested, TypeOK, Times
  <1>4. SkipsAreExplained'
    BY <1>3 DEF SkipsAreExplained
  <1> QED  BY <1>1, <1>2, <1>4 DEF FeedInv

LEMMA FeedStep == FeedInv /\ [Next]_vars => FeedInv'
  <1> SUFFICES ASSUME FeedInv, [Next]_vars PROVE FeedInv'
    OBVIOUS
  <1>1. CASE UNCHANGED vars
    <2> USE <1>1 DEF vars, feedVars, collectorVars, proberVars, table
    <2>1. TypeOK' /\ FoundInTime'
      BY DEF FeedInv, TypeOK, FoundInTime
    <2>2. Requested' /\ PageCovered' /\ SkipsAreExplained'
      BY CollectorUntouched DEF FeedInv, Requested
    <2> QED  BY <2>1, <2>2 DEF FeedInv
  <1> QED  BY <1>1, FeedStepTick, RequestStep, ListStep, FetchPageStep, CollectStep,
              AdvanceWatermarkStep, DisperseStep, ProberStep, RecordDispersalStep, CrashStep DEF Next
-----------------------------------------------------------------------------
(* The conjunction that makes the properties inductive.                      *)
THEOREM FeedInvariant == Spec => []FeedInv
  BY FeedInit, FeedStep, PTL DEF Spec

(* Every reachable state has its type.                                       *)
THEOREM TypeCorrect == Spec => []TypeOK
  <1>1. FeedInv => TypeOK
    BY DEF FeedInv
  <1> QED  BY <1>1, FeedInvariant, PTL

(* A listed blob the watermark has passed has a row, or its upsert failed, or *)
(* a page had no room for it, or it was listed too late: no other reason.     *)
THEOREM NothingElseIsSkipped == Spec => []SkipsAreExplained
  <1>1. FeedInv => SkipsAreExplained
    BY DEF FeedInv
  <1> QED  BY <1>1, FeedInvariant, PTL
-----------------------------------------------------------------------------
(* A page, from the answer of the feed to the move of the watermark: the half  *)
(* of EventuallyAccounted that needs no fairness.                            *)

(* A non-empty set of numbers has a least member.                            *)
LEMMA LeastNumber ==
    ASSUME NEW T \in SUBSET Nat, T # {}
    PROVE  \E m \in T : \A k \in T : m <= k
  <1>1. PICK m \in T : \A k \in T : ~(<<k, m>> \in OpToRel(<, Nat))
    BY NatLessThanWellFounded, WFMin, Zenon
  <1>2. \A k \in T : ~(k < m)
    BY <1>1 DEF OpToRel
  <1> QED  BY <1>2

(* A page has at most the 100 blobs of the feed, and one whose turn it is as   *)
(* long as one is left.                                                      *)
PageFits == Cardinality(page) <= FeedLimit
PageBounded ==
    /\ PageFits
    /\ page # {} => \E b \in page : b \in Newest(page)

LEMMA PageHasNewest ==
    ASSUME TypeOK, page # {}
    PROVE  \E b \in page : b \in Newest(page)
  <1> DEFINE age(b) == MaxTime - requestedAt[b]
             ages == {age(b) : b \in page}
  <1>1. \A b \in page : requestedAt[b] \in Nat /\ requestedAt[b] <= MaxTime
    BY DEF TypeOK, Times
  <1>2. ages \in SUBSET Nat /\ ages # {}
    BY <1>1
  <1>3. PICK m \in ages : \A k \in ages : m <= k
    <2> HIDE DEF ages
    <2> QED  BY <1>2, LeastNumber
  <1>4. PICK b \in page : m = age(b)
    BY <1>3
  <1>5. ASSUME NEW c \in page
        PROVE  requestedAt[c] <= requestedAt[b]
    <2>1. age(b) <= age(c)
      BY <1>3, <1>4
    <2> QED  BY <1>1, <2>1
  <1> QED  BY <1>5 DEF Newest

LEMMA PageStep == TypeOK /\ PageFits /\ [Next]_vars => PageFits'
  <1> SUFFICES ASSUME TypeOK, Cardinality(page) <= FeedLimit, [Next]_vars
               PROVE  Cardinality(page') <= FeedLimit
    BY DEF PageFits
  <1>f. visible \subseteq Blobs /\ IsFiniteSet(visible) /\ IsFiniteSet(page)
        /\ Cardinality(page) \in Nat
    BY FS_Subset, FS_CardinalityType DEF TypeOK
  <1>1. ASSUME NEW F \in SUBSET visible, FetchPage(F)
        PROVE  Cardinality(page') <= FeedLimit
    <2>1. page' \subseteq F /\ Cardinality(F) <= FeedLimit
      BY <1>1 DEF FetchPage, NewBlobs, IsPage
    <2>2. IsFiniteSet(F) /\ Cardinality(F) \in Nat
      BY <1>f, FS_Subset, FS_CardinalityType
    <2>3. Cardinality(page') <= Cardinality(F) /\ Cardinality(page') \in Nat
      BY <2>1, <2>2, FS_Subset, FS_CardinalityType
    <2> QED  BY <2>1, <2>2, <2>3
  <1>2. ASSUME page' \subseteq page
        PROVE  Cardinality(page') <= FeedLimit
    <2>1. Cardinality(page') <= Cardinality(page) /\ Cardinality(page') \in Nat
      BY <1>2, <1>f, FS_Subset, FS_CardinalityType
    <2> QED  BY <1>f, <2>1
  <1>3. page' \subseteq page \/ \E F \in SUBSET visible : FetchPage(F)
    BY DEF Next, Tick, Request, List, CollectBlob, CollectFails, AdvanceWatermark, Disperse,
           ProxyConfirms, ProxyFails, FindSelfBlob, FindsNothing, RecordDispersal,
           RecordDispersalFails, Crash, collectorVars, vars
  <1> QED  BY <1>1, <1>2, <1>3

(* A page never holds more than FeedLimit blobs, and while it holds one the     *)
(* loop of collectBlobs has a newest one to turn to.                         *)
THEOREM PagesAreBounded == Spec => []PageBounded
  <1>1. Init => PageFits
    BY FS_EmptySet DEF Init, PageFits
  <1>2. TypeOK /\ PageFits => PageBounded
    BY PageHasNewest DEF PageBounded, PageFits
  <1> QED  BY <1>1, <1>2, PageStep, TypeCorrect, PTL DEF Spec

(* The page that is fetched, with the rows and the reasons there are, accounts *)
(* for every blob listed by then, and nothing leaves it without a row or a     *)
(* failed upsert but by a kill; it only shrinks, and the watermark moves when  *)
(* it is empty, forward, and is lost only by a kill.  So a page accounts for   *)
(* all that was listed when it was read, in no more turns than it has blobs.  *)
PageAccounts ==
    /\ \A F \in SUBSET visible : FetchPage(F) =>
          page = {} /\ \A b \in visible : b \in page' \/ b \in observed \/ Explained(b)'
    /\ ~Crash => \A b \in page \ page' : b \in observed' \/ b \in failed'
    /\ page' \subseteq page \/ \E F \in SUBSET visible : FetchPage(F)
    /\ lastSeen' # lastSeen =>
          Crash \/ (AdvanceWatermark /\ lastSeen < lastSeen' /\ lastSeen' = top /\ page = {})

(* Every page collectBlobs reads is accounted for when the watermark moves,     *)
(* through every order of the steps of both writers.                         *)
THEOREM PagesAccount == Spec => [][PageAccounts]_vars
  <1>1. ASSUME FeedInv, [Next]_vars
        PROVE  PageAccounts
    <2>t. TypeOK /\ SkipsAreExplained
      BY <1>1 DEF FeedInv
    <2>1. ASSUME NEW F \in SUBSET visible, FetchPage(F), NEW b \in visible
          PROVE  b \in page' \/ b \in observed \/ Explained(b)'
      <3>1. requestedAt[b] \in Nat /\ lastSeen \in Nat
        BY <2>t DEF TypeOK, Times
      <3>2. /\ page' = NewBlobs(F) /\ UNCHANGED <<failed, late>>
            /\ overflowed' = overflowed \cup {c \in visible \ F : requestedAt[c] > lastSeen}
        BY <2>1 DEF FetchPage
      <3>3. CASE requestedAt[b] <= lastSeen
        BY <2>t, <3>2, <3>3 DEF SkipsAreExplained, Explained
      <3>4. CASE requestedAt[b] > lastSeen /\ b \in F
        BY <3>2, <3>4 DEF NewBlobs
      <3>5. CASE requestedAt[b] > lastSeen /\ b \notin F
        BY <3>2, <3>5 DEF Explained
      <3> QED  BY <3>1, <3>3, <3>4, <3>5
    <2>2. ASSUME NEW F \in SUBSET visible, FetchPage(F)
          PROVE  page = {}
      BY <1>1, <2>2 DEF FetchPage, FeedInv, PageCovered
    <2>3. ASSUME NEW b \in page, CollectBlob(b) \/ CollectFails(b)
          PROVE  page' = page \ {b} /\ (b \in observed' \/ b \in failed')
      BY <2>3 DEF CollectBlob, CollectFails, UpsertBlob
    <2>4. AdvanceWatermark => page' = page /\ page = {}
      BY DEF AdvanceWatermark
    <2>5. \/ page' = page
          \/ Crash \/ \E F \in SUBSET visible : FetchPage(F)
          \/ \E b \in page : CollectBlob(b) \/ CollectFails(b)
      BY <1>1 DEF Next, Tick, Request, List, AdvanceWatermark, Disperse, ProxyConfirms,
             ProxyFails, FindSelfBlob, FindsNothing, RecordDispersal, RecordDispersalFails,
             collectorVars, vars
    <2>6. ~Crash => \A b \in page \ page' : b \in observed' \/ b \in failed'
      BY <2>2, <2>3, <2>5
    <2>7. page' \subseteq page \/ \E F \in SUBSET visible : FetchPage(F)
      BY <2>3, <2>5 DEF Crash
    <2>8. ASSUME lastSeen' # lastSeen
          PROVE  \/ Crash
                 \/ AdvanceWatermark /\ lastSeen < lastSeen' /\ lastSeen' = top /\ page = {}
      <3>1. Crash \/ AdvanceWatermark
        BY <1>1, <2>8 DEF Next, Tick, Request, List, FetchPage, CollectBlob, CollectFails,
               Disperse, ProxyConfirms, ProxyFails, FindSelfBlob, FindsNothing,
               RecordDispersal, RecordDispersalFails, collectorVars, vars
      <3> QED  BY <2>8, <3>1, <2>t DEF AdvanceWatermark, TypeOK, Times
    <2> QED  BY <2>1, <2>2, <2>6, <2>7, <2>8 DEF PageAccounts
  <1> QED  BY <1>1, FeedInvariant, PTL DEF Spec
-----------------------------------------------------------------------------
(* What is certain of a latency although the blob it is recorded for need not  *)
(* be the one that was timed: times of request only become known, the          *)
(* dispersal in hand is the latest of ours, and what is found is ours.        *)
DispersalsInOrder ==
    /\ \A b \in Blobs : requestedAt[b] <= now
    /\ ppc # "idle" => /\ requestedAt[dispersed] # 0
                       /\ \A o \in Ours : requestedAt[o] <= requestedAt[dispersed]
    /\ ppc = "writing" => requestedAt[found] # 0

(* Only our own blobs are flagged, those with a latency; and a latency is of   *)
(* the blob itself or of a dispersal of ours requested no earlier than it.    *)
FlagsAreOurs ==
    /\ self \subseteq Ours
    /\ \A b \in Blobs : latency[b] # NoBlob <=> b \in self
    /\ \A b \in self : /\ requestedAt[b] # 0 /\ requestedAt[latency[b]] # 0
                       /\ requestedAt[b] <= requestedAt[latency[b]]

LatencyInv == DispersalsInOrder /\ FlagsAreOurs

\* A time of request, once it is known, stays, and no later one is known than now.
RequestsStay ==
    /\ now <= now'
    /\ \A b \in Blobs : /\ requestedAt[b] # 0 => requestedAt'[b] = requestedAt[b]
                        /\ requestedAt'[b] \in {requestedAt[b], now}

LEMMA RequestsStayStep ==
    ASSUME TypeOK, [Next]_vars
    PROVE  RequestsStay
  <1>1. ASSUME NEW b \in Blobs, Request(b)
        PROVE  RequestsStay
    <2>1. /\ now' = now /\ requestedAt[b] = 0
          /\ \A c \in Blobs : requestedAt'[c] = IF c = b THEN now ELSE requestedAt[c]
      BY <1>1 DEF Request, TypeOK
    <2> QED  BY <2>1 DEF RequestsStay, TypeOK, Times
  <1>2. ASSUME NEW b \in Ours, Disperse(b)
        PROVE  RequestsStay
    <2>1. /\ now' = now /\ requestedAt[b] = 0
          /\ \A c \in Blobs : requestedAt'[c] = IF c = b THEN now ELSE requestedAt[c]
      BY <1>2 DEF Disperse, TypeOK
    <2> QED  BY <2>1 DEF RequestsStay, TypeOK, Times
  <1>3. ASSUME requestedAt' = requestedAt, now' \in {now, now + 1}
        PROVE  RequestsStay
    BY <1>3 DEF RequestsStay, TypeOK, Times
  <1>4. \/ (\E b \in Blobs : Request(b)) \/ (\E b \in Ours : Disperse(b))
        \/ requestedAt' = requestedAt /\ now' \in {now, now + 1}
    BY DEF Next, Tick, List, FetchPage, CollectBlob, CollectFails, AdvanceWatermark,
           ProxyConfirms, ProxyFails, FindSelfBlob, FindsNothing, RecordDispersal,
           RecordDispersalFails, Crash, feedVars, vars
  <1> QED  BY <1>1, <1>2, <1>3, <1>4

\* The rows that are there stay as they are, as do the times they rest on.
LEMMA FlagsUntouched ==
    ASSUME FeedInv, LatencyInv, RequestsStay, self' = self, latency' = latency
    PROVE  FlagsAreOurs'
  <1>1. \A b \in self : b \in Blobs /\ latency[b] \in Blobs
    BY DEF LatencyInv, FlagsAreOurs, FeedInv, TypeOK
  <1> QED  BY <1>1 DEF LatencyInv, FlagsAreOurs, RequestsStay

LEMMA LatencyStep == FeedInv /\ LatencyInv /\ [Next]_vars => LatencyInv'
  <1> SUFFICES ASSUME FeedInv, LatencyInv, [Next]_vars PROVE LatencyInv'
    OBVIOUS
  <1>t. TypeOK /\ FoundInTime /\ Requested
    BY DEF FeedInv
  <1>n. /\ now \in Nat /\ now # 0 /\ now' \in Nat
        /\ \A b \in Blobs : requestedAt[b] \in Nat /\ requestedAt'[b] \in Nat
    <2>1. TypeOK'
      BY FeedStep DEF FeedInv
    <2> QED  BY <1>t, <2>1 DEF TypeOK, Times, Requested
  <1>r. RequestsStay
    BY <1>t, RequestsStayStep
  <1>o. \A b \in Blobs : requestedAt'[b] <= now'
    BY <1>n, <1>r DEF LatencyInv, DispersalsInOrder, RequestsStay
  <1>1. ASSUME NEW b \in Ours, Disperse(b)
        PROVE  LatencyInv'
    <2>1. /\ requestedAt'[b] = now /\ dispersed' = b /\ now' = now /\ ppc' = "posting"
          /\ UNCHANGED <<self, latency>>
      BY <1>1, <1>t DEF Disperse, table, TypeOK
    <2>2. DispersalsInOrder'
      BY <1>n, <1>o, <2>1 DEF DispersalsInOrder
    <2> QED  BY <1>r, <2>1, <2>2, FlagsUntouched DEF LatencyInv
  <1>2. ASSUME ppc' # "idle" => ppc # "idle" /\ dispersed' = dispersed,
               ppc' = "writing" => found' \in Ours /\ requestedAt[found'] # 0,
               \A o \in Ours : requestedAt'[o] = requestedAt[o]
        PROVE  DispersalsInOrder'
    <2>1. ppc # "idle" => dispersed \in Ours
      BY <1>t DEF FoundInTime
    <2> QED  BY <1>2, <1>o, <2>1 DEF LatencyInv, DispersalsInOrder
  <1>3. CASE RecordDispersal
    <2>1. /\ found \in Ours /\ dispersed \in Ours /\ ppc' = "idle" /\ ppc = "writing"
          /\ UpsertBlob(found, FALSE, TRUE, dispersed) /\ requestedAt' = requestedAt
      BY <1>3, <1>t DEF RecordDispersal, ReturnFromDisperse, FoundInTime, feedVars
    <2>2. /\ self' = self \cup {found}
          /\ \A b \in Blobs : latency'[b] = IF b = found THEN dispersed ELSE latency[b]
      BY <1>t, <2>1 DEF UpsertBlob, TypeOK
    <2>3. /\ requestedAt[dispersed] # 0 /\ requestedAt[found] <= requestedAt[dispersed]
          /\ requestedAt[found] # 0
      BY <2>1 DEF LatencyInv, DispersalsInOrder
    <2>4. FlagsAreOurs'
      BY <2>1, <2>2, <2>3 DEF LatencyInv, FlagsAreOurs
    <2>5. DispersalsInOrder'
      BY <1>2, <2>1
    <2> QED  BY <2>4, <2>5 DEF LatencyInv
  <1>4. ASSUME self' = self, latency' = latency,
               ppc' # "idle" => ppc # "idle" /\ dispersed' = dispersed,
               ppc' = "writing" => found' \in Ours /\ requestedAt[found'] # 0,
               \A o \in Ours : requestedAt'[o] = requestedAt[o]
        PROVE  LatencyInv'
    BY <1>2, <1>4, <1>r, FlagsUntouched DEF LatencyInv
  <1>5. ASSUME NEW b \in page, CollectBlob(b)
        PROVE  self' = self /\ latency' = latency
    BY <1>5 DEF CollectBlob, UpsertBlob
  <1>6. ASSUME NEW b \in Blobs, Request(b)
        PROVE  \A o \in Ours : requestedAt'[o] = requestedAt[o]
    BY <1>6, <1>t DEF Request, TypeOK
  <1>7. ASSUME NEW F \in SUBSET visible, FindSelfBlob(F)
        PROVE  LatencyInv'
    <2>1. found' \in Ours /\ found' \in visible
      BY <1>7 DEF FindSelfBlob, Newest
    <2>2. requestedAt[found'] # 0
      BY <1>t, <2>1 DEF Requested
    <2> QED  BY <1>4, <1>7, <2>1, <2>2 DEF FindSelfBlob, feedVars, table
  <1>w. ppc = "writing" => found \in Ours /\ requestedAt[found] # 0
    BY <1>t DEF FoundInTime, LatencyInv, DispersalsInOrder
  <1>8. \/ (\E b \in Ours : Disperse(b)) \/ RecordDispersal
        \/ \E F \in SUBSET visible : FindSelfBlob(F)
        \/ /\ self' = self /\ latency' = latency
           /\ ppc' # "idle" => ppc # "idle" /\ dispersed' = dispersed
           /\ ppc' = "writing" => ppc = "writing" /\ found' = found
           /\ \A o \in Ours : requestedAt'[o] = requestedAt[o]
    BY <1>5, <1>6 DEF Next, Tick, Request, List, FetchPage, CollectBlob, CollectFails,
           AdvanceWatermark, ProxyConfirms, ProxyFails, FindsNothing, RecordDispersalFails,
           Crash, ReturnFromDisperse, feedVars, proberVars, table, vars
  <1> QED  BY <1>1, <1>3, <1>4, <1>7, <1>8, <1>w

(* No row of somebody else's blob is ever flagged or timed, and a latency is   *)
(* never that of a dispersal requested before the blob's own: the wrong one    *)
(* the prober may record is of one requested at the same time or later.      *)
THEOREM LatencyIsNeverEarlier == Spec => []FlagsAreOurs
  <1>1. Init => LatencyInv
    BY DEF Init, LatencyInv, DispersalsInOrder, FlagsAreOurs
  <1>2. LatencyInv => FlagsAreOurs
    BY DEF LatencyInv
  <1> QED  BY <1>1, <1>2, LatencyStep, FeedInvariant, PTL DEF Spec

(* Through every order of upserts by both writers, and through restarts, a    *)
(* row keeps its flag and the columns of its first writer, and its latency    *)
(* gives way only to that of a dispersal of ours requested no earlier.       *)
THEOREM RowsNeverDegrade == Spec => RowNeverDegrades
  <1> DEFINE Kept ==
        /\ self \subseteq self'
        /\ \A b \in observed : b \in observed' /\ (b \in complete' <=> b \in complete)
        /\ \A b \in Blobs : latency[b] # NoBlob =>
              /\ latency'[b] # NoBlob
              /\ requestedAt[latency[b]] <= requestedAt[latency'[b]]
  <1>1. FeedInv /\ LatencyInv /\ [Next]_vars => [Kept]_vars
    <2> SUFFICES ASSUME FeedInv, LatencyInv, Next PROVE Kept
      OBVIOUS
    <2>t. TypeOK
      BY DEF FeedInv
    <2>n. \A b \in Blobs : latency[b] # NoBlob =>
              latency[b] \in Ours /\ requestedAt[latency[b]] \in Nat
      BY <2>t DEF TypeOK, Times
    <2>1. ASSUME NEW b \in page, CollectBlob(b)
          PROVE  Kept
      <3>1. b \in Blobs /\ UpsertBlob(b, TRUE, FALSE, NoBlob)
        BY <2>1, <2>t DEF CollectBlob, TypeOK
      <3> QED  BY <2>n, <3>1 DEF UpsertBlob
    <2>2. CASE RecordDispersal
      <3>1. /\ found \in Blobs /\ dispersed \in Ours /\ dispersed # NoBlob /\ ppc = "writing"
            /\ UpsertBlob(found, FALSE, TRUE, dispersed)
        BY <2>2 DEF RecordDispersal, FeedInv, FoundInTime
      <3>2. \A o \in Ours : requestedAt[o] <= requestedAt[dispersed]
        BY <3>1 DEF LatencyInv, DispersalsInOrder
      <3>3. \A b \in Blobs : latency'[b] = IF b = found THEN dispersed ELSE latency[b]
        BY <2>t, <3>1 DEF UpsertBlob, TypeOK
      <3>4. /\ self \subseteq self'
            /\ \A b \in observed : b \in observed' /\ (b \in complete' <=> b \in complete)
        BY <3>1 DEF UpsertBlob
      <3>5. \A b \in Blobs : latency[b] # NoBlob =>
                /\ latency'[b] # NoBlob
                /\ requestedAt[latency[b]] <= requestedAt[latency'[b]]
        BY <2>n, <3>1, <3>2, <3>3
      <3> QED  BY <3>4, <3>5
    <2>3. CASE UNCHANGED table
      BY <2>n, <2>3 DEF table
    <2> QED  BY <2>1, <2>2, <2>3
             DEF Next, Tick, Request, List, FetchPage, CollectFails, AdvanceWatermark, Disperse,
                 ProxyConfirms, ProxyFails, FindSelfBlob, FindsNothing, RecordDispersalFails, Crash
  <1>2. Init => LatencyInv
    BY DEF Init, LatencyInv, DispersalsInOrder, FlagsAreOurs
  <1> QED  BY <1>1, <1>2, LatencyStep, FeedInvariant, PTL DEF Spec, RowNeverDegrades
=============================================================================
