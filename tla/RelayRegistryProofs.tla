------------------------- MODULE RelayRegistryProofs -------------------------
(***************************************************************************)
(* Proofs about the relay registry: the search explains its result, and an   *)
(* answer is never staler than the time to live and one call, for every      *)
(* number of callers, relays and names, and every length of the two times.   *)
(***************************************************************************)
EXTENDS RelayRegistry, TLAPS

USE NamesAssumption, TimesAssumption

(* The states of a call are told apart by their stage.                       *)
LEMMA CallStates ==
    ASSUME TypeOK, NEW c \in Callers
    PROVE  \/ call[c] = Idle /\ call[c].stage = "idle"
           \/ \E k \in RelayKeys, n \in 0..MaxCall :
                 call[c] = Calling(k, n) /\ call[c].stage = "calling"
           \/ \E k \in RelayKeys, u \in Versions, n \in 0..MaxCall :
                 call[c] = Returning(k, u, n) /\ call[c].stage = "returning"
  <1>. call[c] \in Calls
    BY DEF TypeOK, CacheType
  <1> QED  BY DEF Calls, Idle, Calling, Returning

(* Nobody asks before the registry was found.                                *)
LEMMA TypeInit == Init => TypeOK
  BY DEF Init, TypeOK, StartType, CacheType, CallersWait, Calls, Versions,
     Horizon, Names

(* The steps of NewFromDirectory leave the callers waiting.                  *)
LEMMA StartKeepsType ==
    ASSUME TypeOK,
           \/ \E n \in {{}, Listed} : GetAllNames(n)
           \/ \E n \in Names, answered \in BOOLEAN : GetAddress(n, answered)
           \/ SearchListed
           \/ NotFound
    PROVE  TypeOK'
  <1>1. phase # "ready" /\ UNCHANGED <<contractVars, cache, call, answer>>
    BY DEF TypeOK, StartType, GetAllNames, GetAddress, SearchListed, NotFound
  <1>2. CacheType' /\ CallersWait'
    BY <1>1 DEF TypeOK, CacheType, CallersWait, contractVars
  <1>3. ASSUME NEW n \in {{}, Listed}, GetAllNames(n)
        PROVE  StartType'
    BY <1>3 DEF TypeOK, StartType, GetAllNames
  <1>4. ASSUME NEW n \in Names, NEW answered \in BOOLEAN, GetAddress(n, answered)
        PROVE  StartType'
    BY <1>4, <1>1 DEF TypeOK, StartType, GetAddress, Take, Names
  <1>5. CASE SearchListed
    BY <1>5, <1>2 DEF TypeOK, StartType, SearchListed
  <1>6. CASE NotFound
    BY <1>6, <1>2 DEF TypeOK, StartType, NotFound
  <1> QED  BY <1>2, <1>3, <1>4, <1>5, <1>6 DEF TypeOK

(* The steps of the callers, of the contract and of time.                    *)
LEMMA CallsKeepType ==
    ASSUME TypeOK,
           \/ \E k \in RelayKeys : SetURL(k)
           \/ Tick
           \/ \E c \in Callers, k \in RelayKeys : Hit(c, k) \/ Miss(c, k)
           \/ \E c \in Callers : CallContract(c) \/ CallFails(c) \/ Store(c)
    PROVE  TypeOK'
  <1>1. ASSUME NEW k \in RelayKeys, SetURL(k)
        PROVE  TypeOK'
    BY <1>1 DEF SetURL, TypeOK, StartType, CacheType, CallersWait, startVars,
       Versions, Horizon
  <1>2. ASSUME Tick
        PROVE  TypeOK'
    <2>1. \A c \in Callers : call'[c] \in Calls
      <3> SUFFICES ASSUME NEW c \in Callers
                   PROVE  call'[c] \in Calls
        OBVIOUS
      <3>1. CASE call[c] = Idle
        BY <1>2, <3>1 DEF Tick, Calls
      <3>2. ASSUME NEW k \in RelayKeys, NEW n \in 0..MaxCall, call[c] = Calling(k, n)
            PROVE  call'[c] \in Calls
        <4>1. call[c] # Idle /\ n < MaxCall
          BY <1>2, <3>2 DEF Tick, Calling, Idle
        <4>2. call'[c] = Calling(k, n + 1)
          BY <1>2, <3>2, <4>1 DEF Tick, Calling
        <4> QED  BY <4>1, <4>2 DEF Calls
      <3>3. ASSUME NEW k \in RelayKeys, NEW u \in Versions, NEW n \in 0..MaxCall,
                   call[c] = Returning(k, u, n)
            PROVE  call'[c] \in Calls
        <4>1. call[c] # Idle /\ n < MaxCall
          BY <1>2, <3>3 DEF Tick, Returning, Idle
        <4>2. call'[c] = Returning(k, u, n + 1)
          BY <1>2, <3>3, <4>1 DEF Tick, Returning
        <4> QED  BY <4>1, <4>2 DEF Calls
      <3> QED  BY <3>1, <3>2, <3>3, CallStates
    <2>2. settled' \in [RelayKeys -> 0..Horizon]
      BY <1>2 DEF Tick, TypeOK, CacheType, Older, Horizon
    <2>3. cache' \in [RelayKeys -> {NoEntry} \cup [url : Versions, age : 0..Ttl]]
      BY <1>2 DEF Tick, TypeOK, CacheType, Older
    <2>4. StartType' /\ CallersWait'
      BY <1>2 DEF Tick, TypeOK, StartType, CallersWait, startVars
    <2> QED  BY <1>2, <2>1, <2>2, <2>3, <2>4 DEF Tick, TypeOK, CacheType
  <1>3. ASSUME NEW c \in Callers, NEW k \in RelayKeys, Hit(c, k)
        PROVE  TypeOK'
    <2>1. cache[k].url \in Versions
      BY <1>3 DEF Hit, Fresh, TypeOK, CacheType
    <2> QED  BY <1>3, <2>1 DEF Hit, TypeOK, StartType, CacheType, CallersWait,
                startVars, contractVars
  <1>4. ASSUME NEW c \in Callers, NEW k \in RelayKeys, Miss(c, k)
        PROVE  TypeOK'
    <2>1. Calling(k, 0) \in Calls
      BY DEF Calls
    <2> QED  BY <1>4, <2>1 DEF Miss, TypeOK, StartType, CacheType, CallersWait,
                startVars, contractVars
  <1>5. ASSUME NEW c \in Callers, CallContract(c)
        PROVE  TypeOK'
    <2>1. PICK k \in RelayKeys, n \in 0..MaxCall : call[c] = Calling(k, n)
      BY <1>5, CallStates DEF CallContract
    <2>2. call'[c] = Returning(k, url[k], n) /\ url[k] \in Versions
      BY <1>5, <2>1 DEF CallContract, Calling, TypeOK, CacheType
    <2>3. call'[c] \in Calls
      BY <2>2 DEF Calls
    <2>4. phase = "ready"
      BY <1>5 DEF TypeOK, CallersWait, CallContract, Idle
    <2> QED  BY <1>5, <2>3, <2>4 DEF CallContract, TypeOK, StartType, CacheType, CallersWait,
                startVars, contractVars
  <1>6. ASSUME NEW c \in Callers, CallFails(c)
        PROVE  TypeOK'
    <2>1. phase = "ready"
      BY <1>6 DEF TypeOK, CallersWait, CallFails, Idle
    <2> QED  BY <1>6, <2>1 DEF CallFails, TypeOK, StartType, CacheType, CallersWait,
                Calls, startVars, contractVars
  <1>7. ASSUME NEW c \in Callers, Store(c)
        PROVE  TypeOK'
    <2>1. PICK k \in RelayKeys, u \in Versions, n \in 0..MaxCall : call[c] = Returning(k, u, n)
      BY <1>7, CallStates DEF Store
    <2>2. call[c].key = k /\ call[c].got = u
      BY <2>1 DEF Returning
    <2>3. phase = "ready"
      BY <1>7 DEF TypeOK, CallersWait, Store, Idle
    <2> QED  BY <1>7, <2>2, <2>3 DEF Store, TypeOK, StartType, CacheType, CallersWait,
                Calls, startVars, contractVars
  <1> QED  BY <1>1, <1>2, <1>3, <1>4, <1>5, <1>6, <1>7

LEMMA TypeStep == TypeOK /\ [Next]_vars => TypeOK'
  <1>1. ASSUME TypeOK, UNCHANGED vars
        PROVE  TypeOK'
    BY <1>1 DEF vars, startVars, contractVars, TypeOK, StartType, CacheType, CallersWait
  <1> QED  BY <1>1, StartKeepsType, CallsKeepType DEF Next, Ended

(* Every reachable state has its type, however callers overlap.              *)
THEOREM TypeCorrect == Spec => []TypeOK
  BY TypeInit, TypeStep, PTL DEF Spec
-----------------------------------------------------------------------------
(* The search.  ResolutionIsExplained is not inductive: it says nothing of   *)
(* the turns that were passed before a name is found.                        *)

\* The turn of a name in the loop of the candidates or of the directory would find it.
Usable(loop, n) == n \in Registered /\ <<loop, n>> \notin unanswered

(* The turns the loops have passed were of no use, and those to come have not *)
(* failed.                                                                   *)
PassedTurns ==
    /\ phase = "listing" => unanswered = {}
    /\ phase = "candidates" =>
          /\ \A n \in Candidates \ asking : ~Usable("candidates", n)
          /\ \A n \in asking : <<"candidates", n>> \notin unanswered
          /\ \A n \in Names : <<"listed", n>> \notin unanswered
    /\ phase = "listed" =>
          /\ \A n \in Candidates : ~Usable("candidates", n)
          /\ \A n \in (names \cap Relayish) \ asking : ~Usable("listed", n)
          /\ \A n \in asking : <<"listed", n>> \notin unanswered

SearchInv == TypeOK /\ PassedTurns /\ ResolutionIsExplained

LEMMA SearchInit == Init => SearchInv
  BY TypeInit DEF Init, SearchInv, PassedTurns, ResolutionIsExplained

(* A name is found: it is of use, and the turns before its own were not.     *)
LEMMA TakeExplained ==
    ASSUME SearchInv, NEW n \in Names, GetAddress(n, TRUE), HasAddress(n, TRUE)
    PROVE  ResolutionIsExplained'
  <1> DEFINE turns == ({"candidates"} \X Candidates) \cup ({"listed"} \X (names \cap Relayish))
             usable == {t \in turns \ unanswered : t[2] \in Registered}
             Before(s, t) == IF s[1] = t[1] THEN s[2] < t[2] ELSE s[1] = "candidates"
  <1>1. /\ phase \in {"candidates", "listed"} /\ n \in asking /\ \A m \in asking : n <= m
        /\ n \in Registered /\ (phase = "listed" => n \in Relayish)
    BY DEF GetAddress, HasAddress, Skipped
  <1>2. address' = n /\ phase' = "ready" /\ unanswered' = unanswered /\ names' = names
    BY DEF GetAddress, Take
  <1>3. TypeOK /\ PassedTurns /\ Names \subseteq Nat /\ names \subseteq Names
    BY DEF SearchInv, TypeOK, StartType, Names
  <1>4. <<phase, n>> \in usable
    <2>1. CASE phase = "candidates"
      BY <1>1, <1>3, <2>1 DEF TypeOK, StartType, PassedTurns
    <2>2. CASE phase = "listed"
      BY <1>1, <1>3, <2>2 DEF TypeOK, StartType, PassedTurns
    <2> QED  BY <1>1, <2>1, <2>2
  <1>5. ASSUME NEW s \in usable
        PROVE  ~Before(s, <<phase, n>>)
    <2>1. \/ s = <<"candidates", s[2]>> /\ s[2] \in Candidates
          \/ s = <<"listed", s[2]>> /\ s[2] \in names \cap Relayish
      BY <1>5
    <2>2. PICK m \in Names : m = s[2] /\ m \in Registered /\ m \in Nat /\ s \notin unanswered
      BY <1>3, <1>5, <2>1 DEF Names
    <2>3. CASE phase = "candidates"
      <3>1. CASE s[1] = "candidates"
        <4>1. m \in asking
          BY <1>3, <2>1, <2>2, <2>3, <3>1 DEF PassedTurns, Usable
        <4> QED  BY <1>1, <1>3, <2>2, <2>3, <3>1, <4>1
      <3>2. CASE s[1] = "listed"
        BY <2>3, <3>2
      <3> QED  BY <2>1, <3>1, <3>2
    <2>4. CASE phase = "listed"
      <3>1. s[1] = "listed" /\ m \in asking
        BY <1>3, <2>1, <2>2, <2>4 DEF PassedTurns, Usable
      <3> QED  BY <1>1, <1>3, <2>2, <2>4, <3>1
    <2> QED  BY <1>1, <2>3, <2>4
  <1> QED  BY <1>2, <1>4, <1>5 DEF ResolutionIsExplained

LEMMA SearchStep == SearchInv /\ [Next]_vars => SearchInv'
  <1> SUFFICES ASSUME SearchInv, [Next]_vars
               PROVE  PassedTurns' /\ ResolutionIsExplained'
    BY TypeStep DEF SearchInv
  <1>t. TypeOK /\ PassedTurns
    BY DEF SearchInv
  <1>1. ASSUME NEW n \in {{}, Listed}, GetAllNames(n)
        PROVE  PassedTurns' /\ ResolutionIsExplained'
    BY <1>1, <1>t DEF GetAllNames, PassedTurns, ResolutionIsExplained
  <1>2. ASSUME NEW n \in Names, NEW answered \in BOOLEAN, GetAddress(n, answered)
        PROVE  PassedTurns' /\ ResolutionIsExplained'
    <2>1. CASE HasAddress(n, answered)
      <3>1. phase' = "ready" /\ GetAddress(n, TRUE) /\ HasAddress(n, TRUE)
        BY <1>2, <2>1 DEF GetAddress, Take, HasAddress
      <3> QED  BY <3>1, TakeExplained DEF PassedTurns
    <2>2. CASE ~HasAddress(n, answered)
      <3>1. /\ asking' = asking \ {n} /\ phase' = phase /\ names' = names
            /\ phase \in {"candidates", "listed"} /\ n \in asking
            /\ unanswered' \in {unanswered, unanswered \cup {<<phase, n>>}}
        BY <1>2, <2>2 DEF GetAddress
      <3>2. ~Skipped(n) => ~Usable(phase, n)'
        BY <1>2, <2>2 DEF GetAddress, HasAddress, Usable
      <3>3. \A m \in asking' : <<phase, m>> \notin unanswered'
        BY <1>t, <3>1 DEF PassedTurns
      <3>4. PassedTurns'
        <4>1. CASE phase = "candidates"
          <5>1. \A m \in Names : <<"listed", m>> \notin unanswered'
            <6>1. \A m \in Names : <<"listed", m>> \notin unanswered
              BY <1>t, <4>1 DEF PassedTurns
            <6>2. \A m \in Names : <<"listed", m>> # <<"candidates", n>>
              OBVIOUS
            <6>3. unanswered' \in {unanswered, unanswered \cup {<<"candidates", n>>}}
              BY <3>1, <4>1
            <6> QED  BY <6>1, <6>2, <6>3
          <5>2. \A m \in Candidates \ asking' : ~Usable("candidates", m)'
            BY <1>t, <3>1, <3>2, <4>1 DEF PassedTurns, Usable, Skipped
          <5> QED  BY <3>1, <3>3, <4>1, <5>1, <5>2 DEF PassedTurns
        <4>2. CASE phase = "listed"
          <5>1. \A m \in Candidates : ~Usable("candidates", m)'
            BY <1>t, <3>1, <4>2 DEF PassedTurns, Usable
          <5>2. \A m \in (names \cap Relayish) \ asking' : ~Usable("listed", m)'
            BY <1>t, <3>1, <3>2, <4>2 DEF PassedTurns, Usable, Skipped
          <5> QED  BY <3>1, <3>3, <4>2, <5>1, <5>2 DEF PassedTurns
        <4> QED  BY <3>1, <4>1, <4>2
      <3> QED  BY <3>1, <3>4 DEF ResolutionIsExplained
    <2> QED  BY <2>1, <2>2
  <1>3. CASE SearchListed
    <2>1. names \subseteq Names
      BY <1>t DEF TypeOK, StartType, Names
    <2> QED  BY <1>3, <1>t, <2>1 DEF SearchListed, PassedTurns, Usable, ResolutionIsExplained
  <1>4. CASE NotFound
    <2>1. phase' = "failed" /\ names' = names /\ unanswered' = unanswered /\ asking = {}
      BY <1>4 DEF NotFound
    <2>2. \A n \in Candidates : ~Usable("candidates", n)
      BY <1>4, <1>t DEF NotFound, PassedTurns
    <2>3. \A n \in names \cap Relayish : ~Usable("listed", n)
      BY <1>4, <1>t DEF NotFound, PassedTurns
    <2> QED  BY <2>1, <2>2, <2>3 DEF PassedTurns, Usable, ResolutionIsExplained
  <1>5. CASE UNCHANGED startVars
    BY <1>5 DEF startVars, SearchInv, PassedTurns, Usable, ResolutionIsExplained
  <1>6. CASE ~UNCHANGED startVars
    BY <1>1, <1>2, <1>3, <1>4, <1>6 DEF Next, vars, Ended, SetURL, Tick, Hit, Miss, CallContract,
       CallFails, Store
  <1> QED  BY <1>5, <1>6

(* The contract in use answered with an address, under a name the code looks  *)
(* for, and before every other that did; and without one there is no such     *)
(* name, whatever calls failed on the way.                                   *)
THEOREM SearchExplained == Spec => []ResolutionIsExplained
  BY SearchInit, SearchStep, PTL DEF Spec, SearchInv
-----------------------------------------------------------------------------
(* The cache.                                                                *)

(* A URL the contract has replaced was replaced after the entry was stored,  *)
(* or during the call whose answer was stored; and a URL in hand after the   *)
(* node had answered the call.                                               *)
CacheIsBounded ==
    \A k \in RelayKeys :
        Fresh(k) => cache[k].url = url[k] \/ settled[k] <= cache[k].age + MaxCall

InHandIsBounded ==
    \A c \in Callers :
        call[c].stage = "returning" =>
            call[c].got = url[call[c].key] \/ settled[call[c].key] <= call[c].age

StalenessInv == TypeOK /\ CacheIsBounded /\ InHandIsBounded

LEMMA StalenessInit == Init => StalenessInv
  BY TypeInit DEF Init, StalenessInv, CacheIsBounded, InHandIsBounded, Fresh, Idle

(* Time passes for the contract and for what was read from it alike.         *)
LEMMA TickKeepsStaleness ==
    ASSUME StalenessInv, Tick
    PROVE  CacheIsBounded' /\ InHandIsBounded'
  <1>1. ASSUME NEW k \in RelayKeys, Fresh(k)', cache'[k].url # url'[k]
        PROVE  settled'[k] <= cache'[k].age + MaxCall
    <2>1. cache[k] # NoEntry /\ cache[k] \in [url : Versions, age : 0..Ttl]
      BY <1>1 DEF Fresh, Tick, StalenessInv, TypeOK, CacheType
    <2>2. cache'[k] = [cache[k] EXCEPT !.age = Older(cache[k].age, Ttl)]
      BY <2>1 DEF Tick
    <2>3. cache'[k].url = cache[k].url /\ cache'[k].age = Older(cache[k].age, Ttl)
      BY <2>1, <2>2
    <2>4. url'[k] = url[k] /\ settled'[k] = Older(settled[k], Horizon)
      BY DEF Tick
    <2>5. cache[k].age \in 0..Ttl /\ settled[k] \in 0..Horizon
      BY <2>1 DEF StalenessInv, TypeOK, CacheType
    <2>6. cache[k].age < Ttl /\ cache'[k].age = cache[k].age + 1
      BY <1>1, <2>3, <2>5 DEF Fresh, Older
    <2>7. settled[k] <= cache[k].age + MaxCall
      BY <1>1, <2>1, <2>3, <2>4, <2>6 DEF StalenessInv, CacheIsBounded, Fresh
    <2> QED  BY <2>4, <2>5, <2>6, <2>7 DEF Older, Horizon
  <1>2. ASSUME NEW c \in Callers, call'[c].stage = "returning",
               call'[c].got # url'[call'[c].key]
        PROVE  settled'[call'[c].key] <= call'[c].age
    <2>1. PICK k \in RelayKeys, u \in Versions, n \in 0..MaxCall : call[c] = Returning(k, u, n)
      <3>1. ASSUME NEW k \in RelayKeys, NEW n \in 0..MaxCall, call[c] = Calling(k, n)
            PROVE  FALSE
        BY <1>2, <3>1 DEF Tick, Calling, Idle, StalenessInv, TypeOK, CacheType
      <3>2. call[c] # Idle
        BY <1>2 DEF Tick, Idle, StalenessInv, TypeOK, CacheType
      <3> QED  BY <3>1, <3>2, CallStates DEF StalenessInv
    <2>2. call[c] # Idle
      BY <2>1 DEF Returning, Idle
    <2>3. call'[c] = Returning(k, u, n + 1)
      BY <2>1, <2>2 DEF Tick, Returning, StalenessInv, TypeOK, CacheType
    <2>4. u # url[k] => settled[k] <= n
      BY <2>1 DEF Returning, StalenessInv, InHandIsBounded
    <2>5. settled[k] \in 0..Horizon
      BY DEF StalenessInv, TypeOK, CacheType
    <2>6. url'[k] = url[k] /\ settled'[k] = Older(settled[k], Horizon)
      BY DEF Tick
    <2> QED  BY <1>2, <2>3, <2>4, <2>5, <2>6 DEF Returning, Older, Horizon
  <1> QED  BY <1>1, <1>2 DEF CacheIsBounded, InHandIsBounded

LEMMA StalenessStep == StalenessInv /\ [Next]_vars => StalenessInv'
  <1> SUFFICES ASSUME StalenessInv, [Next]_vars
               PROVE  CacheIsBounded' /\ InHandIsBounded'
    BY TypeStep DEF StalenessInv
  <1>. TypeOK /\ CacheType /\ MaxCall \in Nat /\ TypeOK'
    BY TypeStep DEF StalenessInv, TypeOK
  <1>1. ASSUME NEW k \in RelayKeys, SetURL(k)
        PROVE  CacheIsBounded' /\ InHandIsBounded'
    <2>1. ASSUME NEW l \in RelayKeys, Fresh(l)'
          PROVE  cache'[l].url = url'[l] \/ settled'[l] <= cache'[l].age + MaxCall
      <3>1. cache[l].age \in 0..Ttl /\ cache' = cache
        BY <1>1, <2>1 DEF SetURL, CacheType, Fresh
      <3>2. CASE l = k
        BY <1>1, <3>1, <3>2 DEF SetURL, CacheType
      <3>3. CASE l # k
        BY <1>1, <2>1, <3>1, <3>3 DEF SetURL, CacheType, StalenessInv, CacheIsBounded, Fresh
      <3> QED  BY <3>2, <3>3
    <2>2. ASSUME NEW c \in Callers, call'[c].stage = "returning"
          PROVE  call'[c].got = url'[call'[c].key] \/ settled'[call'[c].key] <= call'[c].age
      <3>1. call' = call
        BY <1>1 DEF SetURL
      <3>2. PICK l \in RelayKeys, u \in Versions, n \in 0..MaxCall :
                call[c] = Returning(l, u, n)
        BY <2>2, <3>1, CallStates
      <3>3. call[c].key = l /\ call[c].got = u /\ call[c].age = n
        BY <3>2 DEF Returning
      <3>4. CASE l = k
        BY <1>1, <3>1, <3>3, <3>4 DEF SetURL, CacheType
      <3>5. CASE l # k
        BY <1>1, <2>2, <3>1, <3>3, <3>5 DEF SetURL, CacheType, StalenessInv, InHandIsBounded
      <3> QED  BY <3>4, <3>5
    <2> QED  BY <2>1, <2>2 DEF CacheIsBounded, InHandIsBounded
  <1>2. CASE Tick
    BY <1>2, TickKeepsStaleness
  <1>3. ASSUME NEW c \in Callers, CallContract(c)
        PROVE  CacheIsBounded' /\ InHandIsBounded'
    <2>1. PICK k \in RelayKeys, n \in 0..MaxCall : call[c] = Calling(k, n)
      BY <1>3, CallStates DEF CallContract
    <2>2. call' = [call EXCEPT ![c] = Returning(k, url[k], n)]
      BY <1>3, <2>1 DEF CallContract, Calling
    <2>3. UNCHANGED <<url, settled, cache>>
      BY <1>3 DEF CallContract, contractVars
    <2>4. InHandIsBounded'
      BY <2>2, <2>3 DEF StalenessInv, InHandIsBounded, CacheType, Returning
    <2> QED  BY <2>3, <2>4 DEF StalenessInv, CacheIsBounded, Fresh
  <1>4. ASSUME NEW c \in Callers, Store(c)
        PROVE  CacheIsBounded' /\ InHandIsBounded'
    <2>1. PICK k \in RelayKeys, u \in Versions, n \in 0..MaxCall : call[c] = Returning(k, u, n)
      BY <1>4, CallStates DEF Store
    <2>2. u = url[k] \/ settled[k] <= n
      BY <2>1 DEF Returning, StalenessInv, InHandIsBounded
    <2>3. cache' = [cache EXCEPT ![k] = [url |-> u, age |-> 0]]
      BY <1>4, <2>1 DEF Store, Returning
    <2>4. UNCHANGED <<url, settled>> /\ settled[k] \in Int
      BY <1>4 DEF Store, contractVars, CacheType
    <2>5. CacheIsBounded'
      BY <2>2, <2>3, <2>4 DEF StalenessInv, CacheIsBounded, Fresh, CacheType
    <2>6. InHandIsBounded'
      BY <1>4, <2>4 DEF Store, StalenessInv, InHandIsBounded, CacheType, Idle
    <2> QED  BY <2>5, <2>6
  <1>5. ASSUME NEW c \in Callers, CallFails(c)
        PROVE  CacheIsBounded' /\ InHandIsBounded'
    BY <1>5 DEF CallFails, contractVars, StalenessInv, CacheIsBounded, InHandIsBounded, Fresh,
       CacheType, Idle
  <1>6. ASSUME NEW c \in Callers, NEW k \in RelayKeys, Miss(c, k)
        PROVE  CacheIsBounded' /\ InHandIsBounded'
    BY <1>6 DEF Miss, contractVars, StalenessInv, CacheIsBounded, InHandIsBounded, Fresh,
       CacheType, Calling
  <1>7. CASE UNCHANGED <<contractVars, cache, call>>
    BY <1>7 DEF contractVars, StalenessInv, CacheIsBounded, InHandIsBounded, Fresh
  <1> QED  BY <1>1, <1>2, <1>3, <1>4, <1>5, <1>6, <1>7 DEF Next, vars, Ended, Hit, GetAllNames,
              GetAddress, SearchListed, NotFound

(* No caller is ever given a URL that was replaced longer ago than the time   *)
(* to live and one call, whatever the number of callers.                     *)
THEOREM AnswersBounded == Spec => AnswersAreRecent
  <1>1. StalenessInv /\ [Next]_vars =>
            [\A c \in Callers, k \in RelayKeys :
                (Hit(c, k) \/ (Store(c) /\ call[c].key = k)) =>
                    answer'[c].url = url[k] \/ settled[k] < Horizon]_vars
    <2> SUFFICES ASSUME StalenessInv, NEW c \in Callers, NEW k \in RelayKeys,
                        Hit(c, k) \/ (Store(c) /\ call[c].key = k)
                 PROVE  answer'[c].url = url[k] \/ settled[k] < Horizon
      OBVIOUS
    <2>0. TypeOK /\ CacheType /\ settled[k] \in Int
      BY DEF StalenessInv, TypeOK, CacheType
    <2>1. CASE Hit(c, k)
      <3>1. answer'[c].url = cache[k].url
        BY <2>0, <2>1 DEF Hit, CacheType
      <3>2. cache[k].age \in Int /\ cache[k].age < Ttl
        BY <2>0, <2>1 DEF Hit, Fresh, CacheType
      <3>3. cache[k].url = url[k] \/ settled[k] <= cache[k].age + MaxCall
        BY <2>1 DEF Hit, StalenessInv, CacheIsBounded
      <3> QED  BY <2>0, <3>1, <3>2, <3>3 DEF Horizon
    <2>2. CASE Store(c) /\ call[c].key = k
      <3>1. PICK l \in RelayKeys, u \in Versions, n \in 0..MaxCall :
                call[c] = Returning(l, u, n)
        BY <2>0, <2>2, CallStates DEF Store
      <3>2. call[c].got = u /\ call[c].age = n /\ l = k
        BY <2>2, <3>1 DEF Returning
      <3>3. answer'[c].url = u
        BY <2>0, <2>2, <3>2 DEF Store, CacheType
      <3>4. u = url[k] \/ settled[k] <= n
        BY <2>2, <3>2 DEF Store, StalenessInv, InHandIsBounded
      <3> QED  BY <2>0, <3>3, <3>4 DEF Horizon
    <2> QED  BY <2>1, <2>2
  <1> QED  BY <1>1, StalenessInit, StalenessStep, PTL DEF Spec, AnswersAreRecent
=============================================================================
