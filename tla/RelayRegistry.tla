---------------------------- MODULE RelayRegistry ----------------------------
(***************************************************************************)
(* The relay registry (internal/registry/relay_registry.go).  At the start   *)
(* NewFromDirectory looks for the registry contract among the names of the   *)
(* EigenDADirectory.  From then on the goroutines of the RelayVerifier and   *)
(* the Reverifier ask GetRelayURL for the URL of a relay, through a cache    *)
(* with a time to live and without holding a lock during the call of the     *)
(* contract.                                                                 *)
(***************************************************************************)
EXTENDS Integers, FiniteSets

CONSTANTS
    Candidates,   \* relayRegistryNames; names are numbers, in the order of their list
    Listed,       \* the names of the directory, in the order of getAllNames
    Relayish,     \* the names that contain "relay"
    Registered,   \* the names for which getAddress gives an address other than 0
    RelayKeys,
    Callers,      \* the goroutines that ask for URLs
    NoEntry,
    Ttl,          \* one hour, in ticks
    MaxCall,      \* the ticks a call of the contract takes at most
    MaxVersion    \* bound on the URLs a relay is given

Names == Candidates \cup Listed

ASSUME NamesAssumption ==
    Names \subseteq Nat /\ IsFiniteSet(Names) /\ NoEntry \notin Names
ASSUME TimesAssumption == Ttl \in Nat \ {0} /\ MaxCall \in Nat /\ MaxVersion \in Nat

VARIABLES
    \* NewFromDirectory
    names,     \* allNames, {} while it is nil
    asking,    \* the names the loop it is in has yet to go through
    phase,     \* "listing", "candidates", "listed", "ready" or "failed"
    address,   \* the name by which the registry was found, or NoEntry
    unanswered, \* history: the turns <<phase, name>> whose call failed
    \* the contract
    url,       \* url[k]: the URL of relay k, a version number; 0 is no URL yet
    settled,   \* settled[k]: ticks since it last changed, up to Ttl + MaxCall
    \* GetRelayURL
    cache,     \* cache[k]: NoEntry, or a URL and the ticks since it was stored
    call,      \* call[c]: where caller c stands
    answer     \* answer[c]: what GetRelayURL last returned to c

startVars == <<names, asking, phase, address, unanswered>>
contractVars == <<url, settled>>
vars == <<startVars, contractVars, cache, call, answer>>

Versions == 0..MaxVersion
Horizon == Ttl + MaxCall
Idle == [stage |-> "idle"]

\* A call of the contract: before the node has answered, and with the URL it gave.
Calling(k, n) == [stage |-> "calling", key |-> k, age |-> n]
Returning(k, u, n) == [stage |-> "returning", key |-> k, got |-> u, age |-> n]

Calls ==
    {Idle}
    \cup {Calling(k, n) : k \in RelayKeys, n \in 0..MaxCall}
    \cup {Returning(k, u, n) : k \in RelayKeys, u \in Versions, n \in 0..MaxCall}

StartType ==
    /\ phase \in {"listing", "candidates", "listed", "ready", "failed"}
    /\ names \in {{}, Listed}
    /\ asking \subseteq IF phase = "candidates" THEN Candidates ELSE names
    /\ address \in Names \cup {NoEntry}
    /\ (phase = "ready") <=> (address # NoEntry)
    /\ unanswered \subseteq {"candidates", "listed"} \X Names

CacheType ==
    /\ url \in [RelayKeys -> Versions]
    /\ settled \in [RelayKeys -> 0..Horizon]
    /\ cache \in [RelayKeys -> {NoEntry} \cup [url : Versions, age : 0..Ttl]]
    /\ call \in [Callers -> Calls]
    /\ answer \in [Callers -> {NoEntry} \cup [key : RelayKeys, url : Versions]]

CallersWait == phase # "ready" => \A c \in Callers : call[c] = Idle /\ answer[c] = NoEntry

TypeOK == StartType /\ CacheType /\ CallersWait

Init ==
    /\ names = {} /\ asking = {}
    /\ phase = "listing" /\ address = NoEntry /\ unanswered = {}
    /\ url = [k \in RelayKeys |-> 0]
    /\ settled = [k \in RelayKeys |-> Horizon]
    /\ cache = [k \in RelayKeys |-> NoEntry]
    /\ call = [c \in Callers |-> Idle]
    /\ answer = [c \in Callers |-> NoEntry]
-----------------------------------------------------------------------------
(* NewFromDirectory.                                                         *)

\* getAllNames answers, or fails and leaves allNames nil.
GetAllNames(n) ==
    /\ phase = "listing"
    /\ n \in {{}, Listed}
    /\ names' = n
    /\ asking' = Candidates
    /\ phase' = "candidates"
    /\ UNCHANGED <<address, unanswered, contractVars, cache, call, answer>>

\* No candidate was found: the names of the directory are next, if there are any.
SearchListed ==
    /\ phase = "candidates" /\ asking = {} /\ names # {}
    /\ phase' = "listed"
    /\ asking' = names
    /\ UNCHANGED <<names, address, unanswered, contractVars, cache, call, answer>>

\* Faulty variant: the registry is returned although none was found.
NotFoundUnchecked ==
    /\ asking = {}
    /\ phase = IF names = {} THEN "candidates" ELSE "listed"
    /\ phase' = "ready"
    /\ UNCHANGED <<names, asking, address, unanswered, contractVars, cache, call, answer>>

\* None of the names has an address: an error.
NotFound ==
    /\ asking = {}
    /\ phase = IF names = {} THEN "candidates" ELSE "listed"
    /\ phase' = "failed"
    /\ UNCHANGED <<names, asking, address, unanswered, contractVars, cache, call, answer>>

\* The second loop asks for a name only if it contains "relay".
Skipped(n) == phase = "listed" /\ n \notin Relayish

\* Faulty variant: the zero address is taken for one.
AnyAnswer(n, answered) == ~Skipped(n) /\ answered

\* The name is asked for, without an error, and has an address.
HasAddress(n, answered) == ~Skipped(n) /\ answered /\ n \in Registered

\* The name is found: the loop breaks and the registry is ready.
Take(n) ==
    /\ address' = n
    /\ phase' = "ready"
    /\ asking' = {}

\* getAddress of the next name: an address, the zero address, or an error.
GetAddress(n, answered) ==
    /\ phase \in {"candidates", "listed"}
    /\ n \in asking /\ \A m \in asking : n <= m
    /\ Skipped(n) => answered
    /\ unanswered' = IF answered THEN unanswered ELSE unanswered \cup {<<phase, n>>}
    /\ IF HasAddress(n, answered)
       THEN Take(n)
       ELSE asking' = asking \ {n} /\ UNCHANGED <<address, phase>>
    /\ UNCHANGED <<names, contractVars, cache, call, answer>>
-----------------------------------------------------------------------------
(* The contract, and time.                                                   *)

SetURL(k) ==
    /\ phase = "ready"
    /\ url[k] < MaxVersion
    /\ url' = [url EXCEPT ![k] = @ + 1]
    /\ settled' = [settled EXCEPT ![k] = 0]
    /\ UNCHANGED <<startVars, cache, call, answer>>

Older(n, limit) == IF n < limit THEN n + 1 ELSE n

Tick ==
    /\ phase = "ready"
    /\ \A c \in Callers : call[c] # Idle => call[c].age < MaxCall
    /\ settled' = [k \in RelayKeys |-> Older(settled[k], Horizon)]
    /\ cache' = [k \in RelayKeys |->
           IF cache[k] = NoEntry THEN NoEntry ELSE [cache[k] EXCEPT !.age = Older(@, Ttl)]]
    /\ call' = [c \in Callers |->
           IF call[c] = Idle THEN Idle ELSE [call[c] EXCEPT !.age = @ + 1]]
    /\ UNCHANGED <<startVars, url, answer>>
-----------------------------------------------------------------------------
(* GetRelayURL.                                                              *)

Fresh(k) == cache[k] # NoEntry /\ cache[k].age < Ttl

\* Faulty variant: a hit renews the entry.
HitRenews(c, k) ==
    /\ phase = "ready" /\ call[c] = Idle
    /\ Fresh(k)
    /\ answer' = [answer EXCEPT ![c] = [key |-> k, url |-> cache[k].url]]
    /\ cache' = [cache EXCEPT ![k].age = 0]
    /\ UNCHANGED <<startVars, contractVars, call>>

\* Under the read lock: a fresh entry is the answer.
Hit(c, k) ==
    /\ phase = "ready" /\ call[c] = Idle
    /\ Fresh(k)
    /\ answer' = [answer EXCEPT ![c] = [key |-> k, url |-> cache[k].url]]
    /\ UNCHANGED <<startVars, contractVars, cache, call>>

\* No lock is held from here to the store.
Miss(c, k) ==
    /\ phase = "ready" /\ call[c] = Idle
    /\ ~Fresh(k)
    /\ call' = [call EXCEPT ![c] = Calling(k, 0)]
    /\ UNCHANGED <<startVars, contractVars, cache, answer>>

\* The node evaluates relayKeyToUrl: "" for a key without a relay, as version 0.
CallContract(c) ==
    /\ call[c].stage = "calling"
    /\ call' = [call EXCEPT ![c] = Returning(@.key, url[@.key], @.age)]
    /\ UNCHANGED <<startVars, contractVars, cache, answer>>

\* The call fails: an error is returned, and the cache stays as it is.
CallFails(c) ==
    /\ call[c].stage # "idle"
    /\ call' = [call EXCEPT ![c] = Idle]
    /\ answer' = [answer EXCEPT ![c] = NoEntry]
    /\ UNCHANGED <<startVars, contractVars, cache>>

\* Under the write lock: whatever another caller stored meanwhile is replaced.
Store(c) ==
    /\ call[c].stage = "returning"
    /\ cache' = [cache EXCEPT ![call[c].key] = [url |-> call[c].got, age |-> 0]]
    /\ answer' = [answer EXCEPT ![c] = [key |-> call[c].key, url |-> call[c].got]]
    /\ call' = [call EXCEPT ![c] = Idle]
    /\ UNCHANGED <<startVars, contractVars>>

\* Without a registry the process has ended (cmd/prober/main.go).
Ended == phase = "failed" /\ UNCHANGED vars

Next ==
    \/ \E n \in {{}, Listed} : GetAllNames(n)
    \/ \E n \in Names, answered \in BOOLEAN : GetAddress(n, answered)
    \/ SearchListed
    \/ NotFound
    \/ \E k \in RelayKeys : SetURL(k)
    \/ Tick
    \/ \E c \in Callers, k \in RelayKeys : Hit(c, k) \/ Miss(c, k)
    \/ \E c \in Callers : CallContract(c) \/ CallFails(c) \/ Store(c)
    \/ Ended

Spec == Init /\ [][Next]_vars
-----------------------------------------------------------------------------
(* The registry used until the process ends is that of a name which has an   *)
(* address, is a candidate or was listed and contains "relay", and was asked  *)
(* for without an error; no such name had its turn before, in the order of    *)
(* the candidates and then of the directory; and there is no registry only if *)
(* there is no such name.  (A candidate the directory lists has two turns.)   *)
ResolutionIsExplained ==
    LET turns == ({"candidates"} \X Candidates) \cup ({"listed"} \X (names \cap Relayish))
        usable == {t \in turns \ unanswered : t[2] \in Registered}
        Before(s, t) == IF s[1] = t[1] THEN s[2] < t[2] ELSE s[1] = "candidates"
    IN  /\ phase = "ready" =>
               \E t \in usable : t[2] = address /\ \A s \in usable : ~Before(s, t)
        /\ phase = "failed" => usable = {}

(* The cache promises no more than a bound: a URL is answered that is not    *)
(* the contract's only while the relay changed less than the time to live    *)
(* and one call ago, however callers overlap and an older answer replaces a  *)
(* newer one.  The time to live alone is not enough.                         *)
AnswersAreRecent ==
    [][\A c \in Callers, k \in RelayKeys :
          (Hit(c, k) \/ (Store(c) /\ call[c].key = k)) =>
              answer'[c].url = url[k] \/ settled[k] < Horizon]_vars
=============================================================================
