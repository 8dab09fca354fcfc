------------------------- MODULE ProberLifecycleProofs -------------------------
(***************************************************************************)
(* Proofs about the process: no worker uses what is not open or is closed    *)
(* already, and no request loses its database to a shutdown by a signal; and  *)
(* no step of a shutdown leads back.  For any workers and any number of        *)
(* requests.                                                                 *)
(***************************************************************************)
EXTENDS ProberLifecycle, TLAPS

USE RequestsAssumption

\* The stages in which main opens what the workers need.
Opening == {"database", "migrations", "eth", "registry", "discovery"}
\* The stages in which a worker may be registered, but not started.
Launching == {"serve", "notify", "run"}

(* The workers exist between their registration and wg.Wait only, and then    *)
(* hold all they need; the process ends after that.                          *)
WorkersInTime ==
    \A w \in Workers :
        /\ worker[w] = "registered" => stage \in Launching
        /\ worker[w] \in Running => stage = "wait"
        /\ worker[w] = "ended" => stage \notin Startup
        /\ worker[w] \in Running \cup {"registered"} => Needs(w) \subseteq held

DatabaseInTime ==
    /\ stage \notin {"database", "end"} => "database" \in held
    /\ outcome = "exit" => stage = "end"

(* A worker leaves on a signal only, after the last request was answered.     *)
LeavesAfterRequests ==
    /\ stage \in Startup \ {"run"} => handler = "off"
    /\ handler = "shutting" /\ outcome = "none" => api \in {"closed", "down"}
    /\ handler = "done" /\ stage \notin {"close database", "end"} =>
           requests = 0 /\ api \in {"closed", "down"}
    /\ \A w \in Workers : worker[w] = "ended" => requests = 0 /\ api \in {"closed", "down"}

LifeInv == TypeOK /\ WorkersInTime /\ DatabaseInTime /\ LeavesAfterRequests

LEMMA LifeInit == Init => LifeInv
  <1> SUFFICES ASSUME Init PROVE LifeInv
    OBVIOUS
  <1>1. 0 \in 0..MaxRequests
    OBVIOUS
  <1>2. worker \in [Workers -> {"off", "registered", "returned", "ended"} \cup Running]
    BY DEF Init
  <1>3. TypeOK
    BY <1>1, <1>2 DEF Init, TypeOK, Startup
  <1> QED  BY <1>3 DEF Init, LifeInv, WorkersInTime, DatabaseInTime, LeavesAfterRequests, Running

\* Whatever main opens, or gives up on, before it registers the workers.
LEMMA OpeningStep ==
    ASSUME LifeInv, stage \in Opening, stage' \in Opening \cup {"register"},
           held \subseteq held', held' \subseteq Resources,
           stage' # "database" => "database" \in held',
           outcome' \in {"none", "fatal"}, outcome = "none",
           UNCHANGED <<configVars, worker, apiVars, signalVars>>
    PROVE  LifeInv'
  <1> USE DEF configVars, apiVars, signalVars
  <1>1. TypeOK'
    BY DEF LifeInv, TypeOK, Opening, Startup
  <1>2. \A w \in Workers : worker[w] \notin Running \cup {"registered", "ended"}
    BY DEF LifeInv, WorkersInTime, Opening, Launching, Startup
  <1>3. WorkersInTime'
    BY <1>2 DEF WorkersInTime
  <1>4. DatabaseInTime' /\ LeavesAfterRequests'
    BY DEF LifeInv, DatabaseInTime, LeavesAfterRequests, Opening, Startup
  <1> QED  BY <1>1, <1>3, <1>4 DEF LifeInv

LEMMA OpenDatabaseStep ==
    ASSUME LifeInv, OpenDatabase \/ RunMigrations \/ DialEthereum \/ ResolveRegistry \/ StartDiscovery
    PROVE  LifeInv'
  <1>1. held \subseteq Resources /\ (stage \notin {"database", "end"} => "database" \in held)
    BY DEF LifeInv, TypeOK, DatabaseInTime
  <1>2. ASSUME NEW s \in Opening, NEW r \in SUBSET Resources, NEW next \in Opening \cup {"register"},
               s = "database" => r = {"database"}, next # "database",
               OpenOrDie(s, r, next)
        PROVE  LifeInv'
    <2>1. CASE held' = held \cup r /\ stage' = next /\ UNCHANGED outcome
      <3>1. stage' # "database" => "database" \in held'
        BY <1>1, <1>2, <2>1 DEF OpenOrDie, At, Opening
      <3> QED  BY <1>1, <1>2, <2>1, <3>1, OpeningStep DEF OpenOrDie, At
    <2>2. CASE outcome' = "fatal" /\ UNCHANGED <<held, stage>>
      <3>1. stage' # "database" => "database" \in held'
        BY <1>1, <1>2, <2>2 DEF OpenOrDie, At, Opening
      <3> QED  BY <1>1, <1>2, <2>2, <3>1, OpeningStep DEF OpenOrDie, At
    <2> QED  BY <1>2, <2>1, <2>2 DEF OpenOrDie
  <1>3. ASSUME NEW s \in Opening \ {"database"}, NEW wanted \in BOOLEAN, NEW r \in SUBSET Resources,
               NEW next \in Opening \cup {"register"},
               OpenOrWarn(s, wanted, r, next)
        PROVE  LifeInv'
    <2>1. stage = s /\ stage' = next /\ outcome = "none" /\ outcome' = outcome
      BY <1>3 DEF OpenOrWarn, At
    <2>2. held' \in {held, held \cup r}
      BY <1>3 DEF OpenOrWarn
    <2>3. "database" \in held' /\ held \subseteq held' /\ held' \subseteq Resources
      BY <1>1, <1>3, <2>1, <2>2 DEF Opening
    <2> QED  BY <1>3, <2>1, <2>3, OpeningStep DEF OpenOrWarn
  <1>4. {"database"} \in SUBSET Resources /\ {} \in SUBSET Resources /\ {"eth"} \in SUBSET Resources
        /\ {"registry"} \in SUBSET Resources /\ {"discovery"} \in SUBSET Resources
    BY DEF Resources
  <1>5. /\ Opening = {"database", "migrations", "eth", "registry", "discovery"}
        /\ configured \in BOOLEAN /\ FALSE \in BOOLEAN
        /\ (configured /\ enabled \cap {"operator-verifier", "stake-indexer"} # {}) \in BOOLEAN
    BY DEF Opening, LifeInv, TypeOK
  <1>6. CASE OpenDatabase
    BY <1>2, <1>4, <1>5, <1>6 DEF OpenDatabase
  <1>7. CASE RunMigrations
    BY <1>2, <1>4, <1>5, <1>7 DEF RunMigrations
  <1>8. CASE DialEthereum
    BY <1>3, <1>4, <1>5, <1>8 DEF DialEthereum
  <1>9. CASE ResolveRegistry
    BY <1>2, <1>3, <1>4, <1>5, <1>9 DEF ResolveRegistry
  <1>10. CASE StartDiscovery
    BY <1>3, <1>4, <1>5, <1>10 DEF StartDiscovery
  <1> QED  BY <1>6, <1>7, <1>8, <1>9, <1>10

LEMMA RegisterStep ==
    ASSUME LifeInv, NEW resolved \in BOOLEAN, Register(resolved)
    PROVE  LifeInv'
  <1> USE DEF Register, At, configVars, apiVars, signalVars
  <1>1. \A w \in Workers : worker'[w] \in {"off", "registered"}
                           /\ (worker'[w] = "registered" => Needs(w) \subseteq held)
    OBVIOUS
  <1>2. worker' \in [Workers -> {"off", "registered", "returned", "ended"} \cup Running]
    OBVIOUS
  <1>3. TypeOK'
    BY <1>2 DEF LifeInv, TypeOK, Startup
  <1>4. WorkersInTime'
    BY <1>1 DEF WorkersInTime, Launching, Running
  <1>5. DatabaseInTime' /\ LeavesAfterRequests'
    BY <1>1 DEF LifeInv, DatabaseInTime, LeavesAfterRequests, Startup
  <1> QED  BY <1>3, <1>4, <1>5 DEF LifeInv

LEMMA LaunchStep ==
    ASSUME LifeInv, StartApi \/ HandleSignals
    PROVE  LifeInv'
  <1> USE DEF StartApi, HandleSignals, At, configVars, apiVars, signalVars
  <1>1. TypeOK'
    BY DEF LifeInv, TypeOK, Startup
  <1>2. WorkersInTime'
    BY DEF LifeInv, WorkersInTime, Launching, Running, Startup
  <1>3. DatabaseInTime'
    BY DEF LifeInv, DatabaseInTime
  <1>4. LeavesAfterRequests'
    BY DEF LifeInv, WorkersInTime, LeavesAfterRequests, Startup
  <1> QED  BY <1>1, <1>2, <1>3, <1>4 DEF LifeInv

LEMMA RunWorkersStep ==
    ASSUME LifeInv, RunWorkers
    PROVE  LifeInv'
  <1> USE DEF RunWorkers, At, configVars, apiVars, signalVars
  <1>1. \A w \in Workers :
            worker'[w] = IF worker[w] = "registered" THEN "starting" ELSE worker[w]
    OBVIOUS
  <1>2. worker' \in [Workers -> {"off", "registered", "returned", "ended"} \cup Running]
    BY DEF LifeInv, TypeOK, Running
  <1>3. TypeOK'
    BY <1>2 DEF LifeInv, TypeOK
  <1>4. WorkersInTime'
    BY <1>1 DEF LifeInv, WorkersInTime, Running, Startup
  <1>5. DatabaseInTime' /\ LeavesAfterRequests'
    BY <1>1 DEF LifeInv, DatabaseInTime, LeavesAfterRequests, Startup
  <1> QED  BY <1>3, <1>4, <1>5 DEF LifeInv

\* A worker that runs goes on running, or ends once it may.
LEMMA WorkerStepStep ==
    ASSUME LifeInv, NEW w \in Workers, NEW from \in Running,
           NEW to \in {"returned", "ended"} \cup Running, WorkerStep(w, from, to),
           to = "ended" => Cancelled
    PROVE  LifeInv'
  <1> USE DEF WorkerStep, configVars, apiVars, signalVars
  <1>1. stage = "wait" /\ Needs(w) \subseteq held
    BY DEF LifeInv, WorkersInTime
  <1>2. worker'[w] = to /\ \A v \in Workers : v # w => worker'[v] = worker[v]
    BY DEF LifeInv, TypeOK
  <1>3. worker' \in [Workers -> {"off", "registered", "returned", "ended"} \cup Running]
    BY DEF LifeInv, TypeOK
  <1>4. TypeOK'
    <2>1. w \in enabled
      BY DEF LifeInv, TypeOK, Running
    <2>2. \A v \in Workers \ enabled' : worker'[v] = "off"
      BY <1>2, <2>1 DEF LifeInv, TypeOK
    <2> QED  BY <1>3, <2>2 DEF LifeInv, TypeOK
  <1>5. WorkersInTime'
    BY <1>1, <1>2 DEF LifeInv, WorkersInTime, Running, Startup
  <1>6. LeavesAfterRequests'
    <2>1. to = "ended" => requests = 0 /\ api \in {"closed", "down"}
      BY <1>1 DEF LifeInv, LeavesAfterRequests, Cancelled
    <2> QED  BY <1>2, <2>1 DEF LifeInv, LeavesAfterRequests
  <1>7. DatabaseInTime'
    BY DEF LifeInv, DatabaseInTime
  <1> QED  BY <1>4, <1>5, <1>6, <1>7 DEF LifeInv

LEMMA AnyWorkerStep ==
    ASSUME LifeInv, NEW w \in Workers,
           Begin(w) \/ ReturnAtOnce(w) \/ StartRound(w) \/ EndRound(w) \/ LeaveOnCancel(w)
    PROVE  LifeInv'
  <1>0. {"starting", "idle", "busy"} = Running
    BY DEF Running
  <1>1. CASE Begin(w)
    <2>1. (IF w \in StartsAtOnce THEN "busy" ELSE "idle") \in Running
      BY DEF Running
    <2> QED  BY <1>0, <1>1, <2>1, WorkerStepStep DEF Begin
  <1>2. CASE ReturnAtOnce(w)
    BY <1>0, <1>2, WorkerStepStep DEF ReturnAtOnce
  <1>3. CASE StartRound(w)
    BY <1>0, <1>3, WorkerStepStep DEF StartRound
  <1>4. CASE EndRound(w)
    BY <1>0, <1>4, WorkerStepStep DEF EndRound
  <1>5. CASE LeaveOnCancel(w)
    BY <1>0, <1>5, WorkerStepStep DEF LeaveOnCancel
  <1> QED  BY <1>1, <1>2, <1>3, <1>4, <1>5

\* main after wg.Wait: no worker is running, and the stages only go on.
LEMMA ClosingStep ==
    ASSUME LifeInv, WaitReturns \/ RunDeferred \/ Exit
    PROVE  LifeInv'
  <1> USE DEF At, configVars, apiVars, signalVars
  <1>1. \A w \in Workers : worker[w] \notin Running \cup {"registered"}
    BY DEF LifeInv, WorkersInTime, WaitReturns, RunDeferred, Exit, Close, Launching
  <1>2. /\ UNCHANGED <<configVars, worker, apiVars, signalVars>>
        /\ stage' \in Closing \cup {"end"}
        /\ held' \subseteq held
        /\ stage' # "end" => held \ held' \subseteq {"discovery", "registry"}
        /\ stage \in Closing \cup {"wait", "end"}
        /\ outcome' \in {"none", "exit"} /\ (outcome' = "exit" => stage' = "end")
        /\ stage = "close database" => stage' = "end"
        /\ stage = "end" => stage' = "end"
    BY DEF WaitReturns, RunDeferred, Exit, Close, Closing
  <1>3. TypeOK'
    BY <1>2 DEF LifeInv, TypeOK
  <1>4. WorkersInTime'
    BY <1>1, <1>2 DEF LifeInv, WorkersInTime, Startup, Closing
  <1>5. DatabaseInTime'
    BY <1>2 DEF LifeInv, DatabaseInTime, Closing
  <1>6. LeavesAfterRequests'
    <2>1. LeavesAfterRequests /\ outcome = "none"
      BY DEF LifeInv, WaitReturns, RunDeferred, Exit, Close
    <2>2. stage' \notin Startup
      BY <1>2 DEF Startup, Closing
    <2> QED  BY <1>2, <2>1, <2>2 DEF LeavesAfterRequests
  <1> QED  BY <1>3, <1>4, <1>5, <1>6 DEF LifeInv

LEMMA ApiStepStep ==
    ASSUME LifeInv, CreateServer \/ ListenAndServe \/ ListenFails \/ AcceptRequest \/ Respond
    PROVE  LifeInv'
  <1> USE DEF CreateServer, ListenAndServe, ListenFails, ApiStep, AcceptRequest, Respond,
              configVars, apiVars, signalVars
  <1>1. requests' \in 0..MaxRequests
    BY DEF LifeInv, TypeOK
  <1>2. TypeOK'
    BY <1>1 DEF LifeInv, TypeOK
  <1>3. WorkersInTime' /\ DatabaseInTime'
    BY DEF LifeInv, WorkersInTime, DatabaseInTime
  <1>4. ASSUME api \in {"closed", "down"}
        PROVE  api' = api /\ requests' <= requests
    BY <1>4 DEF LifeInv, TypeOK
  <1>5. LeavesAfterRequests'
    <2>1. UNCHANGED <<stage, handler, outcome, worker>>
      OBVIOUS
    <2>2. api \in {"closed", "down"} /\ requests = 0 => requests' = 0
      BY <1>1, <1>4
    <2> QED  BY <1>4, <2>1, <2>2 DEF LifeInv, LeavesAfterRequests
  <1> QED  BY <1>2, <1>3, <1>5 DEF LifeInv

LEMMA SignalStep ==
    ASSUME LifeInv, Signal \/ TakeSignal \/ CancelAfterShutdown
    PROVE  LifeInv'
  <1> USE DEF configVars, apiVars, signalVars
  <1>1. CASE Signal
    BY <1>1 DEF Signal, LifeInv, TypeOK, WorkersInTime, DatabaseInTime, LeavesAfterRequests
  <1>2. CASE TakeSignal
    <2>1. TypeOK'
      BY <1>2 DEF TakeSignal, LifeInv, TypeOK
    <2>2. WorkersInTime' /\ DatabaseInTime'
      BY <1>2 DEF TakeSignal, LifeInv, WorkersInTime, DatabaseInTime
    <2>3. LeavesAfterRequests'
      BY <1>2 DEF TakeSignal, LifeInv, LeavesAfterRequests
    <2> QED  BY <2>1, <2>2, <2>3 DEF LifeInv
  <1>3. CASE CancelAfterShutdown
    <2>1. TypeOK'
      BY <1>3 DEF CancelAfterShutdown, LifeInv, TypeOK
    <2>2. WorkersInTime' /\ DatabaseInTime'
      BY <1>3 DEF CancelAfterShutdown, LifeInv, WorkersInTime, DatabaseInTime
    <2>3. LeavesAfterRequests'
      BY <1>3 DEF CancelAfterShutdown, Cancelled, LifeInv, LeavesAfterRequests
    <2> QED  BY <2>1, <2>2, <2>3 DEF LifeInv
  <1> QED  BY <1>1, <1>2, <1>3

LEMMA LifeStep == LifeInv /\ [Next]_vars => LifeInv'
  <1> SUFFICES ASSUME LifeInv, [Next]_vars PROVE LifeInv'
    OBVIOUS
  <1>1. CASE MainStep
    BY <1>1, OpenDatabaseStep, RegisterStep, LaunchStep, RunWorkersStep, ClosingStep DEF MainStep
  <1>2. CASE UNCHANGED vars
    <2> USE <1>2 DEF vars, configVars, apiVars, signalVars
    <2>1. TypeOK'
      BY DEF LifeInv, TypeOK
    <2>2. WorkersInTime' /\ DatabaseInTime'
      BY DEF LifeInv, WorkersInTime, DatabaseInTime
    <2>3. LeavesAfterRequests'
      BY DEF LifeInv, LeavesAfterRequests
    <2> QED  BY <2>1, <2>2, <2>3 DEF LifeInv
  <1>3. CASE Ended
    BY <1>2, <1>3 DEF Ended
  <1> QED  BY <1>1, <1>2, <1>3, AnyWorkerStep, ApiStepStep, SignalStep DEF Next
-----------------------------------------------------------------------------
(* Every reachable state has its type.                                       *)
THEOREM TypeCorrect == Spec => []TypeOK
  <1>1. LifeInv => TypeOK
    BY DEF LifeInv
  <1> QED  BY <1>1, LifeInit, LifeStep, PTL DEF Spec

(* A worker in a round holds all it needs, the process does not exit under a  *)
(* worker, and no request is left without its database by a signal.          *)
THEOREM CleanShutdown == Spec => []NobodyIsCutOff
  <1>1. LifeInv => NobodyIsCutOff
    <2> SUFFICES ASSUME LifeInv PROVE NobodyIsCutOff
      OBVIOUS
    <2>1. \A w \in Workers : worker[w] = "busy" => Needs(w) \subseteq held
      BY DEF LifeInv, WorkersInTime, Running
    <2>2. outcome = "exit" => \A w \in Workers : worker[w] \notin Running
      BY DEF LifeInv, DatabaseInTime, WorkersInTime
    <2>3. ASSUME requests > 0, "database" \notin held, NEW w \in Workers
          PROVE  worker[w] \in {"off", "returned"}
      <3>1. stage \in {"database", "end"}
        BY <2>3 DEF LifeInv, DatabaseInTime
      <3>2. worker[w] \notin Running \cup {"registered"}
        BY <3>1 DEF LifeInv, WorkersInTime, Launching
      <3>3. worker[w] # "ended"
        <4>1. requests # 0
          BY <2>3
        <4> QED  BY <4>1 DEF LifeInv, LeavesAfterRequests
      <3> QED  BY <3>2, <3>3 DEF LifeInv, TypeOK
    <2> QED  BY <2>1, <2>2, <2>3 DEF NobodyIsCutOff
  <1> QED  BY <1>1, LifeInit, LifeStep, PTL DEF Spec
-----------------------------------------------------------------------------
(* The shutdown only goes on: the half of StopsOnSignal that needs no          *)
(* fairness.                                                                 *)

(* A server that shuts down accepts nothing, and nobody who returned runs.     *)
Retired ==
    /\ handler = "done" \/ (handler = "shutting" /\ outcome = "none") => api \in {"closed", "down"}
    /\ \A w \in Workers : worker[w] = "returned" => stage \notin Startup

\* How far main is from its end in a stage.
ToEnd(s) ==
    IF s = "database" THEN 14 ELSE
    IF s = "migrations" THEN 13 ELSE
    IF s = "eth" THEN 12 ELSE
    IF s = "registry" THEN 11 ELSE
    IF s = "discovery" THEN 10 ELSE
    IF s = "register" THEN 9 ELSE
    IF s = "serve" THEN 8 ELSE
    IF s = "notify" THEN 7 ELSE
    IF s = "run" THEN 6 ELSE
    IF s = "wait" THEN 5 ELSE
    IF s = "close discovery" THEN 4 ELSE
    IF s = "close registry" THEN 3 ELSE
    IF s = "cancel" THEN 2 ELSE
    IF s = "close database" THEN 1 ELSE
    0

MainLeft == ToEnd(stage)

\* How far a worker that looks at the context before every round is from leaving.
RunLeft(w) ==
    IF worker[w] = "registered" THEN 4 ELSE
    IF worker[w] = "starting" THEN 3 ELSE
    IF worker[w] = "busy" THEN 2 ELSE
    IF worker[w] = "idle" THEN 1 ELSE
    0

(* A step of main brings it closer to its end or ends the process, and nothing *)
(* takes it back; an ended process stays as it is, a cancelled context stays    *)
(* cancelled, the requests of a server that shuts down only become fewer, and   *)
(* a worker that has left never runs again, while a polling one, once the       *)
(* context is cancelled, is closer to leaving after every step of its own.     *)
OnlyForward ==
    /\ MainStep => MainLeft' < MainLeft \/ outcome' # "none"
    /\ MainLeft' <= MainLeft
    /\ outcome # "none" => UNCHANGED vars
    /\ Cancelled => Cancelled'
    /\ handler \in {"shutting", "done"} => api' = api /\ requests' <= requests
    /\ \A w \in Workers : worker[w] \in {"returned", "ended"} => worker'[w] = worker[w]
    /\ \A w \in Workers \cap Polling :
          Cancelled /\ worker'[w] # worker[w] => RunLeft(w)' < RunLeft(w)

LEMMA RetiredStep == LifeInv /\ Retired /\ [Next]_vars => Retired'
  <1> SUFFICES ASSUME LifeInv, Retired, [Next]_vars PROVE Retired'
    OBVIOUS
  <1> USE DEF At, configVars, apiVars, signalVars
  <1>1. CASE MainStep
    <2>1. /\ UNCHANGED <<requests, pending>>
          /\ api' = api \/ (stage = "serve" /\ handler' = handler)
          /\ handler' = handler \/ handler' = "waiting"
          /\ outcome = "none"
      BY <1>1 DEF MainStep, OpenDatabase, RunMigrations, DialEthereum, ResolveRegistry,
             StartDiscovery, OpenOrDie, OpenOrWarn, Register, StartApi, HandleSignals,
             RunWorkers, WaitReturns, RunDeferred, Close, Exit
    <2>2. stage = "serve" => handler = "off"
      BY DEF LifeInv, LeavesAfterRequests, Startup
    <2>3. \A w \in Workers : worker'[w] = "returned" => worker[w] = "returned"
      BY <1>1 DEF MainStep, OpenDatabase, RunMigrations, DialEthereum, ResolveRegistry,
             StartDiscovery, OpenOrDie, OpenOrWarn, Register, StartApi, HandleSignals,
             RunWorkers, WaitReturns, RunDeferred, Close, Exit
    <2>4. stage \notin Startup => stage' \notin Startup
      BY <1>1 DEF MainStep, OpenDatabase, RunMigrations, DialEthereum, ResolveRegistry,
             StartDiscovery, OpenOrDie, OpenOrWarn, Register, StartApi, HandleSignals,
             RunWorkers, WaitReturns, RunDeferred, Close, Exit, Startup
    <2> QED  BY <2>1, <2>2, <2>3, <2>4 DEF Retired
  <1>2. ASSUME NEW w \in Workers,
               Begin(w) \/ ReturnAtOnce(w) \/ StartRound(w) \/ EndRound(w) \/ LeaveOnCancel(w)
        PROVE  Retired'
    <2>1. /\ UNCHANGED <<stage, outcome, api, handler>> /\ worker[w] \in Running
          /\ \A v \in Workers : v # w => worker'[v] = worker[v]
      BY <1>2 DEF Begin, ReturnAtOnce, StartRound, EndRound, LeaveOnCancel, WorkerStep,
             Running, LifeInv, TypeOK
    <2>2. stage = "wait"
      BY <2>1 DEF LifeInv, WorkersInTime
    <2> QED  BY <2>1, <2>2 DEF Retired, Startup
  <1>3. CASE CreateServer \/ ListenAndServe \/ ListenFails \/ AcceptRequest \/ Respond
    BY <1>3 DEF CreateServer, ListenAndServe, ListenFails, ApiStep, AcceptRequest, Respond, Retired
  <1>4. CASE Signal
    BY <1>4 DEF Signal, Retired
  <1>5. CASE TakeSignal
    BY <1>5 DEF TakeSignal, Retired
  <1>6. CASE CancelAfterShutdown
    BY <1>6 DEF CancelAfterShutdown, Retired
  <1>7. CASE Ended \/ UNCHANGED vars
    BY <1>7 DEF Ended, vars, Retired
  <1> QED  BY <1>1, <1>2, <1>3, <1>4, <1>5, <1>6, <1>7 DEF Next

\* Every stage is closer to the end than the one before it.
LEMMA StagesInOrder ==
    /\ \A s : ToEnd(s) \in Nat /\ ToEnd(s) <= ToEnd(s)
    /\ ToEnd("migrations") < ToEnd("database")
    /\ ToEnd("eth") < ToEnd("migrations")
    /\ ToEnd("registry") < ToEnd("eth")
    /\ ToEnd("discovery") < ToEnd("registry")
    /\ ToEnd("register") < ToEnd("discovery")
    /\ ToEnd("serve") < ToEnd("register")
    /\ ToEnd("notify") < ToEnd("serve")
    /\ ToEnd("run") < ToEnd("notify")
    /\ ToEnd("wait") < ToEnd("run")
    /\ ToEnd("close discovery") < ToEnd("wait")
    /\ ToEnd("close registry") < ToEnd("close discovery")
    /\ ToEnd("cancel") < ToEnd("close registry")
    /\ ToEnd("close database") < ToEnd("cancel")
    /\ ToEnd("end") < ToEnd("close database")
  BY DEF ToEnd

\* What the steps of main do to it and to the workers.
LEMMA MainStepForward ==
    ASSUME LifeInv, Retired, MainStep
    PROVE  OnlyForward
  <1> USE DEF At, configVars, apiVars, signalVars
  <1>m. (stage' = stage /\ outcome' # "none") \/ MainLeft' < MainLeft
    <2>1. CASE OpenDatabase
      <3>1. stage = "database" /\ ((stage' = stage /\ outcome' = "fatal") \/ stage' = "migrations")
        BY <2>1 DEF OpenDatabase, OpenOrDie
      <3> QED  BY <3>1, StagesInOrder, Zenon DEF MainLeft
    <2>2. CASE RunMigrations
      <3>1. stage = "migrations" /\ ((stage' = stage /\ outcome' = "fatal") \/ stage' = "eth")
        BY <2>2 DEF RunMigrations, OpenOrDie
      <3> QED  BY <3>1, StagesInOrder, Zenon DEF MainLeft
    <2>3. CASE DialEthereum
      <3>1. stage = "eth" /\ stage' = "registry"
        BY <2>3 DEF DialEthereum, OpenOrWarn
      <3> QED  BY <3>1, StagesInOrder, Zenon DEF MainLeft
    <2>4. CASE ResolveRegistry
      <3>1. stage = "registry" /\ ((stage' = stage /\ outcome' = "fatal") \/ stage' = "discovery")
        BY <2>4 DEF ResolveRegistry, OpenOrDie, OpenOrWarn
      <3> QED  BY <3>1, StagesInOrder, Zenon DEF MainLeft
    <2>5. CASE StartDiscovery
      <3>1. stage = "discovery" /\ stage' = "register"
        BY <2>5 DEF StartDiscovery, OpenOrWarn
      <3> QED  BY <3>1, StagesInOrder, Zenon DEF MainLeft
    <2>6. CASE StartApi \/ HandleSignals \/ RunWorkers \/ WaitReturns
               \/ \E resolved \in BOOLEAN : Register(resolved)
      <3>1. \/ stage = "register" /\ stage' = "serve"
            \/ stage = "serve" /\ stage' = "notify"
            \/ stage = "notify" /\ stage' = "run"
            \/ stage = "run" /\ stage' = "wait"
            \/ stage = "wait" /\ stage' = "close discovery"
        BY <2>6 DEF Register, StartApi, HandleSignals, RunWorkers, WaitReturns
      <3> QED  BY <3>1, StagesInOrder, Zenon DEF MainLeft
    <2>7. CASE RunDeferred
      <3>1. \/ stage = "close discovery" /\ stage' = "close registry"
            \/ stage = "close registry" /\ stage' = "cancel"
            \/ stage = "cancel" /\ stage' = "close database"
            \/ stage = "close database" /\ stage' = "end"
        BY <2>7 DEF RunDeferred, Close
      <3> QED  BY <3>1, StagesInOrder, Zenon DEF MainLeft
    <2>8. CASE Exit
      BY <2>8 DEF Exit
    <2> QED  BY <2>1, <2>2, <2>3, <2>4, <2>5, <2>6, <2>7, <2>8 DEF MainStep
  <1>1. /\ outcome = "none"
        /\ stage \in {"close database", "end"} => stage' = "end"
        /\ handler' = handler \/ stage = "notify"
        /\ api' = api \/ stage = "serve"
    BY DEF MainStep, OpenDatabase, RunMigrations, DialEthereum, ResolveRegistry,
           StartDiscovery, OpenOrDie, OpenOrWarn, Register, StartApi, HandleSignals,
           RunWorkers, WaitReturns, RunDeferred, Close, Exit
  <1>2. stage \in {"serve", "notify", "register"} => handler = "off"
    BY DEF LifeInv, LeavesAfterRequests, Startup
  <1>3. MainLeft \in Nat /\ MainLeft' \in Nat /\ (stage' = stage => MainLeft' = MainLeft)
    BY StagesInOrder, Zenon DEF MainLeft
  <1>4. Cancelled => Cancelled'
    BY <1>1, <1>2 DEF Cancelled
  <1>5. requests' <= requests
    <2>1. requests' = requests
      BY DEF MainStep, OpenDatabase, RunMigrations, DialEthereum, ResolveRegistry,
             StartDiscovery, OpenOrDie, OpenOrWarn, Register, StartApi, HandleSignals,
             RunWorkers, WaitReturns, RunDeferred, Close, Exit
    <2>2. requests \in Nat
      BY DEF LifeInv, TypeOK
    <2> QED  BY <2>1, <2>2
  <1>6. ASSUME NEW w \in Workers
        PROVE  \/ worker'[w] = worker[w]
               \/ stage = "register" /\ worker[w] \notin {"returned", "ended"}
               \/ worker[w] = "registered" /\ worker'[w] = "starting"
    <2>1. stage = "register" => worker[w] \notin {"returned", "ended"}
      BY DEF LifeInv, WorkersInTime, Retired, Startup
    <2> QED  BY <2>1 DEF MainStep, OpenDatabase, RunMigrations, DialEthereum, ResolveRegistry,
             StartDiscovery, OpenOrDie, OpenOrWarn, Register, StartApi, HandleSignals,
             RunWorkers, WaitReturns, RunDeferred, Close, Exit
  <1>7. stage = "register" => ~Cancelled
    BY <1>2 DEF Cancelled
  <1>8. \A w \in Workers \cap Polling :
            Cancelled /\ worker'[w] # worker[w] => RunLeft(w)' < RunLeft(w)
    BY <1>6, <1>7 DEF RunLeft
  <1>9. \A w \in Workers : worker[w] \in {"returned", "ended"} => worker'[w] = worker[w]
    BY <1>6
  <1>10. handler \in {"shutting", "done"} => api' = api
    BY <1>1, <1>2
  <1>11. MainLeft' <= MainLeft
    BY <1>m, <1>3
  <1>12. MainLeft' < MainLeft \/ outcome' # "none"
    BY <1>m
  <1> QED  BY <1>1, <1>12, <1>4, <1>5, <1>8, <1>9, <1>10, <1>11 DEF OnlyForward

\* A step of a worker.
LEMMA WorkerStepForward ==
    ASSUME LifeInv, ~MainStep, NEW w \in Workers,
           Begin(w) \/ ReturnAtOnce(w) \/ StartRound(w) \/ EndRound(w) \/ LeaveOnCancel(w)
    PROVE  OnlyForward
  <1>1. /\ UNCHANGED <<stage, requests, api, handler>> /\ outcome = "none"
        /\ \A v \in Workers : v # w => worker'[v] = worker[v]
        /\ worker[w] \in Running
    BY DEF Begin, ReturnAtOnce, StartRound, EndRound, LeaveOnCancel, WorkerStep, configVars,
           apiVars, signalVars, Running, LifeInv, TypeOK
  <1>2. w \in Polling /\ Cancelled => RunLeft(w)' < RunLeft(w)
    <2> SUFFICES ASSUME w \in Polling, Cancelled PROVE RunLeft(w)' < RunLeft(w)
      OBVIOUS
    <2>1. worker' = [worker EXCEPT ![w] = worker'[w]] /\ worker'[w] # "registered"
          /\ \/ worker[w] = "starting" /\ worker'[w] \in {"busy", "idle", "returned"}
             \/ worker[w] = "busy" /\ worker'[w] = "idle"
             \/ worker[w] = "idle" /\ worker'[w] = "ended"
      BY DEF Begin, ReturnAtOnce, StartRound, EndRound, LeaveOnCancel, WorkerStep, LifeInv, TypeOK
    <2> QED  BY <2>1 DEF RunLeft
  <1>3. \A v \in Workers : worker[v] \in {"returned", "ended"} => worker'[v] = worker[v]
    BY <1>1 DEF Running
  <1>4. requests' <= requests /\ MainLeft' <= MainLeft
    <2>1. requests' = requests /\ stage' = stage /\ requests \in Nat
      BY <1>1 DEF LifeInv, TypeOK
    <2>2. requests' <= requests
      BY <2>1
    <2> QED  BY <2>1, <2>2, StagesInOrder, Zenon DEF MainLeft
  <1> QED  BY <1>1, <1>2, <1>3, <1>4 DEF OnlyForward, Cancelled

(* No step of any goroutine leads the process back from its end: what         *)
(* StopsOnSignal leaves to fairness is only that the steps are taken.         *)
THEOREM ShutdownOnlyGoesOn == Spec => [][OnlyForward]_vars
  <1>1. ASSUME LifeInv, Retired, [Next]_vars
        PROVE  [OnlyForward]_vars
    <2>m. requests \in Nat
      BY <1>1 DEF LifeInv, TypeOK
    <2>1. ASSUME UNCHANGED <<stage, worker>>, outcome = "none", ~MainStep,
                 handler \in {"shutting", "done"} =>
                     api' = api /\ requests' <= requests /\ handler' \in {handler, "done"}
          PROVE  OnlyForward
      <3>1. MainLeft' <= MainLeft
        BY <2>1, StagesInOrder, Zenon DEF MainLeft
      <3>2. \A w \in Workers : worker'[w] = worker[w]
        BY <2>1
      <3>3. Cancelled => Cancelled'
        BY <2>1 DEF Cancelled
      <3>4. handler \in {"shutting", "done"} => api' = api /\ requests' <= requests
        BY <2>1, Zenon
      <3> QED  BY <2>1, <3>1, <3>2, <3>3, <3>4, Zenon DEF OnlyForward
    <2>2. CASE MainStep
      BY <1>1, <2>2, MainStepForward
    <2>3. CASE ~MainStep
      <3>1. CASE CreateServer \/ ListenAndServe \/ ListenFails \/ AcceptRequest \/ Respond
        <4>1. outcome = "none" /\ UNCHANGED <<stage, worker, handler>>
          BY <3>1 DEF CreateServer, ListenAndServe, ListenFails, ApiStep, AcceptRequest, Respond,
                 configVars, signalVars
        <4>2. api \in {"closed", "down"} => api' = api /\ requests' <= requests
          BY <3>1, <2>m DEF CreateServer, ListenAndServe, ListenFails, ApiStep, AcceptRequest, Respond
        <4>3. handler \in {"shutting", "done"} => api \in {"closed", "down"}
          BY <1>1, <4>1 DEF Retired
        <4> QED  BY <2>1, <2>3, <4>1, <4>2, <4>3
      <3>2. CASE Signal \/ TakeSignal \/ CancelAfterShutdown
        BY <2>1, <2>3, <2>m, <3>2 DEF Signal, TakeSignal, CancelAfterShutdown, configVars, apiVars
      <3>3. ASSUME NEW w \in Workers,
                   Begin(w) \/ ReturnAtOnce(w) \/ StartRound(w) \/ EndRound(w) \/ LeaveOnCancel(w)
            PROVE  OnlyForward
        BY <1>1, <2>3, <3>3, WorkerStepForward
      <3>4. CASE Ended
        BY <3>4 DEF Ended
      <3> QED  BY <1>1, <2>3, <3>1, <3>2, <3>3, <3>4 DEF Next
    <2> QED  BY <2>2, <2>3
  <1>2. Init => Retired
    BY DEF Init, Retired
  <1> QED  BY <1>1, <1>2, RetiredStep, LifeInit, LifeStep, PTL DEF Spec
=============================================================================
