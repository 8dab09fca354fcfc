--------------------------- MODULE ProberLifecycle ---------------------------
(***************************************************************************)
(* The process: main (cmd/prober/main.go) opens what the workers need,       *)
(* registers the workers whose needs are met, starts the API server and the  *)
(* signal handler and waits for the workers (worker/manager.go); a signal    *)
(* shuts the API server down and then cancels the context of the workers.    *)
(***************************************************************************)
EXTENDS Integers, FiniteSets

CONSTANTS
    Workers,      \* the workers of the instance, by the names the code gives them
    MaxRequests   \* bound on the open requests of the API

AllWorkers == {"collector", "relay-verifier", "operator-verifier", "reverifier", "stake-indexer",
               "ejection-indexer", "write-prober", "operator-status", "health-recorder"}

ASSUME WorkersAssumption == Workers \subseteq AllWorkers
ASSUME RequestsAssumption == MaxRequests \in Nat \ {0}

Resources == {"database", "eth", "registry", "discovery"}

\* What main asks to be there before it registers w.
Needs(w) ==
    {"database"}
    \cup (IF w \in {"relay-verifier", "reverifier"} THEN {"registry"} ELSE {})
    \cup (IF w \in {"stake-indexer", "ejection-indexer", "operator-status"} THEN {"eth"} ELSE {})
    \cup (IF w \in {"stake-indexer", "operator-verifier", "operator-status"} THEN {"discovery"} ELSE {})

\* The loops that look at the context before every round; the others select between
\* the context and a ticker.
Polling == {"collector", "relay-verifier", "operator-verifier"}

\* The workers that do something before they first look at the context.
StartsAtOnce == {"operator-verifier", "reverifier", "stake-indexer", "ejection-indexer",
                 "write-prober", "operator-status"}

\* The workers that return at their start if a contract or the proxy is missing.
MayReturn == {"stake-indexer", "ejection-indexer", "write-prober"}

VARIABLES
    enabled,    \* the workers the configuration switches on
    configured, \* whether it names an RPC node and a directory
    stage,      \* what main does next
    outcome,    \* how the process has ended, "none" while it runs
    held,       \* the resources that are open
    worker,     \* worker[w]: where its Run stands
    api,        \* the API server
    requests,   \* the requests it is answering
    handler,    \* the goroutine that waits for a signal
    pending     \* sigCh, a channel with one place

configVars == <<enabled, configured>>
apiVars == <<api, requests>>
signalVars == <<handler, pending>>
vars == <<configVars, stage, outcome, held, worker, apiVars, signalVars>>

Startup == {"database", "migrations", "eth", "registry", "discovery", "register", "serve", "notify", "run"}
Closing == {"close discovery", "close registry", "cancel", "close database"}
Running == {"starting", "idle", "busy"}

TypeOK ==
    /\ enabled \subseteq Workers /\ configured \in BOOLEAN
    /\ stage \in Startup \cup {"wait", "end"} \cup Closing
    /\ outcome \in {"none", "exit", "fatal", "panic", "killed"}
    /\ held \subseteq Resources
    /\ worker \in [Workers -> {"off", "registered", "returned", "ended"} \cup Running]
    /\ \A w \in Workers \ enabled : worker[w] = "off"
    /\ api \in {"off", "spawned", "created", "listening", "closed", "down"}
    /\ requests \in 0..MaxRequests
    /\ handler \in {"off", "waiting", "shutting", "done"}
    /\ pending \in BOOLEAN

Init ==
    /\ enabled \in SUBSET Workers /\ configured \in BOOLEAN
    /\ stage = "database" /\ outcome = "none" /\ held = {}
    /\ worker = [w \in Workers |-> "off"]
    /\ api = "off" /\ requests = 0
    /\ handler = "off" /\ pending = FALSE

\* Faulty variant: the handler does not call cancel.
CancelledOnReturn == stage \in {"close database", "end"}

\* The context of the workers is cancelled by the handler, or when main returns.
Cancelled == handler = "done" \/ stage \in {"close database", "end"}

At(s) == outcome = "none" /\ stage = s
-----------------------------------------------------------------------------
(* main, up to the registration.                                             *)

\* A resource is opened, or the process ends: log.Fatalf runs no deferred call.
OpenOrDie(s, r, next) ==
    /\ At(s)
    /\ \/ held' = held \cup r /\ stage' = next /\ UNCHANGED outcome
       \/ outcome' = "fatal" /\ UNCHANGED <<held, stage>>
    /\ UNCHANGED <<configVars, worker, apiVars, signalVars>>

\* A resource is opened if it is wanted, or a warning is logged.
OpenOrWarn(s, wanted, r, next) ==
    /\ At(s)
    /\ stage' = next
    /\ held' \in IF wanted THEN {held, held \cup r} ELSE {held}
    /\ UNCHANGED <<configVars, outcome, worker, apiVars, signalVars>>

OpenDatabase == OpenOrDie("database", {"database"}, "migrations")
RunMigrations == OpenOrDie("migrations", {}, "eth")
DialEthereum == OpenOrWarn("eth", configured, {"eth"}, "registry")

ResolveRegistry ==
    IF configured THEN OpenOrDie("registry", {"registry"}, "discovery")
                  ELSE OpenOrWarn("registry", FALSE, {}, "discovery")

StartDiscovery ==
    OpenOrWarn("discovery", configured /\ enabled \cap {"operator-verifier", "stake-indexer"} # {},
               {"discovery"}, "register")

\* Faulty variant: a worker is registered without a look at what it needs.
RegisterUnchecked(resolved) ==
    /\ At("register")
    /\ stage' = "serve"
    /\ worker' = [w \in Workers |->
           IF w \in enabled /\ (w = "operator-status" => resolved) THEN "registered" ELSE "off"]
    /\ UNCHANGED <<configVars, outcome, held, apiVars, signalVars>>

\* The REGISTRY_COORDINATOR is resolved for the operator status, or it is left out.
Register(resolved) ==
    /\ At("register")
    /\ stage' = "serve"
    /\ worker' = [w \in Workers |->
           IF w \in enabled /\ Needs(w) \subseteq held /\ (w = "operator-status" => resolved)
           THEN "registered" ELSE "off"]
    /\ UNCHANGED <<configVars, outcome, held, apiVars, signalVars>>

StartApi ==
    /\ At("serve")
    /\ stage' = "notify" /\ api' = "spawned"
    /\ UNCHANGED <<configVars, outcome, held, worker, requests, signalVars>>

HandleSignals ==
    /\ At("notify")
    /\ stage' = "run" /\ handler' = "waiting"
    /\ UNCHANGED <<configVars, outcome, held, worker, apiVars, pending>>
-----------------------------------------------------------------------------
(* Manager.Run and the workers.                                              *)

\* Faulty variant: every worker is started, registered or not.
RunAll ==
    /\ At("run")
    /\ stage' = "wait"
    /\ worker' = [w \in Workers |-> "starting"]
    /\ UNCHANGED <<configVars, outcome, held, apiVars, signalVars>>

RunWorkers ==
    /\ At("run")
    /\ stage' = "wait"
    /\ worker' = [w \in Workers |-> IF worker[w] = "registered" THEN "starting" ELSE worker[w]]
    /\ UNCHANGED <<configVars, outcome, held, apiVars, signalVars>>

WorkerStep(w, from, to) ==
    /\ outcome = "none"
    /\ worker[w] = from
    /\ worker' = [worker EXCEPT ![w] = to]
    /\ UNCHANGED <<configVars, stage, outcome, held, apiVars, signalVars>>

Begin(w) == WorkerStep(w, "starting", IF w \in StartsAtOnce THEN "busy" ELSE "idle")
ReturnAtOnce(w) == w \in MayReturn /\ WorkerStep(w, "starting", "returned")

\* With a ticker ready too, select picks either.
StartRound(w) == (w \in Polling => ~Cancelled) /\ WorkerStep(w, "idle", "busy")
EndRound(w) == WorkerStep(w, "busy", "idle")
LeaveOnCancel(w) == Cancelled /\ WorkerStep(w, "idle", "ended")

\* wg.Wait returns when every Run has.
WaitReturns ==
    /\ At("wait")
    /\ \A w \in Workers : worker[w] \notin Running
    /\ stage' = "close discovery"
    /\ UNCHANGED <<configVars, outcome, held, worker, apiVars, signalVars>>

Close(s, r, next) ==
    /\ At(s)
    /\ stage' = next /\ held' = held \ r
    /\ UNCHANGED <<configVars, outcome, worker, apiVars, signalVars>>

\* The deferred calls, the latest first; the client of the RPC node is not closed.
RunDeferred ==
    \/ Close("close discovery", {"discovery"}, "close registry")
    \/ Close("close registry", {"registry"}, "cancel")
    \/ Close("cancel", {}, "close database")
    \/ Close("close database", {"database"}, "end")

\* main returns, and the process ends whatever other goroutines do.
Exit ==
    /\ At("end")
    /\ outcome' = "exit"
    /\ UNCHANGED <<configVars, stage, held, worker, apiVars, signalVars>>
-----------------------------------------------------------------------------
(* The API server, in a goroutine of its own.                                *)

ApiStep(from, to) ==
    /\ outcome = "none" /\ api = from
    /\ api' = to
    /\ UNCHANGED <<configVars, stage, outcome, held, worker, requests, signalVars>>

\* s.server is set by the goroutine itself.
CreateServer == ApiStep("spawned", "created")
ListenAndServe == ApiStep("created", "listening")
ListenFails == ApiStep("created", "down")

AcceptRequest ==
    /\ outcome = "none" /\ api = "listening"
    /\ requests < MaxRequests
    /\ requests' = requests + 1
    /\ UNCHANGED <<configVars, stage, outcome, held, worker, api, signalVars>>

\* A query of the database and an answer, as fast as the client reads it.
Respond ==
    /\ outcome = "none" /\ requests > 0
    /\ requests' = requests - 1
    /\ UNCHANGED <<configVars, stage, outcome, held, worker, api, signalVars>>
-----------------------------------------------------------------------------
(* Signals.                                                                  *)

\* SIGINT or SIGTERM: before signal.Notify it kills the process; later the channel
\* holds it, or drops it when it is full.
Signal ==
    /\ outcome = "none"
    /\ IF stage \in Startup \ {"run"}
       THEN outcome' = "killed" /\ UNCHANGED pending
       ELSE ~pending /\ pending' = TRUE /\ UNCHANGED outcome
    /\ UNCHANGED <<configVars, stage, held, worker, apiVars, handler>>

\* The handler begins the shutdown: a server that is not created yet is a nil
\* pointer, and one that is does not accept any more.
TakeSignal ==
    /\ outcome = "none" /\ handler = "waiting" /\ pending
    /\ pending' = FALSE
    /\ handler' = "shutting"
    /\ IF api = "spawned"
       THEN outcome' = "panic" /\ UNCHANGED api
       ELSE api' = (IF api = "down" THEN "down" ELSE "closed") /\ UNCHANGED outcome
    /\ UNCHANGED <<configVars, stage, held, worker, requests>>

\* Shutdown returns once no request is open, its context cannot expire before, and
\* cancel is called.
CancelAfterShutdown ==
    /\ outcome = "none" /\ handler = "shutting"
    /\ requests = 0 \/ Cancelled
    /\ handler' = "done"
    /\ UNCHANGED <<configVars, stage, outcome, held, worker, apiVars, pending>>

Ended == outcome # "none" /\ UNCHANGED vars

MainStep ==
    \/ OpenDatabase \/ RunMigrations \/ DialEthereum \/ ResolveRegistry \/ StartDiscovery
    \/ \E resolved \in BOOLEAN : Register(resolved)
    \/ StartApi \/ HandleSignals \/ RunWorkers \/ WaitReturns \/ RunDeferred \/ Exit

Next ==
    \/ MainStep
    \/ \E w \in Workers : Begin(w) \/ ReturnAtOnce(w) \/ StartRound(w) \/ EndRound(w) \/ LeaveOnCancel(w)
    \/ CreateServer \/ ListenAndServe \/ ListenFails \/ AcceptRequest \/ Respond
    \/ Signal \/ TakeSignal \/ CancelAfterShutdown
    \/ Ended

(* Goroutines that can go on do, and a round whose context is cancelled      *)
(* ends; select takes the cancellation at last.  Nothing is said of rounds   *)
(* before that, nor of requests, which a client may hold open for ever.      *)
Fairness ==
    /\ WF_vars(MainStep)
    /\ WF_vars(TakeSignal)
    /\ WF_vars(CancelAfterShutdown)
    /\ \A w \in Workers :
          /\ WF_vars(Begin(w) \/ ReturnAtOnce(w))
          /\ WF_vars(Cancelled /\ EndRound(w))
          /\ SF_vars(LeaveOnCancel(w))

Spec == Init /\ [][Next]_vars /\ Fairness
-----------------------------------------------------------------------------
(* A worker in a round holds everything it uses; the process does not exit   *)
(* under a worker; and once the shutdown began on a signal no request is     *)
(* left without its database, however startup, signal and shutdown overlap.  *)
NobodyIsCutOff ==
    /\ \A w \in Workers : worker[w] = "busy" => Needs(w) \subseteq held
    /\ outcome = "exit" => \A w \in Workers : worker[w] \notin Running
    /\ requests > 0 /\ "database" \notin held =>
           \A w \in Workers : worker[w] \in {"off", "returned"}

(* A signal the process has received stops it, at whatever point of the      *)
(* startup or of the workers' rounds it arrives, unless a client holds a     *)
(* request open for ever.                                                    *)
StopsOnSignal == <>[](requests > 0) \/ (pending ~> outcome # "none")
=============================================================================
