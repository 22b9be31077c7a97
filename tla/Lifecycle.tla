------------------------------- MODULE Lifecycle -------------------------------
(* The start and the stop of drydock: registry/index.ts registers the configured *)
(* components kind by kind, index.ts starts the API over what is registered, and *)
(* a signal deregisters everything. The components of one kind register together *)
(* (Promise.all): the first that fails lets the start go on while the others *)
(* still register, so what comes up after it finds a registry that is not whole. *)
EXTENDS Naturals, Sequences

CONSTANTS Component,    \* the components the instance can have
          KindOf,       \* Component -> the kind it is registered as
          Local,        \* the watcher drydock makes up when none is configured
          Anonymous,    \* the authentication it makes up when none is configured
          Unsupported,  \* the triggers an agent ignores (neither docker nor dockercompose)
          Refusing,     \* the authentications whose strategy may throw in getStrategy
          Setups,       \* the sets of components a user configures
          Signal        \* the signals a run receives

ASSUME LifeAssumption ==
  /\ KindOf \in [Component -> {"trigger", "registry", "watcher", "authentication", "agent"}]
  /\ Local \in Component /\ KindOf[Local] = "watcher"
  /\ Anonymous \in Component /\ KindOf[Anonymous] = "authentication"
  /\ Setups \subseteq SUBSET Component

VARIABLES mode,         \* "controller" or "agent": the --agent flag
          configured,   \* the components the user configured
          phase,        \* the kind that registers, then Ready, then Serving
          comp,         \* Component -> "off", "loading", "on", "failed" or "gone"
          used,         \* STRATEGY_IDS of api/auth.ts: what passport tries
          unheard,      \* history: the triggers not registered yet when a container was reported
          stopStage,        \* Signal -> the kind its shutdown deregisters; 0: not received
          leaving,      \* Signal -> the components its shutdown waits for
          exited        \* "running", or how the process ended: "clean" (0) or "error" (1)

lifeVars == <<mode, configured, phase, comp, used, unheard, stopStage, leaving, exited>>

Order == IF mode = "agent" THEN <<"trigger", "registry", "watcher">>
         ELSE <<"trigger", "registry", "watcher", "authentication", "agent">>
StopOrder == <<"watcher", "trigger", "registry", "authentication", "agent">>

Ready == Len(Order) + 1    \* every kind was registered, the signal handlers are installed
Serving == Len(Order) + 2

Of(kind) == {c \in Component : KindOf[c] = kind}
In(state) == {c \in Component : comp[c] = state}

\* What is registered as a kind: the configured ones, or the default one.
Wanted(kind) ==
  LET given == configured \cap Of(kind)
  IN  CASE kind = "watcher" /\ given = {} -> {Local}
        [] kind = "authentication" /\ given = {} -> {Anonymous}
        [] kind = "trigger" /\ mode = "agent" -> given \ Unsupported
        [] OTHER -> given

\* Mutant: the kinds register together, nothing is awaited.
NotAwaited(kind) == TRUE

\* Promise.all settles when all have registered or one has failed; the failures
\* of agents are caught one by one.
AllSettled(kind) ==
  \/ Wanted(kind) \cap In("loading") = {}
  \/ kind # "agent" /\ Wanted(kind) \cap In("failed") # {}

Up == exited = "running"

LifeInit ==
  /\ mode \in {"controller", "agent"}
  /\ configured \in Setups
  /\ phase = 0
  /\ comp = [c \in Component |-> "off"]
  /\ used = {} /\ unheard = {}
  /\ stopStage = [s \in Signal |-> 0]
  /\ leaving = [s \in Signal |-> {}]
  /\ exited = "running"

\* The next kind starts to register. An agent without a watcher exits.
NextKind ==
  /\ Up /\ phase < Len(Order)
  /\ phase > 0 => AllSettled(Order[phase])
  /\ LET kind == Order[phase + 1]
     IN  IF kind = "watcher" /\ mode = "agent" /\ Wanted(kind) = {Local} /\ Local \notin configured
         THEN exited' = "error" /\ UNCHANGED <<phase, comp>>
         ELSE /\ phase' = phase + 1
              /\ comp' = [c \in Component |-> IF c \in Wanted(kind) THEN "loading" ELSE comp[c]]
              /\ UNCHANGED exited
  /\ UNCHANGED <<mode, configured, used, unheard, stopStage, leaving>>

\* registerComponent: the module is imported, the configuration validated, init
\* awaited; any of them may throw.
Registers(c, how) ==
  /\ Up /\ comp[c] = "loading"
  /\ comp' = [comp EXCEPT ![c] = how]
  /\ UNCHANGED <<mode, configured, phase, used, unheard, stopStage, leaving, exited>>

\* init returns: the handlers of SIGINT and SIGTERM are installed.
Install ==
  /\ Up /\ phase = Len(Order) /\ AllSettled(Order[phase])
  /\ phase' = Ready
  /\ UNCHANGED <<mode, configured, comp, used, unheard, stopStage, leaving, exited>>

\* useStrategy for each registered authentication; one that throws is left out.
Strategies(refused) == (Of("authentication") \cap In("on")) \ refused

\* api.init of a controller, the agent server's init of an agent; a certificate
\* or a secret that cannot be read ends the process.
Serve ==
  /\ Up /\ phase = Ready
  /\ \/ /\ phase' = Serving
        /\ \E refused \in SUBSET Refusing :
             used' = IF mode = "controller" THEN Strategies(refused) ELSE used
        /\ UNCHANGED exited
     \/ exited' = "error" /\ UNCHANGED <<phase, used>>
  /\ UNCHANGED <<mode, configured, comp, unheard, stopStage, leaving>>

\* A watcher reports a container to the triggers that have registered a handler.
Reports(w) ==
  /\ Up /\ KindOf[w] = "watcher" /\ comp[w] = "on"
  /\ unheard' = unheard \cup (Wanted("trigger") \cap In("loading"))
  /\ UNCHANGED <<mode, configured, phase, comp, used, stopStage, leaving, exited>>

\* deregisterComponents of one kind: the components that are registered now.
Leavers(n) == Of(StopOrder[n]) \cap In("on")

Receive(s) ==
  /\ Up /\ phase >= Ready /\ stopStage[s] = 0
  /\ stopStage' = [stopStage EXCEPT ![s] = 1]
  /\ leaving' = [leaving EXCEPT ![s] = Leavers(1)]
  /\ UNCHANGED <<mode, configured, phase, comp, used, unheard, exited>>

\* A component deregisters, or throws: its kind's Promise.all rejects and the
\* process exits without deregistering the rest.
Leave(s, c) ==
  /\ Up /\ c \in leaving[s]
  /\ comp' = [comp EXCEPT ![c] = "gone"]
  /\ \/ /\ leaving' = [leaving EXCEPT ![s] = @ \ {c}]
        /\ UNCHANGED exited
     \/ exited' = "error" /\ UNCHANGED leaving
  /\ UNCHANGED <<mode, configured, phase, used, unheard, stopStage>>

\* deregisterAll goes on to the next kind, then the process exits.
GoOnStopping(s) ==
  /\ Up /\ stopStage[s] > 0 /\ leaving[s] = {}
  /\ IF stopStage[s] < Len(StopOrder)
     THEN /\ stopStage' = [stopStage EXCEPT ![s] = @ + 1]
          /\ leaving' = [leaving EXCEPT ![s] = Leavers(stopStage[s] + 1)]
          /\ UNCHANGED exited
     ELSE exited' = "clean" /\ UNCHANGED <<stopStage, leaving>>
  /\ UNCHANGED <<mode, configured, phase, comp, used, unheard>>

LifeNext ==
  \/ NextKind \/ Install \/ Serve
  \/ \E c \in Component, how \in {"on", "failed"} : Registers(c, how)
  \/ \E w \in Component : Reports(w)
  \/ \E s \in Signal : Receive(s) \/ GoOnStopping(s) \/ \E c \in Component : Leave(s, c)

LifeSpec == LifeInit /\ [][LifeNext]_lifeVars

-------------------------------------------------------------------------------
\* getStrategies of api/auth.ts reads the registry at each call.
Offered == Of("authentication") \cap In("on")
SomeFailed(kind) == Of(kind) \cap In("failed") # {}

(* What starts later finds a whole registry, and a stop leaves nothing behind, *)
(* unless a component failed to register: the sign-in page offers exactly what *)
(* passport tries (init and getStrategies of api/auth.ts), no container is *)
(* reported before the triggers that are to hear of it have their handlers (init *)
(* of registry/index.ts), and when the process exits with 0 every component was *)
(* deregistered (deregisterAll), however many signals arrive. *)
StartsWhole ==
  /\ phase = Serving /\ mode = "controller" =>
       SomeFailed("authentication") \/ Offered \ Refusing \subseteq used
  /\ unheard # {} => SomeFailed("trigger")
  /\ exited = "clean" => \A c \in In("on") \cup In("loading") : SomeFailed(KindOf[c])
===============================================================================
