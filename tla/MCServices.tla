------------------------------- MODULE MCServices -------------------------------
(* The components that keep a queue, a stream or a session of their own, *)
(* and the start and stop of the process, in one run: `part` is the one that *)
(* moves, the others stay as they start. *)
EXTENDS Watcher, DockerEvents, RemoteAuth, TrivyQueue, OidcSession, HealthMonitor,
        SelfUpdate, Lifecycle, WebPages, SecurityGate, StoreFile

VARIABLE part

queueVars == <<watcherVars, eventVars, authVars, trivyVars, oidcVars, monitorVars>>
otherVars == <<selfVars, lifeVars, webVars, gateVars, fileVars>>
servicesVars == <<part, queueVars, otherVars>>

\* Lifecycle: a docker trigger, one an agent ignores, a registry, a watcher, two
\* authentications and an agent.
MCKindOf == [t |-> "trigger", u |-> "trigger", r |-> "registry", w |-> "watcher", local |-> "watcher",
             o |-> "authentication", p |-> "authentication", anon |-> "authentication", g |-> "agent"]

\* SecurityGate: the second push of the tag has a vulnerability that is not stored,
\* the third is not signed and has one of a severity Trivy alone knows.
MCUpcase == [HIGH |-> "HIGH", low |-> "LOW", odd |-> "ODD"]
MCReported == <<<<"low">>, <<"low", "HIGH">>, <<"odd">>>>
Configured(enabled, blocking, verify, sbom, formats) ==
  [enabled |-> enabled, blocking |-> blocking, verify |-> verify, sbom |-> sbom, formats |-> formats]
NoGate == Configured(FALSE, {}, FALSE, FALSE, {})
MCGateConfigs == {Configured(TRUE, {"HIGH"}, TRUE, TRUE, {"cyclonedx-json", "spdx-json"}),
                  Configured(TRUE, {"HIGH"}, FALSE, FALSE, {}),
                  Configured(TRUE, {"UNKNOWN"}, FALSE, TRUE, {"spdx"}), NoGate}

NoAuth == [type |-> "", fields |-> {}, https |-> FALSE, endpoint |-> FALSE, grant |-> "", device |-> FALSE]

ServicesInit ==
  /\ part \in {"schedule", "events", "credentials", "scans", "logins", "monitor", "overlay",
               "lifecycle", "pages", "gate", "file"}
  /\ part # "schedule" => window = "none" /\ startTimer = FALSE /\ debounced = FALSE
  /\ part # "credentials" => auth = NoAuth /\ access = "none" /\ refresh = 0
  /\ part # "overlay" => signedIn = FALSE
  /\ part # "lifecycle" => mode = "controller" /\ configured = {}
  /\ part # "pages" => strategies = {"basic"} /\ session = FALSE
  /\ part # "monitor" => health = "healthy" /\ autoremove = FALSE /\ backup = FALSE
  /\ part # "file" => legacy = NoFile
  /\ part # "gate" => gateConfig = NoGate
  /\ WatcherInit /\ EventsInit /\ AuthInit /\ TrivyInit /\ OidcInit /\ MonitorInit
  /\ SelfInit /\ LifeInit /\ WebInit /\ GateInit /\ StoreFileInit

ServicesNext ==
  /\ UNCHANGED part
  /\ \/ part = "schedule" /\ WatcherNext
        /\ UNCHANGED <<eventVars, authVars, trivyVars, oidcVars, monitorVars, otherVars>>
     \/ part = "events" /\ EventsNext
        /\ UNCHANGED <<watcherVars, authVars, trivyVars, oidcVars, monitorVars, otherVars>>
     \/ part = "credentials" /\ AuthNext
        /\ UNCHANGED <<watcherVars, eventVars, trivyVars, oidcVars, monitorVars, otherVars>>
     \/ part = "scans" /\ TrivyNext
        /\ UNCHANGED <<watcherVars, eventVars, authVars, oidcVars, monitorVars, otherVars>>
     \/ part = "logins" /\ OidcNext
        /\ UNCHANGED <<watcherVars, eventVars, authVars, trivyVars, monitorVars, otherVars>>
     \/ part = "monitor" /\ MonitorNext
        /\ UNCHANGED <<watcherVars, eventVars, authVars, trivyVars, oidcVars, otherVars>>
     \/ part = "overlay" /\ SelfNext /\ UNCHANGED <<queueVars, lifeVars, webVars, gateVars, fileVars>>
     \/ part = "lifecycle" /\ LifeNext /\ UNCHANGED <<queueVars, selfVars, webVars, gateVars, fileVars>>
     \/ part = "pages" /\ WebNext /\ UNCHANGED <<queueVars, selfVars, lifeVars, gateVars, fileVars>>
     \/ part = "gate" /\ GateNext /\ UNCHANGED <<queueVars, selfVars, lifeVars, webVars, fileVars>>
     \/ part = "file" /\ StoreFileNext
        /\ UNCHANGED <<queueVars, selfVars, lifeVars, webVars, gateVars>>

Fairness == WatcherFairness /\ AuthFairness /\ TrivyFairness /\ SelfFairness

ServicesSpec == ServicesInit /\ [][ServicesNext]_servicesVars /\ Fairness
================================================================================
