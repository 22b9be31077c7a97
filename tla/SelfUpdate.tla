------------------------------- MODULE SelfUpdate ------------------------------
(* A page of the UI while drydock updates its own container: the server announces *)
(* the update on its event stream and goes away, the overlay covers the page, and *)
(* asks the server's health until it answers, to reload the page. *)
EXTENDS Naturals

CONSTANT SelfUpdates        \* the self-updates a run begins

VARIABLES server,       \* "up" or "down"
          begun,        \* self-updates begun
          working,      \* a self-update was announced and has not ended
          stream,       \* the page's EventSource: "open", "broken" or "failing"
          selfUpdateMode, retry,   \* of the SseService; retry: its timer runs
          overlay,      \* "off", or the phase: "updating", "disconnected", "ready"
          healthPolling,      \* healthPollTimer runs
          reloading,    \* the page is about to reload
          signedIn      \* the page's requests carry a session

pageVars == <<stream, selfUpdateMode, retry, overlay, healthPolling, reloading>>
selfVars == <<server, begun, working, pageVars, signedIn>>

SelfInit ==
  /\ server = "up" /\ begun = 0 /\ working = FALSE
  /\ stream = "open" /\ selfUpdateMode = FALSE /\ retry = FALSE
  /\ overlay = "off" /\ healthPolling = FALSE /\ reloading = FALSE
  /\ signedIn \in BOOLEAN

\* broadcastSelfUpdate: the pages whose stream is open hear of it.
Announce ==
  /\ server = "up" /\ ~working /\ begun < SelfUpdates
  /\ begun' = begun + 1 /\ working' = TRUE
  /\ IF stream = "open"
     THEN selfUpdateMode' = TRUE /\ overlay' = "updating"
     ELSE UNCHANGED <<selfUpdateMode, overlay>>
  /\ UNCHANGED <<server, stream, retry, healthPolling, reloading, signedIn>>

\* The update fails, in the pull for one: nothing tells the pages.
GiveUp ==
  /\ working /\ server = "up"
  /\ working' = FALSE
  /\ UNCHANGED <<server, begun, pageVars, signedIn>>

\* The container is replaced: the old process ends, its streams break.
GoDown ==
  /\ working /\ server = "up"
  /\ server' = "down"
  /\ stream' = IF stream = "open" THEN "broken" ELSE stream
  /\ UNCHANGED <<begun, working, selfUpdateMode, retry, overlay, healthPolling, reloading, signedIn>>

ComeUp ==
  /\ server = "down"
  /\ server' = "up" /\ working' = FALSE
  /\ UNCHANGED <<begun, pageVars, signedIn>>

\* onerror: during a self-update the overlay is told, otherwise a timer is set to
\* connect anew.
StreamError ==
  /\ stream = "broken"
  /\ stream' = "failing"
  /\ IF selfUpdateMode
     THEN /\ overlay' = IF overlay = "off" THEN "off" ELSE "disconnected"
          /\ healthPolling' = (overlay # "off" \/ healthPolling)
          /\ UNCHANGED retry
     ELSE retry' = TRUE /\ UNCHANGED <<overlay, healthPolling>>
  /\ UNCHANGED <<server, begun, working, selfUpdateMode, reloading, signedIn>>

\* doConnect closes the old source and opens one; so does the browser by itself.
Connect ==
  /\ stream = "failing" \/ retry
  /\ stream' = IF server = "up" THEN "open" ELSE "broken"
  /\ retry' = FALSE
  /\ UNCHANGED <<server, begun, working, selfUpdateMode, overlay, healthPolling, reloading, signedIn>>

\* GET requests the API answers without a session, and the status of the others:
\* the app router has the one route, behind it a session is required, and what no
\* router answers is not found.
OpenRoutes == {"/api/app"}
HealthRoute == "/api/app/health"
Status(path) == IF path \in OpenRoutes THEN 200 ELSE IF signedIn THEN 404 ELSE 401

\* One poll of the health: any answer that is not ok leaves the interval running.
HealthPoll ==
  /\ healthPolling /\ server = "up"
  /\ LET ok == Status(HealthRoute) = 200
     IN  /\ overlay' = IF ok THEN "ready" ELSE overlay
         /\ healthPolling' = ~ok
         /\ reloading' = (reloading \/ ok)
  /\ UNCHANGED <<server, begun, working, stream, selfUpdateMode, retry, signedIn>>

\* location.reload, by the timer of the overlay or by the user: a fresh page.
ReloadPage ==
  /\ server = "up"
  /\ overlay' = "off" /\ healthPolling' = FALSE /\ reloading' = FALSE
  /\ selfUpdateMode' = FALSE /\ retry' = FALSE /\ stream' = "open"
  /\ UNCHANGED <<server, begun, working, signedIn>>

SelfNext == Announce \/ GiveUp \/ GoDown \/ ComeUp \/ StreamError \/ Connect \/ HealthPoll \/ ReloadPage

\* The timers of the page and its EventSource; the user need not reload.
SelfFairness ==
  /\ WF_selfVars(StreamError)
  /\ WF_selfVars(Connect)
  /\ WF_selfVars(HealthPoll)
  /\ WF_selfVars(reloading /\ ReloadPage)

-------------------------------------------------------------------------------
(* When the server is back after a self-update, the page that showed the restart *)
(* reloads: what CHANGELOG.md promises of the overlay's health healthPolling. *)
ReloadsAfterRestart ==
  (overlay = "disconnected" /\ server = "up") ~> (overlay = "off" \/ server = "down")
===============================================================================
