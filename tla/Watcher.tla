-------------------------------- MODULE Watcher --------------------------------
(***************************************************************************)
(* When a Docker watcher starts a watch                                    *)
(* (app/watchers/providers/docker/Docker.ts, maintenance.ts): the cron     *)
(* job, the delayed watch at start, the debounced watch of container       *)
(* events, and the maintenance window, outside which a watch is queued and *)
(* a timer polls for the window to open.  What a watch does is the subject *)
(* of ContainerStore; here it only starts.                                 *)
(***************************************************************************)
EXTENDS Naturals

VARIABLES
  cronRuns,  \* the cron job runs: not deregistered yet
  window,      \* the maintenance window: none configured, open or closed
  queue,       \* maintenanceWindowWatchQueued, the handle of its timer, and
               \* how many such timers are pending in the event loop
  startTimer,  \* watchCronTimeout is pending
  debounced,   \* watchCronDebounced is set
  quietTimer,  \* the timer inside the debounced function is pending
  listen,      \* the event stream: off, timer, auth or open
  owed         \* history: somebody asked for a watch, and none started since

watcherVars == <<cronRuns, window, queue, startTimer, debounced, quietTimer,
                 listen, owed>>
events == <<debounced, listen>>

WatcherTypeOK ==
  /\ cronRuns \in BOOLEAN /\ window \in {"none", "open", "closed"}
  /\ queue \in [asked : BOOLEAN, handle : BOOLEAN, polls : Nat]
  /\ startTimer \in BOOLEAN /\ debounced \in BOOLEAN /\ quietTimer \in BOOLEAN
  /\ listen \in {"off", "timer", "auth", "open"} /\ owed \in BOOLEAN

\* init: watchatstart counts only for an empty store, watchevents is an option.
WatcherInit ==
  /\ cronRuns = TRUE
  /\ window \in {"none", "open", "closed"}
  /\ queue = [asked |-> FALSE, handle |-> FALSE, polls |-> 0]
  /\ startTimer \in BOOLEAN
  /\ debounced \in BOOLEAN
  /\ listen = IF debounced THEN "timer" ELSE "off"
  /\ quietTimer = FALSE
  /\ owed = startTimer

-------------------------------------------------------------------------------
(* queueMaintenanceWindowWatch, clearMaintenanceWindowQueue and the timer.  *)

\* Mutant: queueing again sets another timer.
QueuedAnew(q) == [asked |-> TRUE, handle |-> TRUE, polls |-> q.polls + 1]

Queued(q) == IF q.handle THEN [q EXCEPT !.asked = TRUE]
             ELSE [asked |-> TRUE, handle |-> TRUE, polls |-> q.polls + 1]

Cleared(q) == [asked |-> FALSE, handle |-> FALSE,
               polls |-> IF q.handle THEN q.polls - 1 ELSE q.polls]

\* Mutant: the timer that fired is not forgotten.
FiredOnly(q) == [q EXCEPT !.polls = @ - 1]

Fired(q) == [asked |-> q.asked, handle |-> FALSE, polls |-> q.polls - 1]

WindowClosed == window = "closed"

\* watchFromCron: a watch, or outside the window a queued watch.
WatchFromCron ==
  \/ WindowClosed /\ queue' = Queued(queue) /\ owed' = TRUE
  \/ ~WindowClosed /\ queue' = Cleared(queue) /\ owed' = FALSE

CronFires ==
  /\ cronRuns
  /\ WatchFromCron
  /\ UNCHANGED <<cronRuns, window, startTimer, quietTimer, events>>

StartFires ==
  /\ startTimer /\ startTimer' = FALSE
  /\ WatchFromCron
  /\ UNCHANGED <<cronRuns, window, quietTimer, events>>

\* The timer of the debounced function is not cleared by deregisterComponent.
QuietFires ==
  /\ quietTimer /\ quietTimer' = FALSE
  /\ WatchFromCron
  /\ UNCHANGED <<cronRuns, window, startTimer, events>>

\* checkQueuedMaintenanceWindowWatch
PollFires ==
  /\ queue.polls > 0
  /\ LET q == Fired(queue)
     IN  /\ queue' = IF WindowClosed /\ q.asked THEN Queued(q) ELSE Cleared(q)
         /\ owed' = (owed /\ ~(window = "open" /\ q.asked))
  /\ UNCHANGED <<cronRuns, window, startTimer, quietTimer, events>>

-------------------------------------------------------------------------------
(* Docker events. *)

\* listenDockerEvents: the remote auth is awaited, getEvents may fail, and
\* neither a failure nor the end of the stream makes the watcher listen again.
ListenFires == /\ listen = "timer" /\ listen' = "auth"
               /\ UNCHANGED <<cronRuns, window, queue, startTimer, debounced,
                              quietTimer, owed>>
Listens == /\ listen = "auth" /\ listen' \in {"open", "off"}
           /\ UNCHANGED <<cronRuns, window, queue, startTimer, debounced,
                          quietTimer, owed>>
StreamEnds == /\ listen = "open" /\ listen' = "off"
              /\ UNCHANGED <<cronRuns, window, queue, startTimer, debounced,
                             quietTimer, owed>>

\* processDockerEvent of a create or destroy: the debounced watch is put off to
\* five seconds from now; once deregistered the call throws, and is logged.
ContainerEvent ==
  /\ listen = "open"
  /\ IF debounced THEN quietTimer' = TRUE /\ owed' = TRUE
                  ELSE UNCHANGED <<quietTimer, owed>>
  /\ UNCHANGED <<cronRuns, window, queue, startTimer, events>>

-------------------------------------------------------------------------------
\* deregisterComponent: the stream stays open.
DeregisterWatcher ==
  /\ cronRuns /\ cronRuns' = FALSE
  /\ startTimer' = FALSE
  /\ listen' = IF listen = "timer" THEN "off" ELSE listen
  /\ debounced' = FALSE
  /\ queue' = Cleared(queue)
  /\ UNCHANGED <<window, quietTimer, owed>>

\* isMaintenanceWindowOpen changes with the clock.
WindowOpens == /\ window = "closed" /\ window' = "open"
               /\ UNCHANGED <<cronRuns, queue, startTimer, quietTimer, events, owed>>
WindowCloses == /\ window = "open" /\ window' = "closed"
                /\ UNCHANGED <<cronRuns, queue, startTimer, quietTimer, events, owed>>

WatcherNext ==
  \/ CronFires \/ StartFires \/ QuietFires \/ PollFires
  \/ ListenFires \/ Listens \/ StreamEnds \/ ContainerEvent
  \/ DeregisterWatcher \/ WindowOpens \/ WindowCloses

WatcherSpec == WatcherInit /\ [][WatcherNext]_watcherVars

(***************************************************************************)
(* Fairness.  Timers fire, the window opens again and again, and stays     *)
(* open long enough for the poll of every minute to fall into it.  Events  *)
(* pause for the five seconds of the debounce.  Nothing is assumed of cron.*)
(***************************************************************************)
PollInWindow == window = "open" /\ PollFires
WatcherFairness ==
  /\ WF_watcherVars(StartFires)
  /\ WF_watcherVars(QuietFires)
  /\ WF_watcherVars(WindowOpens)
  /\ SF_watcherVars(PollInWindow)

-------------------------------------------------------------------------------
(***************************************************************************)
(* OnePoll: a queued watch has one poll timer pending, whose handle is     *)
(* set; when none is queued there is no timer.  A second timer would       *)
(* escape clearMaintenanceWindowQueue; a handle without its timer makes    *)
(* queueMaintenanceWindowWatch return early and the watch is never made.   *)
(***************************************************************************)
OnePoll == /\ queue.handle = queue.asked
           /\ queue.polls = (IF queue.asked THEN 1 ELSE 0)

(***************************************************************************)
(* AskedIsWatched: whenever the cron job, the start or a container event   *)
(* asks for a watch of a watcher that stays registered, a watch starts,    *)
(* without waiting for the next time of the cron job.                      *)
(***************************************************************************)
AskedIsWatched == owed ~> (~owed \/ ~cronRuns)
================================================================================
