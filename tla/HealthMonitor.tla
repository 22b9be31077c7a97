------------------------------ MODULE HealthMonitor ------------------------------
(***************************************************************************)
(* The monitor of an updated container and its automatic rollback          *)
(* (app/triggers/providers/docker/HealthMonitor.ts): an interval inspects  *)
(* the container until a window ends, and an unhealthy container is        *)
(* replaced by one of the backup image.  Several polls may be under way    *)
(* when the daemon answers slower than the interval.                       *)
(***************************************************************************)
EXTENDS Naturals, FiniteSets

CONSTANTS
  Beat  \* polls of one monitor; a bound

VARIABLES
  polling,      \* the interval and the window's timer are set
  poll,         \* what each poll is at
  up,           \* whether its rollback found the container running
  box,          \* the monitored container
  health,       \* its state of health
  autoremove,   \* it runs with --rm
  backup,       \* there is a backup for its id
  replacement,  \* the container of the backup image
  slow,         \* history: a poll began while another waited for its inspect
  broke         \* history: the daemon failed, or someone else changed the container

monitorVars == <<polling, poll, up, box, health, autoremove, backup, replacement, slow, broke>>

MonitorTypeOK ==
  /\ polling \in BOOLEAN /\ slow \in BOOLEAN /\ broke \in BOOLEAN
  /\ autoremove \in BOOLEAN /\ backup \in BOOLEAN
  /\ poll \in [Beat -> {"none", "asked", "inspect", "stop", "remove", "wait", "create", "start", "done"}]
  /\ up \in [Beat -> BOOLEAN]
  /\ box \in {"up", "down", "gone"} /\ health \in {"healthy", "unhealthy", "unchecked"}
  /\ replacement \in {"none", "down", "up"}

MonitorInit ==
  /\ polling = TRUE /\ poll = [p \in Beat |-> "none"] /\ up = [p \in Beat |-> FALSE]
  /\ box = "up" /\ health \in {"healthy", "unchecked"}
  /\ autoremove \in BOOLEAN /\ backup \in BOOLEAN
  /\ replacement = "none" /\ slow = FALSE /\ broke = FALSE

Goto(p, s) == poll' = [poll EXCEPT ![p] = s]

-------------------------------------------------------------------------------
\* The container becomes unhealthy, or well again.
Turns ==
  /\ box = "up" /\ health # "unchecked"
  /\ health' = IF health = "healthy" THEN "unhealthy" ELSE "healthy"
  /\ UNCHANGED <<polling, poll, up, box, autoremove, backup, replacement, slow, broke>>

\* Mutant: only the window's timer is cleared.
KeepPolling == UNCHANGED polling

\* cleanup: no further poll starts.
Cleanup == polling' = FALSE

\* setInterval(checkHealth): the inspect is sent.
Tick(p) ==
  /\ polling /\ poll[p] = "none" /\ Goto(p, "asked")
  /\ slow' = (slow \/ \E o \in Beat : poll[o] = "asked")
  /\ UNCHANGED <<polling, up, box, health, autoremove, backup, replacement, broke>>

\* The window ends, or the monitor is aborted: polls under way go on.
WindowEnds ==
  /\ polling /\ polling' = FALSE
  /\ UNCHANGED <<poll, up, box, health, autoremove, backup, replacement, slow, broke>>

\* The answer of inspect; a container without a healthcheck ends the monitor,
\* an unhealthy one starts performRollback, which needs a backup.
Checked(p) ==
  /\ poll[p] = "asked"
  /\ IF box = "gone" THEN Goto(p, "done") /\ UNCHANGED polling
     ELSE IF health = "unchecked" THEN Goto(p, "done") /\ Cleanup
     ELSE IF health = "healthy" THEN Goto(p, "done") /\ UNCHANGED polling
     ELSE Goto(p, IF backup THEN "inspect" ELSE "done") /\ Cleanup
  /\ UNCHANGED <<up, box, health, autoremove, backup, replacement, slow, broke>>

Inspect(p) ==
  /\ poll[p] = "inspect"
  /\ IF box = "gone" THEN Goto(p, "done") /\ UNCHANGED up
     ELSE /\ Goto(p, IF box = "up" THEN "stop" ELSE IF autoremove THEN "wait" ELSE "remove")
          /\ up' = [up EXCEPT ![p] = box = "up"]
  /\ UNCHANGED <<polling, box, health, autoremove, backup, replacement, slow, broke>>

\* stopContainer: the daemon answers a second stop with an error.
Stop(p) ==
  /\ poll[p] = "stop"
  /\ IF box # "up" THEN Goto(p, "done") /\ UNCHANGED box
     ELSE /\ box' = IF autoremove THEN "gone" ELSE "down"
          /\ Goto(p, IF autoremove THEN "wait" ELSE "remove")
  /\ UNCHANGED <<polling, up, health, autoremove, backup, replacement, slow, broke>>

RemoveBox(p) ==
  /\ poll[p] = "remove"
  /\ IF box # "down" THEN Goto(p, "done") /\ UNCHANGED box
     ELSE Goto(p, "create") /\ box' = "gone"
  /\ UNCHANGED <<polling, up, health, autoremove, backup, replacement, slow, broke>>

\* waitContainerRemoved: the daemon may not know the container any more.
Wait(p) ==
  /\ poll[p] = "wait" /\ box = "gone"
  /\ \/ Goto(p, "create") /\ UNCHANGED broke
     \/ Goto(p, "done") /\ broke' = TRUE
  /\ UNCHANGED <<polling, up, box, health, autoremove, backup, replacement, slow>>

\* createContainer: the name is taken until the old container is gone.
Create(p) ==
  /\ poll[p] = "create"
  /\ LET free == box = "gone" /\ replacement = "none"
     IN  /\ Goto(p, IF free /\ up[p] THEN "start" ELSE "done")
         /\ replacement' = IF free THEN "down" ELSE replacement
  /\ UNCHANGED <<polling, up, box, health, autoremove, backup, slow, broke>>

Start(p) ==
  /\ poll[p] = "start" /\ Goto(p, "done") /\ replacement' = "up"
  /\ UNCHANGED <<polling, up, box, health, autoremove, backup, slow, broke>>

\* A request fails: the rollback ends with an audit entry.
DaemonFails(p) ==
  /\ poll[p] \notin {"none", "done"} /\ Goto(p, "done") /\ broke' = TRUE
  /\ UNCHANGED <<polling, up, box, health, autoremove, backup, replacement, slow>>

\* Someone stops the container.
UserStops ==
  /\ box = "up" /\ ~autoremove /\ box' = "down" /\ broke' = TRUE
  /\ UNCHANGED <<polling, poll, up, health, autoremove, backup, replacement, slow>>

MonitorNext ==
  \/ Turns \/ WindowEnds \/ UserStops
  \/ \E p \in Beat : \/ Tick(p) \/ Checked(p) \/ Inspect(p) \/ Stop(p) \/ RemoveBox(p)
                     \/ Wait(p) \/ Create(p) \/ Start(p) \/ DaemonFails(p)

MonitorSpec == MonitorInit /\ [][MonitorNext]_monitorVars

-------------------------------------------------------------------------------
(***************************************************************************)
(* RollbackCompletes: when no poll is under way, the application runs: in  *)
(* the container that was updated or in its replacement - unless the       *)
(* daemon or a user interfered, or a slow inspect overlapped the next      *)
(* poll, so that two polls rolled the container back.                      *)
(***************************************************************************)
RollbackCompletes ==
  (\A p \in Beat : poll[p] \in {"none", "done"}) /\ ~broke /\ ~slow
    => box = "up" \/ replacement = "up"
================================================================================
