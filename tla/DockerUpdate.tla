----------------------------- MODULE DockerUpdate -----------------------------
(***************************************************************************)
(* The Docker trigger (app/triggers/providers/docker/Docker.ts): how a     *)
(* container is replaced by one of a newer image, and the rollback call of *)
(* app/api/backup.ts, which replaces it by one of a backed-up image.       *)
(*                                                                         *)
(* Nothing keeps two of these tasks from working on one container, and     *)
(* users start, stop and remove containers meanwhile.  An action is the    *)
(* code up to the next await; a call to the daemon answers in the action   *)
(* that uses its answer.  A failed call ends the task, as the exception    *)
(* leaves trigger() or rollbackContainer().                                *)
(***************************************************************************)
EXTENDS Naturals, Sequences, FiniteSets

CONSTANTS
  Apps,           \* containers to begin with; each keeps its name for ever
  Image,          \* the tags of the one repository the containers run
  First,          \* the tag they run at first
  Task,           \* slots for updates and rollbacks in flight
  DryRun,         \* the slots whose trigger has dryrun = true
  AutoRemove,     \* the containers run with --rm
  Prune,          \* TRUE: the triggers have prune = true
  Gate,           \* TRUE: signatures and vulnerabilities are checked
  HookAborts,     \* TRUE: a failed pre-update hook ends the update
  AutoRollback,   \* TRUE: dd.rollback.auto = true
  RefResolves,    \* TRUE: the daemon can pull what a backup names
  BackupCount,    \* backups to keep for a container
  Faulty,         \* calls that may fail for a reason of their own
  UserActs,       \* what users do: a subset of {"start", "stop", "remove"}
  MaxContainers,  \* bound: containers ever created
  MaxBackups,     \* bound: backups of one container
  None

App == 1..Apps
Id  == 1..MaxContainers      \* container ids, in the order of creation

ASSUME BoundsAssumption ==
  /\ Apps \in Nat \ {0} /\ MaxContainers \in Nat /\ Apps <= MaxContainers
  /\ MaxBackups \in Nat
ASSUME BackupCountAssumption == BackupCount \in Nat \ {0}
ASSUME OptionsAssumption ==
  /\ First \in Image
  /\ DryRun \subseteq Task /\ AutoRemove \subseteq App
  /\ {Prune, Gate, HookAborts, AutoRollback, RefResolves} \subseteq BOOLEAN

VARIABLES
  container,  \* the daemon's containers, also those that are gone
  images,     \* tags in the daemon's image store
  remote,     \* the candidate tag of each application
  doc,        \* the store's document of a container
  backups,    \* tags backed up for a container id, the newest first
  task,       \* updates and rollbacks in flight
  wanted,     \* history: what users want of an application
  replaced,   \* history: ids an update removed to replace them
  reports     \* history: how updates ended

daemonVars == <<container, images>>
storeVars  == <<doc, backups>>
userVars   == <<remote, wanted>>
history    == <<replaced, reports>>
vars == <<daemonVars, storeVars, userVars, task, history>>

Doc  == [tag : Image, to : Image]
Made == DOMAIN container
Here(i)    == container[i].state # "gone"
Running(i) == container[i].state = "running"
AppOf(i)   == container[i].app
InUse(v)   == \E i \in Made : Here(i) /\ container[i].image = v
NameFree(a) == \A i \in Made : AppOf(i) = a => ~Here(i)
SetState(i, s) == container' = [container EXCEPT ![i].state = s]

Active    == {t \in Task : task[t] # None}
At(t, s)  == task[t] # None /\ task[t].step = s
IsUpdate(t) == task[t].kind = "update"
Goto(t, s)  == task' = [task EXCEPT ![t].step = s]

-------------------------------------------------------------------------------
(* Users, registries and the daemon itself. *)

Publish(a, v) ==
  /\ remote' = [remote EXCEPT ![a] = v]
  /\ UNCHANGED <<daemonVars, storeVars, wanted, task, history>>

UserStop(i) ==
  /\ "stop" \in UserActs
  /\ Running(i)
  /\ SetState(i, "exited")
  /\ wanted' = [wanted EXCEPT ![AppOf(i)] =
                  IF AppOf(i) \in AutoRemove THEN "removed" ELSE "down"]
  /\ UNCHANGED <<images, remote, storeVars, task, history>>

UserStart(i) ==
  /\ "start" \in UserActs
  /\ container[i].state = "exited" /\ AppOf(i) \notin AutoRemove
  /\ SetState(i, "running")
  /\ wanted' = [wanted EXCEPT ![AppOf(i)] = "up"]
  /\ UNCHANGED <<images, remote, storeVars, task, history>>

UserRemove(i) ==
  /\ "remove" \in UserActs
  /\ Here(i)
  /\ SetState(i, "gone")
  /\ wanted' = [wanted EXCEPT ![AppOf(i)] = "removed"]
  /\ UNCHANGED <<images, remote, storeVars, task, history>>

\* The daemon removes a container of --rm some time after it exits.
Reap(i) ==
  /\ container[i].state = "exited" /\ AppOf(i) \in AutoRemove
  /\ SetState(i, "gone")
  /\ UNCHANGED <<images, storeVars, userVars, task, history>>

\* A watch cycle; ContainerStore has its steps.
Watch ==
  /\ doc' = [i \in Id |->
       IF i \notin Made \/ ~Here(i) THEN None
       ELSE IF Running(i) THEN [tag |-> container[i].image,
                                to |-> remote[AppOf(i)]]
       ELSE doc[i]]
  /\ UNCHANGED <<daemonVars, backups, userVars, task, history>>

-------------------------------------------------------------------------------
(* How a task starts and ends. *)

Room(i) == /\ Len(container) + Cardinality(Active) < MaxContainers
           /\ Len(backups[i]) + Cardinality(Active) < MaxBackups

NewTask(k, i, from, to, s) ==
  [kind |-> k, id |-> i, from |-> from, to |-> to, step |-> s, up |-> FALSE,
   blocked |-> FALSE, doomed |-> {}, made |-> None, monitored |-> FALSE]

\* POST /containers/:id/update, a webhook, or a trigger run by a report.
StartUpdate(t, i) ==
  /\ task[t] = None /\ doc[i] # None
  /\ doc[i].to # doc[i].tag
  /\ Room(i)
  /\ task' = [task EXCEPT ![t] =
                NewTask("update", i, doc[i].tag, doc[i].to, "inspect")]
  /\ UNCHANGED <<daemonVars, storeVars, userVars, history>>

\* POST /containers/:id/rollback: the newest backup, or the one asked for.
StartRollback(t, i) ==
  /\ task[t] = None /\ doc[i] # None
  /\ Room(i)
  /\ \E k \in DOMAIN backups[i] :
       task' = [task EXCEPT ![t] =
                  NewTask("rollback", i, doc[i].tag, backups[i][k], "pull")]
  /\ UNCHANGED <<daemonVars, storeVars, userVars, history>>

Report(t, applied) ==
  reports' = reports \cup
    (IF IsUpdate(t) THEN {[id |-> task[t].id, made |-> task[t].made,
                           applied |-> applied,
                           monitored |-> task[t].monitored]} ELSE {})

End(t) == task' = [task EXCEPT ![t] = None]

\* emitContainerUpdateFailed, for an update.
Fail(t) == End(t) /\ Report(t, FALSE) /\ UNCHANGED replaced

\* A call that the daemon may refuse, or that fails for a reason of its own.
MayFail(call, possible) == ~possible \/ call \in Faulty

-------------------------------------------------------------------------------
(* createTriggerContext, maybeScanAndGateUpdate and the pre-update hook. *)

BeforeStop(up) == IF up THEN "stop" ELSE "remove"

\* inspectContainer: State.Running decides if it is stopped and started again.
Inspect(t) ==
  LET i  == task[t].id
      up == Running(i)
  IN /\ At(t, "inspect")
     /\ \/ /\ Here(i)
           /\ task' = [task EXCEPT ![t].up = up, ![t].step =
                         IF ~IsUpdate(t) THEN BeforeStop(up)
                         ELSE IF Gate THEN "verify" ELSE "hook"]
           /\ UNCHANGED history
        \/ MayFail("inspect", Here(i)) /\ Fail(t)
     /\ UNCHANGED <<daemonVars, storeVars, userVars>>

\* persistSecurityState writes the task's copy if the document is gone.
Persist(t) ==
  /\ doc' = [doc EXCEPT ![task[t].id] =
               IF @ # None THEN @ ELSE [tag |-> task[t].from, to |-> task[t].to]]
  /\ UNCHANGED backups

\* Only a verified signature lets the update go on.
Verify(t) ==
  /\ At(t, "verify")
  /\ Persist(t)
  /\ \/ Goto(t, "scan") /\ UNCHANGED history
     \/ "verify" \in Faulty /\ Fail(t)
  /\ UNCHANGED <<daemonVars, userVars>>

\* What the scan finds is judged only after the SBOM.
Scan(t) ==
  /\ At(t, "scan")
  /\ Persist(t)
  /\ \E bad \in BOOLEAN :
       /\ bad => "scan" \in Faulty
       /\ task' = [task EXCEPT ![t].blocked = bad, ![t].step = "sbom"]
  /\ UNCHANGED <<daemonVars, userVars, history>>

\* A failed SBOM does not stop the update.
Sbom(t) ==
  /\ At(t, "sbom")
  /\ Persist(t)
  /\ IF task[t].blocked THEN Fail(t) ELSE Goto(t, "hook") /\ UNCHANGED history
  /\ UNCHANGED <<daemonVars, userVars>>

PreHook(t) ==
  /\ At(t, "hook")
  /\ \/ Goto(t, IF Prune THEN "list" ELSE "backup") /\ UNCHANGED history
     \/ "hook" \in Faulty /\ HookAborts /\ Fail(t)
  /\ UNCHANGED <<daemonVars, storeVars, userVars>>

-------------------------------------------------------------------------------
(* executeContainerUpdate: prune, back up, pull, replace. *)

\* pruneImages keeps the current tag and the new tag of its own container.
ListImages(t) ==
  /\ At(t, "list")
  /\ task' = [task EXCEPT ![t].doomed = images \ {task[t].from, task[t].to},
                          ![t].step = "prune"]
  /\ UNCHANGED <<daemonVars, storeVars, userVars, history>>

\* The daemon keeps images in use; what goes wrong is only logged.
PruneImages(t) ==
  /\ At(t, "prune")
  /\ images' = {v \in images : v \in task[t].doomed => InUse(v)}
  /\ Goto(t, "backup")
  /\ UNCHANGED <<container, storeVars, userVars, history>>

Backup(t) ==
  /\ At(t, "backup")
  /\ backups' = [backups EXCEPT ![task[t].id] = <<task[t].from>> \o @]
  /\ Goto(t, "pull")
  /\ UNCHANGED <<daemonVars, doc, userVars, history>>

\* Mutant: a failed pull is logged and forgotten.
PullIgnoresError(t) ==
  /\ At(t, "pull")
  /\ images' \in {images, images \cup {task[t].to}}
  /\ IF t \in DryRun THEN End(t)
     ELSE Goto(t, IF IsUpdate(t) THEN BeforeStop(task[t].up) ELSE "inspect")
  /\ UNCHANGED <<container, storeVars, userVars, history>>

\* A dry run ends here, without a report.  A rollback pulls the name of the
\* backup and only then inspects its container.
Pull(t) ==
  LET pullable == IsUpdate(t) \/ RefResolves
  IN /\ At(t, "pull")
     /\ \/ /\ pullable
           /\ images' = images \cup {task[t].to}
           /\ IF IsUpdate(t) /\ t \in DryRun THEN End(t)
              ELSE Goto(t, IF IsUpdate(t) THEN BeforeStop(task[t].up)
                           ELSE "inspect")
           /\ UNCHANGED history
        \/ MayFail("pull", pullable) /\ Fail(t) /\ UNCHANGED images
     /\ UNCHANGED <<container, storeVars, userVars>>

\* A container that is not running any more cannot be stopped.
Stop(t) ==
  LET i == task[t].id
  IN /\ At(t, "stop")
     /\ \/ /\ Running(i)
           /\ SetState(i, "exited")
           /\ Goto(t, "remove") /\ UNCHANGED history
        \/ MayFail("stop", Running(i)) /\ Fail(t) /\ UNCHANGED container
     /\ UNCHANGED <<images, storeVars, userVars>>

Replace(t) ==
  replaced' = IF IsUpdate(t) THEN replaced \cup {task[t].id} ELSE replaced

\* Removed without force: not while it runs.
RemoveOld(t) ==
  LET i  == task[t].id
      ok == container[i].state \in {"created", "exited"}
  IN /\ At(t, "remove") /\ AppOf(i) \notin AutoRemove
     /\ \/ /\ ok
           /\ SetState(i, "gone") /\ Replace(t)
           /\ Goto(t, "create") /\ UNCHANGED reports
        \/ MayFail("remove", ok) /\ Fail(t) /\ UNCHANGED container
     /\ UNCHANGED <<images, storeVars, userVars>>

\* waitContainerRemoved: the daemon knows the container when the wait arrives,
StartWait(t) ==
  LET i == task[t].id
  IN /\ At(t, "remove") /\ AppOf(i) \in AutoRemove
     /\ IF Here(i) THEN Goto(t, "wait") /\ UNCHANGED history ELSE Fail(t)
     /\ UNCHANGED <<daemonVars, storeVars, userVars>>

\* and removes it, or autoremovetimeout passes.
EndWait(t) ==
  LET i == task[t].id
  IN /\ At(t, "wait")
     /\ \/ ~Here(i) /\ Goto(t, "create") /\ Replace(t) /\ UNCHANGED reports
        \/ MayFail("wait", container[i].state \in {"exited", "gone"}) /\ Fail(t)
     /\ UNCHANGED <<daemonVars, storeVars, userVars>>

\* Mutant: the new container is always started.
AfterCreateStart(t) == "start"
\* Mutant: the new container is never started.
AfterCreateLeave(t) == "post"

\* recreateContainer starts what was running when it was inspected.
AfterCreate(t) == IF task[t].up THEN "start" ELSE "post"

New(t) == Append(container, [app |-> AppOf(task[t].id), image |-> task[t].to,
                             state |-> "created"])

\* createContainer: the name must be free and the image pulled.  A network may
\* fail to connect after the container is there.
Create(t) ==
  LET ok == NameFree(AppOf(task[t].id)) /\ task[t].to \in images
  IN /\ At(t, "create") /\ Len(container) < MaxContainers
     /\ \/ /\ ok
           /\ container' = New(t)
           /\ task' = [task EXCEPT ![t].made = Len(container) + 1,
                                   ![t].step = AfterCreate(t)]
           /\ UNCHANGED history
        \/ MayFail("create", ok) /\ Fail(t) /\ UNCHANGED container
        \/ "connect" \in Faulty /\ ok /\ container' = New(t) /\ Fail(t)
     /\ UNCHANGED <<images, storeVars, userVars>>

Start(t) ==
  LET i  == task[t].made
      ok == container[i].state \in {"created", "exited"}
  IN /\ At(t, "start")
     /\ \/ /\ ok
           /\ SetState(i, "running")
           /\ Goto(t, "post") /\ UNCHANGED history
        \/ MayFail("start", ok) /\ Fail(t) /\ UNCHANGED container
     /\ UNCHANGED <<images, storeVars, userVars>>

-------------------------------------------------------------------------------
(* After the replacement. *)

AfterCleanup == IF AutoRollback THEN "monitor" ELSE "applied"

EndRollback(t) ==
  /\ At(t, "post") /\ ~IsUpdate(t)
  /\ End(t)
  /\ UNCHANGED <<daemonVars, storeVars, userVars, history>>

\* A failed post-update hook is only logged.
PostHook(t) ==
  /\ At(t, "post") /\ IsUpdate(t)
  /\ Goto(t, IF Prune THEN "cleanup" ELSE AfterCleanup)
  /\ UNCHANGED <<daemonVars, storeVars, userVars, history>>

\* cleanupOldImages: the daemon refuses while another container uses the tag.
CleanUp(t) ==
  LET old == task[t].from
      ok  == old \in images /\ ~InUse(old)
  IN /\ At(t, "cleanup")
     /\ \/ /\ ok
           /\ images' = images \ {old}
           /\ Goto(t, AfterCleanup) /\ UNCHANGED history
        \/ MayFail("cleanup", ok) /\ Fail(t) /\ UNCHANGED images
     /\ UNCHANGED <<container, storeVars, userVars>>

\* maybeStartAutoRollbackMonitor inspects the container by the id it had.
Monitor(t) ==
  /\ At(t, "monitor")
  /\ IF Here(task[t].id)
     THEN task' = [task EXCEPT ![t].monitored = TRUE, ![t].step = "applied"]
          /\ UNCHANGED history
     ELSE Fail(t)
  /\ UNCHANGED <<daemonVars, storeVars, userVars>>

\* Mutant: one backup too many goes.
KeepTooFew(s) == SubSeq(s, 1, BackupCount - 1)

\* What pruneOldBackups leaves of a container's backups.
Newest(s) == IF Len(s) <= BackupCount THEN s ELSE SubSeq(s, 1, BackupCount)

\* emitContainerUpdateApplied and pruneOldBackups
Applied(t) ==
  /\ At(t, "applied")
  /\ Report(t, TRUE)
  /\ backups' = [backups EXCEPT ![task[t].id] = Newest(@)]
  /\ End(t)
  /\ UNCHANGED <<daemonVars, doc, userVars, replaced>>

-------------------------------------------------------------------------------
Init ==
  /\ container = [a \in App |-> [app |-> a, image |-> First,
                                 state |-> "running"]]
  /\ images = {First}
  /\ remote = [a \in App |-> First]
  /\ doc = [i \in Id |-> IF i \in App THEN [tag |-> First, to |-> First]
                         ELSE None]
  /\ backups = [i \in Id |-> <<>>]
  /\ task = [t \in Task |-> None]
  /\ wanted = [a \in App |-> "up"]
  /\ replaced = {}
  /\ reports = {}

World ==
  \/ \E a \in App, v \in Image : Publish(a, v)
  \/ \E i \in Made : UserStop(i) \/ UserStart(i) \/ UserRemove(i) \/ Reap(i)
  \/ Watch

TaskStep(t) ==
  \/ Inspect(t) \/ Verify(t) \/ Scan(t) \/ Sbom(t) \/ PreHook(t)
  \/ ListImages(t) \/ PruneImages(t) \/ Backup(t) \/ Pull(t) \/ Stop(t)
  \/ RemoveOld(t) \/ StartWait(t) \/ EndWait(t) \/ Create(t) \/ Start(t)
  \/ EndRollback(t) \/ PostHook(t) \/ CleanUp(t) \/ Monitor(t) \/ Applied(t)

Next ==
  \/ World
  \/ \E t \in Task : TaskStep(t) \/ \E i \in Made : StartUpdate(t, i)
                                                    \/ StartRollback(t, i)

Spec == Init /\ [][Next]_vars

(***************************************************************************)
(* Fairness: a task that runs goes on.  Every await of it ends: hooks have *)
(* a timeout, and so has the wait for --rm; the daemon answers.            *)
(***************************************************************************)
LiveSpec == Spec /\ \A t \in Task : WF_vars(TaskStep(t))

-------------------------------------------------------------------------------
(* Properties. *)

Steps == {"inspect", "verify", "scan", "sbom", "hook", "list", "prune",
          "backup", "pull", "stop", "remove", "wait", "create", "start", "post",
          "cleanup", "monitor", "applied"}

Container == [app : App, image : Image,
              state : {"created", "running", "exited", "gone"}]
TaskRec == [kind : {"update", "rollback"}, id : Id, from : Image, to : Image,
            step : Steps, up : BOOLEAN, blocked : BOOLEAN,
            doomed : SUBSET Image, made : {None} \cup Id, monitored : BOOLEAN]
ASSUME NoneAssumption == None \notin TaskRec

DaemonOK  == /\ container \in Seq(Container) /\ Len(container) <= MaxContainers
             /\ images \in SUBSET Image
StoreOK   == /\ doc \in [Id -> {None} \cup Doc]
             /\ backups \in [Id -> Seq(Image)]
UserOK    == /\ remote \in [App -> Image]
             /\ wanted \in [App -> {"up", "down", "removed"}]
\* A task's old container is known, and its new one from its creation on.
TaskOK    == /\ task \in [Task -> {None} \cup TaskRec]
             /\ \A t \in Active : /\ task[t].id \in Made
                                  /\ task[t].step = "start" => task[t].made \in Made
HistoryOK == /\ replaced \in SUBSET Id
             /\ reports \in SUBSET [id : Id, made : {None} \cup Id,
                                    applied : BOOLEAN, monitored : BOOLEAN]
TypeOK == DaemonOK /\ StoreOK /\ UserOK /\ TaskOK /\ HistoryOK

Of(a)   == {i \in Made : AppOf(i) = a /\ Here(i)}
Busy(a) == \E t \in Active : AppOf(task[t].id) = a
Up(a)   == \E i \in Of(a) : Running(i)

\* However two updates or rollbacks of one container and its users interleave,
\* the application still has a container when they are over, unless a user
\* removed it: a task that takes the container away also creates its successor.
AppExists == \A a \in App : ~Busy(a) /\ wanted[a] # "removed" => Of(a) # {}

\* One task at a time leaves an application (without --rm, which may be reaped
\* before the wait) as its users want it: one that ran runs again, and a stop or
\* a removal during the update is not undone.
AppSurvives ==
  \A a \in App \ AutoRemove : ~Busy(a) =>
     CASE wanted[a] = "up" -> Up(a)
       [] wanted[a] = "down" -> Of(a) # {} /\ ~Up(a)
       [] wanted[a] = "removed" -> Of(a) = {}

\* An application that is down because it is updated comes up again.
ComesBack ==
  \A a \in App \ AutoRemove : wanted[a] = "up" ~> (Up(a) \/ wanted[a] # "up")

\* Whatever an update has replaced is backed up under the id it had, with the
\* tag it ran, and pruning of backups, by this or another update, leaves it.
ReplacedHasBackup ==
  \A i \in replaced : \E k \in DOMAIN backups[i] :
                         backups[i][k] = container[i].image

\* An update with automatic rollback ends with the new container monitored.
MonitorStarts ==
  \A r \in reports : AutoRollback /\ r.made # None => r.monitored

\* A container an update made can be rolled back to what it replaced.
CanRollBack == \A r \in reports : r.applied => backups[r.made] # <<>>
===============================================================================
