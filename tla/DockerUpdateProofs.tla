-------------------------- MODULE DockerUpdateProofs --------------------------
(***************************************************************************)
(* What holds of updates and rollbacks for any number of applications,     *)
(* tags and tasks in flight, any options and any faults, and what becomes  *)
(* of an application.                                                      *)
(***************************************************************************)
EXTENDS DockerUpdate, SequenceTheorems, TLAPS

ContainerState == {"created", "running", "exited", "gone"}

\* The containers known so far stay known, with their name and their image.
Kept == /\ container' \in Seq(Container) /\ Len(container') <= MaxContainers
        /\ Made \subseteq Made'
        /\ \A i \in Made : /\ container'[i].image = container[i].image
                           /\ container'[i].app = container[i].app

LEMMA MadeType ==
  ASSUME DaemonOK
  PROVE  /\ Made = 1..Len(container) /\ Made \subseteq Id
         /\ \A i \in Made : container[i] \in Container
  BY BoundsAssumption, LenProperties DEF DaemonOK, Made, Id

LEMMA SetStateKept ==
  ASSUME DaemonOK, NEW i \in Made, NEW s \in ContainerState, SetState(i, s)
  PROVE  Kept
<1>1. i \in 1..Len(container) /\ container[i] \in Container  BY MadeType
<1>2. [container[i] EXCEPT !.state = s] \in Container
  BY <1>1 DEF Container, ContainerState
<1>3. container' = [container EXCEPT ![i] = [container[i] EXCEPT !.state = s]]
  BY DEF SetState
<1>4. /\ container' \in Seq(Container) /\ Len(container') = Len(container)
      /\ \A j \in 1..Len(container) : container'[j] =
            IF j = i THEN [container[i] EXCEPT !.state = s] ELSE container[j]
  BY <1>1, <1>2, <1>3, ExceptSeq DEF DaemonOK
<1>5. DOMAIN container' = 1..Len(container)  BY <1>4, LenProperties
<1>6. \A j \in Made : container[j] \in Container  BY MadeType
<1>7. QED
  BY <1>1, <1>4, <1>5, <1>6, MadeType, SMTT(30) DEF Kept, DaemonOK, Made, Container

LEMMA SameKept ==
  ASSUME DaemonOK, UNCHANGED container  PROVE Kept
  BY DEF DaemonOK, Kept, Made

LEMMA NewKept ==
  ASSUME DaemonOK, NEW t \in Task, task[t] \in TaskRec, task[t].id \in Made,
         Len(container) < MaxContainers, container' = New(t)
  PROVE  /\ Kept
         /\ Len(container) + 1 \in Made'
<1> DEFINE c == [app |-> AppOf(task[t].id), image |-> task[t].to,
                 state |-> "created"]
<1>1. c \in Container
  BY MadeType DEF Container, TaskRec, AppOf
<1>2. /\ container' \in Seq(Container) /\ Len(container') = Len(container) + 1
      /\ \A j \in 1..Len(container) : container'[j] = container[j]
  BY <1>1, AppendProperties DEF New, DaemonOK
<1>3. DOMAIN container' = 1..Len(container')  BY <1>2, LenProperties
<1>4. Len(container) \in Nat  BY LenProperties DEF DaemonOK
<1>5. Len(container') <= MaxContainers  BY <1>2, <1>4, BoundsAssumption
<1>6. QED  BY <1>2, <1>3, <1>4, <1>5, MadeType DEF Kept, Made

\* The types of the tasks after a step of one of them.
LEMMA TypedKept ==
  ASSUME TaskOK, Kept, NEW u \in Task, task[u] # None
  PROVE  /\ task[u] \in TaskRec /\ task[u].id \in Made
         /\ task[u].id \in Made'
         /\ task[u].step = "start" => task[u].made \in Made'
<1>1. u \in Active  BY DEF Active
<1>2. /\ task[u].id \in Made
      /\ task[u].step = "start" => task[u].made \in Made
  BY <1>1 DEF TaskOK
<1>3. Made \subseteq Made'  BY DEF Kept
<1>4. task[u] \in TaskRec  BY DEF TaskOK
<1>5. QED  BY <1>2, <1>3, <1>4

LEMMA TaskKept ==
  ASSUME TaskOK, Kept, NEW t \in Task, NEW r \in {None} \cup TaskRec,
         r # None => /\ r.id \in Made'
                     /\ r.step = "start" => r.made \in Made',
         task' = [task EXCEPT ![t] = r]
  PROVE  TaskOK'
<1>1. task \in [Task -> {None} \cup TaskRec]  BY DEF TaskOK
<1>2. task' \in [Task -> {None} \cup TaskRec]  BY <1>1
<1>3. ASSUME NEW u \in Active'
      PROVE  /\ task'[u].id \in Made'
             /\ task'[u].step = "start" => task'[u].made \in Made'
  <2>1. u \in Task /\ task'[u] # None  BY <1>3 DEF Active
  <2>2. CASE u = t
    <3>1. task'[u] = r  BY <1>1, <2>1, <2>2
    <3>2. QED  BY <3>1, <2>1
  <2>3. CASE u # t
    <3>1. task'[u] = task[u]  BY <1>1, <2>1, <2>3
    <3>2. task[u] # None  BY <3>1, <2>1
    <3>3. QED  BY <3>1, <3>2, <2>1, TypedKept
  <2>4. QED  BY <2>2, <2>3
<1>4. QED  BY <1>2, <1>3 DEF TaskOK

LEMMA OthersKept == ASSUME TaskOK, Kept, UNCHANGED task  PROVE TaskOK'
<1>1. ASSUME NEW u \in Active'
      PROVE  /\ task'[u].id \in Made'
             /\ task'[u].step = "start" => task'[u].made \in Made'
  <2>1. u \in Task /\ task[u] # None /\ task'[u] = task[u]
    BY <1>1 DEF Active
  <2>2. QED  BY <2>1, TypedKept
<1>2. task' \in [Task -> {None} \cup TaskRec]  BY DEF TaskOK
<1>3. QED  BY <1>1, <1>2 DEF TaskOK

LEMMA GotoKept ==
  ASSUME TaskOK, Kept, NEW t \in Task, task[t] # None,
         NEW s \in Steps, s = "start" => task[t].made \in Made', Goto(t, s)
  PROVE  TaskOK'
<1> DEFINE r == [task[t] EXCEPT !.step = s]
<1>1. task[t] \in TaskRec /\ task[t].id \in Made'  BY TypedKept
<1>2. r \in TaskRec /\ r.id = task[t].id /\ r.step = s /\ r.made = task[t].made
  BY <1>1 DEF TaskRec
<1>3. task' = [task EXCEPT ![t] = r]  BY DEF Goto
<1> HIDE DEF r
<1>4. QED  BY <1>1, <1>2, <1>3, TaskKept

LEMMA EndKept ==
  ASSUME TaskOK, Kept, NEW t \in Task, End(t)  PROVE TaskOK'
<1> DEFINE r == None
<1>1. r \in {None} \cup TaskRec /\ (r # None => FALSE)  OBVIOUS
<1>2. task' = [task EXCEPT ![t] = r]  BY DEF End
<1> HIDE DEF r
<1>3. QED  BY <1>1, <1>2, TaskKept

LEMMA ReportKept ==
  ASSUME TaskOK, HistoryOK, NEW t \in Task, task[t] # None, NEW b \in BOOLEAN,
         Report(t, b), UNCHANGED replaced
  PROVE  HistoryOK'
<1> DEFINE e == [id |-> task[t].id, made |-> task[t].made, applied |-> b,
                 monitored |-> task[t].monitored]
<1>1. task[t] \in TaskRec  BY DEF TaskOK
<1>2. e \in [id : Id, made : {None} \cup Id, applied : BOOLEAN,
             monitored : BOOLEAN]
  BY <1>1 DEF TaskRec
<1>3. reports' \subseteq reports \cup {e}  BY DEF Report
<1> HIDE DEF e
<1>4. QED  BY <1>2, <1>3 DEF HistoryOK

LEMMA FailKept ==
  ASSUME TaskOK, HistoryOK, Kept, NEW t \in Task, task[t] # None, Fail(t)
  PROVE  TaskOK' /\ HistoryOK'
<1>1. TaskOK'  BY EndKept DEF Fail
<1>2. HistoryOK'  BY ReportKept DEF Fail
<1>3. QED  BY <1>1, <1>2

\* What a step leaves alone keeps its type.
LEMMA SameTypes ==
  /\ DaemonOK /\ UNCHANGED daemonVars => DaemonOK' /\ Kept
  /\ StoreOK /\ UNCHANGED storeVars => StoreOK'
  /\ UserOK /\ UNCHANGED userVars => UserOK'
  /\ HistoryOK /\ UNCHANGED history => HistoryOK'
<1>1. DaemonOK /\ UNCHANGED daemonVars => DaemonOK' /\ Kept
  BY SameKept DEF DaemonOK, daemonVars
<1>2. StoreOK /\ UNCHANGED storeVars => StoreOK'  BY DEF StoreOK, storeVars
<1>3. UserOK /\ UNCHANGED userVars => UserOK'  BY DEF UserOK, userVars
<1>4. HistoryOK /\ UNCHANGED history => HistoryOK'
  BY DEF HistoryOK, history
<1>5. QED  BY <1>1, <1>2, <1>3, <1>4

LEMMA KeptDaemon ==
  ASSUME DaemonOK, Kept, images' \in SUBSET Image  PROVE DaemonOK'
  BY DEF Kept, DaemonOK

-------------------------------------------------------------------------------
(* The steps of users, registries and the daemon. *)

LEMMA UserTyped ==
  ASSUME TypeOK, NEW i \in Made, UserStop(i) \/ UserStart(i) \/ UserRemove(i) \/ Reap(i)
  PROVE  TypeOK' /\ Kept
<1>1. \E s \in ContainerState : SetState(i, s)
  BY DEF UserStop, UserStart, UserRemove, Reap, ContainerState
<1>2. Kept  BY <1>1, SetStateKept DEF TypeOK
<1>3. UNCHANGED <<images, storeVars, task, history>>
  BY DEF UserStop, UserStart, UserRemove, Reap, userVars
<1>4. DaemonOK'  BY <1>2, <1>3, KeptDaemon DEF TypeOK, DaemonOK
<1>5. AppOf(i) \in App  BY MadeType DEF TypeOK, AppOf, Container
<1>6. UserOK'
  BY <1>5 DEF UserStop, UserStart, UserRemove, Reap, TypeOK, UserOK, userVars
<1>7. StoreOK' /\ HistoryOK'  BY <1>3, SameTypes DEF TypeOK
<1>8. TaskOK'  BY <1>2, <1>3, OthersKept DEF TypeOK
<1>9. QED  BY <1>2, <1>4, <1>6, <1>7, <1>8 DEF TypeOK

LEMMA PublishTyped ==
  ASSUME TypeOK, NEW a \in App, NEW v \in Image, Publish(a, v)
  PROVE  TypeOK' /\ Kept
<1>1. UNCHANGED <<daemonVars, storeVars, task, history>>  BY DEF Publish
<1>2. DaemonOK' /\ Kept /\ StoreOK' /\ HistoryOK'
  BY <1>1, SameTypes DEF TypeOK
<1>3. UserOK'  BY DEF Publish, TypeOK, UserOK
<1>4. TaskOK'  BY <1>1, <1>2, OthersKept DEF TypeOK
<1>5. QED  BY <1>2, <1>3, <1>4 DEF TypeOK

LEMMA WatchTyped == ASSUME TypeOK, Watch  PROVE TypeOK' /\ Kept
<1>1. UNCHANGED <<daemonVars, userVars, task, history>>  BY DEF Watch
<1>2. DaemonOK' /\ Kept /\ UserOK' /\ HistoryOK'
  BY <1>1, SameTypes DEF TypeOK
<1>3. \A i \in Made : container[i].image \in Image /\ AppOf(i) \in App
  BY MadeType DEF TypeOK, Container, AppOf
<1>4. \A i \in Made : remote[AppOf(i)] \in Image
  BY <1>3 DEF TypeOK, UserOK
<1>5. \A i \in Made : [tag |-> container[i].image,
                       to |-> remote[AppOf(i)]] \in Doc
  BY <1>3, <1>4 DEF Doc
<1>6. doc' \in [Id -> {None} \cup Doc]
  BY <1>5 DEF Watch, TypeOK, StoreOK
<1>7. StoreOK'  BY <1>6 DEF Watch, TypeOK, StoreOK
<1>8. TaskOK'  BY <1>1, <1>2, OthersKept DEF TypeOK
<1>9. QED  BY <1>2, <1>7, <1>8 DEF TypeOK

-------------------------------------------------------------------------------
(* How a task starts. *)

LEMMA NewTaskTyped ==
  ASSUME TypeOK, NEW i \in Made, NEW from \in Image, NEW to \in Image,
         NEW k \in {"update", "rollback"}, NEW s \in Steps \ {"start"},
         NEW t \in Task, task' = [task EXCEPT ![t] = NewTask(k, i, from, to, s)],
         UNCHANGED <<daemonVars, storeVars, userVars, history>>
  PROVE  TypeOK' /\ Kept
<1> DEFINE r == NewTask(k, i, from, to, s)
<1>1. DaemonOK' /\ Kept /\ StoreOK' /\ UserOK' /\ HistoryOK'
  BY SameTypes DEF TypeOK
<1>2. i \in Id  BY MadeType DEF TypeOK
<1>3. r \in TaskRec /\ r.id = i /\ r.step # "start"
  BY <1>2 DEF NewTask, TaskRec
<1>4. i \in Made'  BY <1>1 DEF Kept
<1> HIDE DEF r
<1>5. task' = [task EXCEPT ![t] = r]  BY DEF r
<1>6. TaskOK'  BY <1>1, <1>3, <1>4, <1>5, TaskKept DEF TypeOK
<1>7. QED  BY <1>1, <1>6 DEF TypeOK

LEMMA StartTyped ==
  ASSUME TypeOK, NEW t \in Task, NEW i \in Made,
         StartUpdate(t, i) \/ StartRollback(t, i)
  PROVE  TypeOK' /\ Kept
<1>1. i \in Id  BY MadeType DEF TypeOK
<1>2. doc[i] # None /\ doc[i] \in Doc
  BY <1>1 DEF StartUpdate, StartRollback, TypeOK, StoreOK
<1>3. doc[i].tag \in Image /\ doc[i].to \in Image  BY <1>2 DEF Doc
<1>4. UNCHANGED <<daemonVars, storeVars, userVars, history>>
  BY DEF StartUpdate, StartRollback
<1>5. CASE StartUpdate(t, i)
  <2>1. task' = [task EXCEPT ![t] =
                   NewTask("update", i, doc[i].tag, doc[i].to, "inspect")]
    BY <1>5 DEF StartUpdate
  <2>2. "inspect" \in Steps \ {"start"}  BY DEF Steps
  <2>3. QED  BY <1>3, <1>4, <2>1, <2>2, NewTaskTyped
<1>6. CASE StartRollback(t, i)
  <2>1. PICK k \in DOMAIN backups[i] :
          task' = [task EXCEPT ![t] =
                     NewTask("rollback", i, doc[i].tag, backups[i][k], "pull")]
    BY <1>6 DEF StartRollback
  <2>2. backups[i] \in Seq(Image)  BY <1>1 DEF TypeOK, StoreOK
  <2>3. backups[i][k] \in Image  BY <2>1, <2>2
  <2>4. "pull" \in Steps \ {"start"}  BY DEF Steps
  <2>5. QED  BY <1>3, <1>4, <2>1, <2>3, <2>4, NewTaskTyped
<1>7. QED  BY <1>5, <1>6

-------------------------------------------------------------------------------
(* The steps of a task. *)

\* The shape of most steps: the task goes on, fails or ends.
LEMMA OnwardTyped ==
  ASSUME TypeOK, Kept, NEW t \in Task, task[t] # None,
         \/ (\E s \in Steps : Goto(t, s) /\ (s = "start" => task[t].made \in Made'))
              /\ UNCHANGED history
         \/ Fail(t)
         \/ End(t) /\ UNCHANGED history
  PROVE  TaskOK' /\ HistoryOK'
<1>1. CASE (\E s \in Steps : Goto(t, s) /\ (s = "start" => task[t].made \in Made'))
              /\ UNCHANGED history
  <2>1. TaskOK'  BY <1>1, GotoKept DEF TypeOK
  <2>2. QED  BY <1>1, <2>1, SameTypes DEF TypeOK
<1>2. CASE Fail(t)  BY <1>2, FailKept DEF TypeOK
<1>3. CASE End(t) /\ UNCHANGED history
  <2>1. TaskOK'  BY <1>3, EndKept DEF TypeOK
  <2>2. QED  BY <1>3, <2>1, SameTypes DEF TypeOK
<1>4. QED  BY <1>1, <1>2, <1>3

LEMMA InspectTyped ==
  ASSUME TypeOK, NEW t \in Task, Inspect(t)  PROVE TypeOK' /\ Kept
<1> DEFINE i == task[t].id
           b == Running(i)
           s == IF ~IsUpdate(t) THEN BeforeStop(b)
                ELSE IF Gate THEN "verify" ELSE "hook"
           r == [task[t] EXCEPT !.up = b, !.step = s]
<1>1. task[t] # None  BY DEF Inspect, At
<1>2. UNCHANGED <<daemonVars, storeVars, userVars>>  BY DEF Inspect
<1>3. DaemonOK' /\ Kept /\ StoreOK' /\ UserOK'
  BY <1>2, SameTypes DEF TypeOK
<1>4. task[t] \in TaskRec /\ task[t].id \in Made'
  BY <1>1, <1>3, TypedKept DEF TypeOK
<1>5. b \in BOOLEAN /\ s \in Steps /\ s # "start"
  BY DEF Running, BeforeStop, Steps
<1>6. CASE task' = [task EXCEPT ![t].up = b, ![t].step = s] /\ UNCHANGED history
  <2>1. r \in TaskRec /\ r.id = task[t].id /\ r.step # "start"
    <3> HIDE DEF b, s
    <3>1. QED  BY <1>4, <1>5 DEF TaskRec
  <2>2. task \in [Task -> {None} \cup TaskRec]  BY DEF TypeOK, TaskOK
  <2>3. task' = [task EXCEPT ![t] = r]
    <3> HIDE DEF b, s
    <3>1. QED  BY <1>6, <2>2
  <2> HIDE DEF r
  <2>4. TaskOK'  BY <1>3, <1>4, <2>1, <2>3, TaskKept DEF TypeOK
  <2>5. HistoryOK'  BY <1>6, SameTypes DEF TypeOK
  <2>6. QED  BY <1>3, <2>4, <2>5 DEF TypeOK
<1>7. CASE Fail(t)
  BY <1>1, <1>3, <1>7, FailKept DEF TypeOK
<1>8. QED  BY <1>6, <1>7 DEF Inspect

LEMMA PersistTyped ==
  ASSUME TypeOK, NEW t \in Task, task[t] # None, Persist(t)
  PROVE  StoreOK'
<1>1. task[t] \in TaskRec  BY DEF TypeOK, TaskOK
<1>2. [tag |-> task[t].from, to |-> task[t].to] \in Doc
  BY <1>1 DEF TaskRec, Doc
<1>3. QED  BY <1>2 DEF Persist, TypeOK, StoreOK

LEMMA GateTyped ==
  ASSUME TypeOK, NEW t \in Task, Verify(t) \/ Scan(t) \/ Sbom(t)
  PROVE  TypeOK' /\ Kept
<1>1. task[t] # None /\ Persist(t)  BY DEF Verify, Scan, Sbom, At
<1>2. UNCHANGED <<daemonVars, userVars>>  BY DEF Verify, Scan, Sbom
<1>3. DaemonOK' /\ Kept /\ UserOK'  BY <1>2, SameTypes DEF TypeOK
<1>4. StoreOK'  BY <1>1, PersistTyped
<1>5. TaskOK' /\ HistoryOK'
  <2>1. CASE Verify(t)
    <3>1. \/ Goto(t, "scan") /\ UNCHANGED history
          \/ Fail(t)
      BY <2>1 DEF Verify
    <3>2. "scan" \in Steps  BY DEF Steps
    <3>3. QED  BY <1>1, <1>3, <3>1, <3>2, OnwardTyped
  <2>2. CASE Scan(t)
    <3>1. PICK bad \in BOOLEAN :
            task' = [task EXCEPT ![t].blocked = bad, ![t].step = "sbom"]
      BY <2>2 DEF Scan
    <3> DEFINE r == [task[t] EXCEPT !.blocked = bad, !.step = "sbom"]
    <3>2. task[t] \in TaskRec /\ task[t].id \in Made'
      BY <1>1, <1>3, TypedKept DEF TypeOK
    <3>3. r \in TaskRec /\ r.id = task[t].id /\ r.step # "start"
      BY <3>2 DEF TaskRec, Steps
    <3>4. task' = [task EXCEPT ![t] = r]  BY <3>1 DEF TypeOK, TaskOK
    <3> HIDE DEF r
    <3>5. TaskOK'  BY <1>3, <3>2, <3>3, <3>4, TaskKept DEF TypeOK
    <3>6. HistoryOK'  BY <2>2, SameTypes DEF Scan, TypeOK
    <3>7. QED  BY <3>5, <3>6
  <2>3. CASE Sbom(t)
    <3>1. \/ Goto(t, "hook") /\ UNCHANGED history
          \/ Fail(t)
      BY <2>3 DEF Sbom
    <3>2. "hook" \in Steps  BY DEF Steps
    <3>3. QED  BY <1>1, <1>3, <3>1, <3>2, OnwardTyped
  <2>4. QED  BY <2>1, <2>2, <2>3
<1>6. QED  BY <1>3, <1>4, <1>5 DEF TypeOK

\* The steps that touch neither containers nor images nor the store.
LEMMA QuietTyped ==
  ASSUME TypeOK, NEW t \in Task,
         PreHook(t) \/ EndRollback(t) \/ PostHook(t) \/ StartWait(t)
  PROVE  TypeOK' /\ Kept
<1>1. task[t] # None
  BY DEF PreHook, EndRollback, PostHook, StartWait, At
<1>2. UNCHANGED <<daemonVars, storeVars, userVars>>
  BY DEF PreHook, EndRollback, PostHook, StartWait
<1>3. DaemonOK' /\ Kept /\ StoreOK' /\ UserOK'
  BY <1>2, SameTypes DEF TypeOK
<1>4. \/ (\E s \in Steps : Goto(t, s) /\ s # "start") /\ UNCHANGED history
      \/ Fail(t)
      \/ End(t) /\ UNCHANGED history
  BY DEF PreHook, EndRollback, PostHook, StartWait, AfterCleanup, Steps
<1>5. TaskOK' /\ HistoryOK'  BY <1>1, <1>3, <1>4, OnwardTyped
<1>6. QED  BY <1>3, <1>5 DEF TypeOK

LEMMA ListTyped ==
  ASSUME TypeOK, NEW t \in Task, ListImages(t)  PROVE TypeOK' /\ Kept
<1> DEFINE d == images \ {task[t].from, task[t].to}
           r == [task[t] EXCEPT !.doomed = d, !.step = "prune"]
<1>1. task[t] # None /\ UNCHANGED <<daemonVars, storeVars, userVars, history>>
  BY DEF ListImages, At
<1>2. DaemonOK' /\ Kept /\ StoreOK' /\ UserOK' /\ HistoryOK'
  BY <1>1, SameTypes DEF TypeOK
<1>3. task[t] \in TaskRec /\ task[t].id \in Made'
  BY <1>1, <1>2, TypedKept DEF TypeOK
<1>4. d \in SUBSET Image  BY DEF TypeOK, DaemonOK
<1>5. r \in TaskRec /\ r.id = task[t].id /\ r.step # "start"
  <2> HIDE DEF d
  <2>1. QED  BY <1>3, <1>4 DEF TaskRec, Steps
<1>6. task' = [task EXCEPT ![t] = r]
  BY DEF ListImages, TypeOK, TaskOK
<1> HIDE DEF r
<1>7. TaskOK'  BY <1>2, <1>3, <1>5, <1>6, TaskKept DEF TypeOK
<1>8. QED  BY <1>2, <1>7 DEF TypeOK

\* The steps that only change the images.
LEMMA ImagesTyped ==
  ASSUME TypeOK, NEW t \in Task, PruneImages(t) \/ Pull(t) \/ CleanUp(t)
  PROVE  TypeOK' /\ Kept
<1>1. task[t] # None  BY DEF PruneImages, Pull, CleanUp, At
<1>2. UNCHANGED <<container, storeVars, userVars>>
  BY DEF PruneImages, Pull, CleanUp
<1>3. Kept /\ StoreOK' /\ UserOK'
  BY <1>2, SameKept, SameTypes DEF TypeOK
<1>4. task[t].to \in Image  BY <1>1 DEF TypeOK, TaskOK, TaskRec
<1>5. images' \in SUBSET Image
  BY <1>4 DEF PruneImages, Pull, CleanUp, TypeOK, DaemonOK
<1>6. DaemonOK'  BY <1>3, <1>5, KeptDaemon DEF TypeOK
<1>7. \/ (\E s \in Steps : Goto(t, s) /\ s # "start") /\ UNCHANGED history
      \/ Fail(t)
      \/ End(t) /\ UNCHANGED history
  BY DEF PruneImages, Pull, CleanUp, AfterCleanup, BeforeStop, Steps
<1>8. TaskOK' /\ HistoryOK'  BY <1>1, <1>3, <1>7, OnwardTyped
<1>9. QED  BY <1>3, <1>6, <1>8 DEF TypeOK

LEMMA BackupTyped ==
  ASSUME TypeOK, NEW t \in Task, Backup(t)  PROVE TypeOK' /\ Kept
<1>1. task[t] # None /\ UNCHANGED <<daemonVars, doc, userVars, history>>
  BY DEF Backup, At
<1>2. DaemonOK' /\ Kept /\ UserOK' /\ HistoryOK'
  BY <1>1, SameTypes DEF TypeOK
<1>3. task[t].id \in Id /\ task[t].from \in Image
  BY <1>1 DEF TypeOK, TaskOK, TaskRec
<1>4. backups[task[t].id] \in Seq(Image)  BY <1>3 DEF TypeOK, StoreOK
<1>5. <<task[t].from>> \in Seq(Image)  BY <1>3
<1>6. <<task[t].from>> \o backups[task[t].id] \in Seq(Image)
  BY <1>4, <1>5, ConcatProperties
<1>7. StoreOK'  BY <1>1, <1>3, <1>6 DEF Backup, TypeOK, StoreOK
<1>8. TaskOK'
  BY <1>1, <1>2, OnwardTyped DEF Backup, Steps
<1>9. QED  BY <1>2, <1>7, <1>8 DEF TypeOK

\* The steps that change the state of one container.
LEMMA StateTyped ==
  ASSUME TypeOK, NEW t \in Task, Stop(t) \/ Start(t)
  PROVE  TypeOK' /\ Kept
<1>1. task[t] # None /\ UNCHANGED <<images, storeVars, userVars>>
  BY DEF Stop, Start, At
<1>2. task[t].id \in Made /\ (task[t].step = "start" => task[t].made \in Made)
  BY <1>1 DEF TypeOK, TaskOK, Active
<1>3. \/ UNCHANGED container
      \/ \E i \in Made, s \in ContainerState : SetState(i, s)
  BY <1>1, <1>2 DEF Stop, Start, At, ContainerState
<1>4. Kept  BY <1>3, SameKept, SetStateKept DEF TypeOK
<1>5. DaemonOK'  BY <1>1, <1>4, KeptDaemon DEF TypeOK, DaemonOK
<1>6. StoreOK' /\ UserOK'  BY <1>1, SameTypes DEF TypeOK
<1>7. \/ (\E s \in Steps : Goto(t, s) /\ s # "start") /\ UNCHANGED history
      \/ Fail(t)
  BY DEF Stop, Start, Steps
<1>8. TaskOK' /\ HistoryOK'  BY <1>1, <1>4, <1>7, OnwardTyped
<1>9. QED  BY <1>5, <1>4, <1>6, <1>8 DEF TypeOK

\* The steps that end the old container.
LEMMA ReplaceTyped ==
  ASSUME TypeOK, NEW t \in Task, RemoveOld(t) \/ EndWait(t)
  PROVE  TypeOK' /\ Kept
<1>1. task[t] # None /\ UNCHANGED <<images, storeVars, userVars>>
  BY DEF RemoveOld, EndWait, At, daemonVars
<1>2. task[t].id \in Made /\ task[t].id \in Id
  BY <1>1, MadeType DEF TypeOK, TaskOK, Active
<1>3. UNCHANGED container \/ SetState(task[t].id, "gone")
  BY DEF RemoveOld, EndWait, daemonVars
<1>4. Kept
  BY <1>2, <1>3, SameKept, SetStateKept DEF TypeOK, ContainerState
<1>5. DaemonOK'  BY <1>1, <1>4, KeptDaemon DEF TypeOK, DaemonOK
<1>6. StoreOK' /\ UserOK'  BY <1>1, SameTypes DEF TypeOK
<1>7. TaskOK' /\ HistoryOK'
  <2>1. CASE Fail(t)  BY <2>1, <1>1, <1>4, FailKept DEF TypeOK
  <2>2. CASE Goto(t, "create") /\ Replace(t) /\ UNCHANGED reports
    <3>1. "create" \in Steps /\ "create" # "start"  BY DEF Steps
    <3>2. TaskOK'  BY <1>1, <1>4, <2>2, <3>1, GotoKept DEF TypeOK
    <3>3. HistoryOK'  BY <1>2, <2>2 DEF Replace, TypeOK, HistoryOK
    <3>4. QED  BY <3>2, <3>3
  <2>3. QED  BY <2>1, <2>2 DEF RemoveOld, EndWait
<1>8. QED  BY <1>4, <1>5, <1>6, <1>7 DEF TypeOK

LEMMA CreateTyped ==
  ASSUME TypeOK, NEW t \in Task, Create(t)  PROVE TypeOK' /\ Kept
<1> DEFINE n == Len(container) + 1
           s == AfterCreate(t)
           r == [task[t] EXCEPT !.made = n, !.step = s]
<1>1. /\ task[t] # None /\ UNCHANGED <<images, storeVars, userVars>>
      /\ Len(container) < MaxContainers
  BY DEF Create, At
<1>2. task[t] \in TaskRec /\ task[t].id \in Made
  BY <1>1 DEF TypeOK, TaskOK, Active
<1>3. UNCHANGED container \/ container' = New(t)  BY DEF Create
<1>4. Kept  BY <1>1, <1>2, <1>3, SameKept, NewKept DEF TypeOK
<1>5. DaemonOK'  BY <1>1, <1>4, KeptDaemon DEF TypeOK, DaemonOK
<1>6. StoreOK' /\ UserOK'  BY <1>1, SameTypes DEF TypeOK
<1>7. TaskOK' /\ HistoryOK'
  <2>1. CASE Fail(t)  BY <2>1, <1>1, <1>4, FailKept DEF TypeOK
  <2>2. CASE /\ container' = New(t) /\ UNCHANGED history
             /\ task' = [task EXCEPT ![t].made = n, ![t].step = s]
    <3>1. n \in Made'  BY <1>1, <1>2, <2>2, NewKept DEF TypeOK
    <3>2. n \in Id
      BY <1>1, LenProperties, BoundsAssumption DEF TypeOK, DaemonOK, Id
    <3>3. s \in Steps  BY DEF AfterCreate, Steps
    <3>4. /\ r \in TaskRec /\ r.id = task[t].id /\ r.made = n
      <4> HIDE DEF n, s
      <4>1. QED  BY <1>2, <3>2, <3>3 DEF TaskRec
    <3>5. task \in [Task -> {None} \cup TaskRec]  BY DEF TypeOK, TaskOK
    <3>6. task' = [task EXCEPT ![t] = r]
      <4> HIDE DEF n, s
      <4>1. QED  BY <2>2, <3>5
    <3>7. r.id \in Made'  BY <1>1, <1>4, <3>4, TypedKept DEF TypeOK
    <3> HIDE DEF r, n
    <3>8. TaskOK'  BY <1>4, <3>1, <3>4, <3>6, <3>7, TaskKept DEF TypeOK
    <3>9. HistoryOK'  BY <2>2, SameTypes DEF TypeOK
    <3>10. QED  BY <3>8, <3>9
  <2>3. QED  BY <2>1, <2>2 DEF Create
<1>8. QED  BY <1>4, <1>5, <1>6, <1>7 DEF TypeOK

LEMMA MonitorTyped ==
  ASSUME TypeOK, NEW t \in Task, Monitor(t)  PROVE TypeOK' /\ Kept
<1> DEFINE r == [task[t] EXCEPT !.monitored = TRUE, !.step = "applied"]
<1>1. task[t] # None /\ UNCHANGED <<daemonVars, storeVars, userVars>>
  BY DEF Monitor, At
<1>2. DaemonOK' /\ Kept /\ StoreOK' /\ UserOK'
  BY <1>1, SameTypes DEF TypeOK
<1>3. task[t] \in TaskRec /\ task[t].id \in Made'
  BY <1>1, <1>2, TypedKept DEF TypeOK
<1>4. CASE Fail(t)
  BY <1>1, <1>2, <1>4, FailKept DEF TypeOK
<1>5. CASE /\ task' = [task EXCEPT ![t].monitored = TRUE, ![t].step = "applied"]
           /\ UNCHANGED history
  <2>1. r \in TaskRec /\ r.id = task[t].id /\ r.step # "start"
    BY <1>3 DEF TaskRec, Steps
  <2>2. task' = [task EXCEPT ![t] = r]  BY <1>5 DEF TypeOK, TaskOK
  <2> HIDE DEF r
  <2>3. TaskOK'  BY <1>2, <1>3, <2>1, <2>2, TaskKept DEF TypeOK
  <2>4. QED  BY <1>2, <1>5, <2>3, SameTypes DEF TypeOK
<1>6. QED  BY <1>4, <1>5 DEF Monitor

LEMMA NewestType ==
  ASSUME NEW b \in Seq(Image)
  PROVE  /\ Newest(b) \in Seq(Image)
         /\ Len(Newest(b)) <= Len(b)
         /\ \A k \in DOMAIN Newest(b) : k \in DOMAIN b /\ Newest(b)[k] = b[k]
         /\ b # <<>> => Newest(b) # <<>>
<1>1. CASE Len(b) <= BackupCount  BY <1>1 DEF Newest
<1>2. CASE ~(Len(b) <= BackupCount)
  <2>1. Newest(b) = SubSeq(b, 1, BackupCount)  BY <1>2 DEF Newest
  <2>2. BackupCount \in Nat \ {0} /\ Len(b) \in Nat /\ BackupCount < Len(b)
    BY <1>2, BackupCountAssumption, LenProperties
  <2>3. /\ Newest(b) \in Seq(Image) /\ Len(Newest(b)) = BackupCount
        /\ \A k \in 1..BackupCount : Newest(b)[k] = b[k]
    BY <2>1, <2>2, SubSeqProperties
  <2>4. DOMAIN b = 1..Len(b) /\ DOMAIN Newest(b) = 1..BackupCount
    BY <2>3, LenProperties
  <2>5. Newest(b) # <<>>  BY <2>2, <2>3
  <2>6. QED  BY <2>2, <2>3, <2>4, <2>5
<1>3. QED  BY <1>1, <1>2

LEMMA AppliedTyped ==
  ASSUME TypeOK, NEW t \in Task, Applied(t)  PROVE TypeOK' /\ Kept
<1>1. /\ task[t] # None /\ UNCHANGED <<daemonVars, doc, userVars, replaced>>
      /\ Report(t, TRUE) /\ End(t)
  BY DEF Applied, At
<1>2. DaemonOK' /\ Kept /\ UserOK'  BY <1>1, SameTypes DEF TypeOK
<1>3. HistoryOK'  BY <1>1, ReportKept DEF TypeOK
<1>4. task[t].id \in Id  BY <1>1 DEF TypeOK, TaskOK, TaskRec
<1>5. backups[task[t].id] \in Seq(Image)  BY <1>4 DEF TypeOK, StoreOK
<1>6. Newest(backups[task[t].id]) \in Seq(Image)  BY <1>5, NewestType
<1>7. StoreOK'  BY <1>1, <1>4, <1>6 DEF Applied, TypeOK, StoreOK
<1>8. TaskOK'  BY <1>1, <1>2, EndKept DEF TypeOK
<1>9. QED  BY <1>2, <1>3, <1>7, <1>8 DEF TypeOK

LEMMA StepTyped ==
  ASSUME TypeOK, NEW t \in Task, TaskStep(t)  PROVE TypeOK' /\ Kept
BY InspectTyped, GateTyped, QuietTyped, ListTyped, ImagesTyped, BackupTyped,
   StateTyped, ReplaceTyped, CreateTyped, MonitorTyped, AppliedTyped
   DEF TaskStep

LEMMA InitTyped == ASSUME Init  PROVE TypeOK
<1>1. App \subseteq Id /\ Apps \in Nat  BY BoundsAssumption DEF App, Id
<1>2. \A a \in App : [app |-> a, image |-> First, state |-> "running"] \in Container
  BY OptionsAssumption DEF Container
<1>3. container \in [1..Apps -> Container]  BY <1>2 DEF Init, App
<1>4. container \in Seq(Container) /\ Len(container) = Apps
  BY <1>1, <1>3
<1>5. DaemonOK
  BY <1>4, BoundsAssumption, OptionsAssumption DEF Init, DaemonOK
<1>6. [tag |-> First, to |-> First] \in Doc  BY OptionsAssumption DEF Doc
<1>7. \A i \in Id : backups[i] \in Seq(Image)  BY DEF Init
<1>8. StoreOK  BY <1>6, <1>7 DEF Init, StoreOK
<1>9. UserOK  BY OptionsAssumption DEF Init, UserOK
<1>10. TaskOK  BY DEF Init, TaskOK, Active
<1>11. HistoryOK  BY DEF Init, HistoryOK
<1>12. QED  BY <1>5, <1>8, <1>9, <1>10, <1>11 DEF TypeOK

LEMMA NextTyped == ASSUME TypeOK, [Next]_vars  PROVE TypeOK' /\ Kept
<1>1. CASE World  BY <1>1, UserTyped, PublishTyped, WatchTyped DEF World
<1>2. CASE \E t \in Task : TaskStep(t) \/ \E i \in Made : StartUpdate(t, i)
                                                    \/ StartRollback(t, i)
  BY <1>2, StepTyped, StartTyped
<1>3. CASE UNCHANGED vars
  <2>1. UNCHANGED <<daemonVars, storeVars, userVars, task, history>>
    BY <1>3 DEF vars
  <2>2. DaemonOK' /\ Kept /\ StoreOK' /\ UserOK' /\ HistoryOK'
    BY <2>1, SameTypes DEF TypeOK
  <2>3. TaskOK'  BY <2>1, <2>2, OthersKept DEF TypeOK
  <2>4. QED  BY <2>2, <2>3 DEF TypeOK
<1>4. QED  BY <1>1, <1>2, <1>3 DEF Next

(***************************************************************************)
(* Every variable keeps its type: the containers, documents and backups    *)
(* that updates and rollbacks write, in any order and with any fault, are  *)
(* of known tags, and a task works on containers the daemon has made.      *)
(***************************************************************************)
THEOREM TypeCorrect == Spec => []TypeOK
<1>1. Init => TypeOK  BY InitTyped
<1>2. TypeOK /\ [Next]_vars => TypeOK'  BY NextTyped
<1>3. QED  BY <1>1, <1>2, PTL DEF Spec

-------------------------------------------------------------------------------
(* Backups and replaced containers. *)

\* A document shows the tag its container runs.
DocTags == \A i \in Id : doc[i] # None =>
             i \in Made /\ doc[i].tag = container[i].image

\* A task knows the tag its container runs.
TaskTags == \A t \in Active : task[t].from = container[task[t].id].image

\* What is backed up for a container is the tag it runs.
BackupTags == \A i \in Id : \A k \in DOMAIN backups[i] :
                i \in Made /\ backups[i][k] = container[i].image

\* An update that may remove its container has backed it up.
BackedUpFirst ==
  \A t \in Active : IsUpdate(t) /\ task[t].step \in {"pull", "stop", "remove", "wait"}
     => backups[task[t].id] # <<>>

ReplacedHasSome == \A i \in replaced : i \in Made /\ backups[i] # <<>>

BackupInv == /\ TypeOK /\ DocTags /\ TaskTags /\ BackupTags
             /\ BackedUpFirst /\ ReplacedHasSome

\* The tasks after a step are tasks of before, for the same container.
Continues == \A u \in Active' : /\ u \in Active
                                /\ task'[u].kind = task[u].kind
                                /\ task'[u].id = task[u].id
                                /\ task'[u].from = task[u].from
                                /\ task'[u].to = task[u].to

\* What has a backup keeps one.
BackupsKept == \A i \in Id : backups[i] # <<>> => backups'[i] # <<>>

NeedsBackup == {"pull", "stop", "remove", "wait"}

LEMMA ExceptContinues ==
  ASSUME TaskOK, NEW t \in Task,
         \/ End(t)
         \/ UNCHANGED task
         \/ \E r \in TaskRec : /\ task[t] # None /\ task' = [task EXCEPT ![t] = r]
                               /\ r.kind = task[t].kind /\ r.id = task[t].id
                               /\ r.from = task[t].from /\ r.to = task[t].to
  PROVE  Continues
<1>1. task \in [Task -> {None} \cup TaskRec]  BY DEF TaskOK
<1>2. \A u \in Active' : u \in Task /\ task'[u] # None  BY DEF Active
<1>3. CASE UNCHANGED task  BY <1>3 DEF Continues, Active
<1>4. CASE End(t)
  <2>1. task' = [task EXCEPT ![t] = None]  BY <1>4 DEF End
  <2>2. \A u \in Active' : u # t /\ task'[u] = task[u]
    BY <1>1, <1>2, <2>1
  <2>3. QED  BY <1>2, <2>2 DEF Continues, Active
<1>5. ASSUME NEW r \in TaskRec, task[t] # None, task' = [task EXCEPT ![t] = r],
             r.kind = task[t].kind, r.id = task[t].id, r.from = task[t].from,
             r.to = task[t].to
      PROVE  Continues
  <2>1. ASSUME NEW u \in Active'
        PROVE  /\ task[u] # None /\ task'[u].kind = task[u].kind
               /\ task'[u].id = task[u].id /\ task'[u].from = task[u].from
               /\ task'[u].to = task[u].to
    <3>1. CASE u = t  BY <1>1, <1>5, <3>1
    <3>2. CASE u # t
      <4>1. task'[u] = task[u]  BY <1>1, <1>2, <1>5, <3>2
      <4>2. QED  BY <1>2, <4>1
    <3>3. QED  BY <3>1, <3>2
  <2>2. QED  BY <1>2, <2>1 DEF Continues, Active
<1>6. QED  BY <1>3, <1>4, <1>5

LEMMA GotoContinues ==
  ASSUME TaskOK, NEW t \in Task, task[t] # None, NEW s \in Steps, Goto(t, s)
  PROVE  Continues /\ (t \in Active' => task'[t].step = s)
<1> DEFINE r == [task[t] EXCEPT !.step = s]
<1>1. task[t] \in TaskRec  BY DEF TaskOK
<1>2. /\ r \in TaskRec /\ r.kind = task[t].kind /\ r.id = task[t].id
      /\ r.from = task[t].from /\ r.to = task[t].to /\ r.step = s
  BY <1>1 DEF TaskRec
<1>3. task' = [task EXCEPT ![t] = r]  BY DEF Goto
<1>4. task'[t] = r
  <2> HIDE DEF r
  <2>1. QED  BY <1>3 DEF TaskOK
<1> HIDE DEF r
<1>5. QED  BY <1>2, <1>3, <1>4, ExceptContinues

\* A step of a task, but for the backup itself, leads to the pull or beyond
\* only from there.
LEMMA StepContinues ==
  ASSUME TypeOK, NEW t \in Task, TaskStep(t)
  PROVE  /\ Continues
         /\ \/ Backup(t)
            \/ t \notin Active'
            \/ ~IsUpdate(t)
            \/ task'[t].step \notin NeedsBackup
            \/ task[t].step \in NeedsBackup
<1> DEFINE Fine == \/ t \notin Active' \/ ~IsUpdate(t)
                   \/ task'[t].step \notin NeedsBackup
                   \/ task[t].step \in NeedsBackup
<1>1. task[t] # None /\ TaskOK /\ task[t] \in TaskRec
  BY DEF TaskStep, Inspect, Verify, Scan, Sbom, PreHook, ListImages, PruneImages,
     Backup, Pull, Stop, RemoveOld, StartWait, EndWait, Create, Start,
     EndRollback, PostHook, CleanUp, Monitor, Applied, At, TypeOK, TaskOK
<1>2. CASE End(t)
  <2>1. t \notin Active'  BY <1>1, <1>2 DEF End, Active, TaskOK
  <2>2. QED  BY <1>1, <1>2, <2>1, ExceptContinues
<1>3. ASSUME NEW s \in Steps, Goto(t, s),
             s \notin NeedsBackup \/ task[t].step \in NeedsBackup \/ ~IsUpdate(t)
      PROVE  Continues /\ Fine
  BY <1>1, <1>3, GotoContinues
<1>4. ASSUME NEW r \in TaskRec, task' = [task EXCEPT ![t] = r],
             r.kind = task[t].kind, r.id = task[t].id, r.from = task[t].from,
             r.to = task[t].to, r.step \notin NeedsBackup \/ ~IsUpdate(t)
      PROVE  Continues /\ Fine
  <2>1. Continues  BY <1>1, <1>4, ExceptContinues
  <2>2. task'[t] = r  BY <1>1, <1>4 DEF TaskOK
  <2>3. QED  BY <1>4, <2>1, <2>2
<1>5. CASE Inspect(t)
  <2> DEFINE b == Running(task[t].id)
             s == IF ~IsUpdate(t) THEN BeforeStop(b)
                  ELSE IF Gate THEN "verify" ELSE "hook"
             r == [task[t] EXCEPT !.up = b, !.step = s]
  <2>1. End(t) \/ task' = [task EXCEPT ![t].up = b, ![t].step = s]
    BY <1>5 DEF Inspect, Fail
  <2>2. b \in BOOLEAN /\ s \in Steps /\ (s \notin NeedsBackup \/ ~IsUpdate(t))
    BY DEF Running, BeforeStop, Steps, NeedsBackup
  <2>3. CASE task' = [task EXCEPT ![t].up = b, ![t].step = s]
    <3> HIDE DEF b, s
    <3>1. /\ r \in TaskRec /\ r.kind = task[t].kind /\ r.id = task[t].id
          /\ r.from = task[t].from /\ r.to = task[t].to /\ r.step = s
      BY <1>1, <2>2 DEF TaskRec
    <3>2. task' = [task EXCEPT ![t] = r]  BY <1>1, <2>3 DEF TaskOK
    <3> HIDE DEF r
    <3>3. QED  BY <1>4, <2>2, <3>1, <3>2
  <2>4. QED  BY <1>2, <2>1, <2>3
<1>6. CASE Scan(t)
  <2>1. PICK bad \in BOOLEAN :
          task' = [task EXCEPT ![t].blocked = bad, ![t].step = "sbom"]
    BY <1>6 DEF Scan
  <2> DEFINE r == [task[t] EXCEPT !.blocked = bad, !.step = "sbom"]
  <2>2. /\ r \in TaskRec /\ r.kind = task[t].kind /\ r.id = task[t].id
        /\ r.from = task[t].from /\ r.to = task[t].to /\ r.step \notin NeedsBackup
    BY <1>1 DEF TaskRec, Steps, NeedsBackup
  <2>3. task' = [task EXCEPT ![t] = r]  BY <1>1, <2>1 DEF TaskOK
  <2> HIDE DEF r
  <2>4. QED  BY <1>4, <2>2, <2>3
<1>7. CASE ListImages(t)
  <2> DEFINE d == images \ {task[t].from, task[t].to}
             r == [task[t] EXCEPT !.doomed = d, !.step = "prune"]
  <2>1. d \in SUBSET Image  BY DEF TypeOK, DaemonOK
  <2>2. /\ r \in TaskRec /\ r.kind = task[t].kind /\ r.id = task[t].id
        /\ r.from = task[t].from /\ r.to = task[t].to /\ r.step \notin NeedsBackup
    <3> HIDE DEF d
    <3>1. QED  BY <1>1, <2>1 DEF TaskRec, Steps, NeedsBackup
  <2>3. task' = [task EXCEPT ![t] = r]  BY <1>1, <1>7 DEF TaskOK, ListImages
  <2> HIDE DEF r
  <2>4. QED  BY <1>4, <2>2, <2>3
<1>8. CASE Create(t)
  <2> DEFINE n == Len(container) + 1
             s == AfterCreate(t)
             r == [task[t] EXCEPT !.made = n, !.step = s]
  <2>1. End(t) \/ task' = [task EXCEPT ![t].made = n, ![t].step = s]
    BY <1>8 DEF Create, Fail
  <2>2. n \in Id
    BY <1>8, LenProperties, BoundsAssumption DEF Create, TypeOK, DaemonOK, Id
  <2>3. s \in Steps /\ s \notin NeedsBackup
    BY DEF AfterCreate, Steps, NeedsBackup
  <2>4. CASE task' = [task EXCEPT ![t].made = n, ![t].step = s]
    <3> HIDE DEF n, s
    <3>1. /\ r \in TaskRec /\ r.kind = task[t].kind /\ r.id = task[t].id
          /\ r.from = task[t].from /\ r.to = task[t].to /\ r.step = s
      BY <1>1, <2>2, <2>3 DEF TaskRec
    <3>2. task' = [task EXCEPT ![t] = r]  BY <1>1, <2>4 DEF TaskOK
    <3> HIDE DEF r
    <3>3. QED  BY <1>4, <2>3, <3>1, <3>2
  <2>5. QED  BY <1>2, <2>1, <2>4
<1>9. CASE Monitor(t)
  <2> DEFINE r == [task[t] EXCEPT !.monitored = TRUE, !.step = "applied"]
  <2>1. End(t) \/ task' = [task EXCEPT ![t].monitored = TRUE, ![t].step = "applied"]
    BY <1>9 DEF Monitor, Fail
  <2>2. CASE task' = [task EXCEPT ![t].monitored = TRUE, ![t].step = "applied"]
    <3>1. /\ r \in TaskRec /\ r.kind = task[t].kind /\ r.id = task[t].id
          /\ r.from = task[t].from /\ r.to = task[t].to /\ r.step \notin NeedsBackup
      BY <1>1 DEF TaskRec, Steps, NeedsBackup
    <3>2. task' = [task EXCEPT ![t] = r]  BY <1>1, <2>2 DEF TaskOK
    <3> HIDE DEF r
    <3>3. QED  BY <1>4, <3>1, <3>2
  <2>3. QED  BY <1>2, <2>1, <2>2
<1>10. CASE Backup(t)
  BY <1>1, <1>10, GotoContinues DEF Backup, Steps
<1>11. CASE \/ Verify(t) \/ Sbom(t) \/ PreHook(t) \/ PruneImages(t) \/ Pull(t)
            \/ Stop(t) \/ RemoveOld(t) \/ StartWait(t) \/ EndWait(t) \/ Start(t)
            \/ EndRollback(t) \/ PostHook(t) \/ CleanUp(t) \/ Applied(t)
  <2>1. \/ End(t)
        \/ \E s \in Steps : /\ Goto(t, s)
                            /\ s \notin NeedsBackup \/ task[t].step \in NeedsBackup
    BY <1>11 DEF Verify, Sbom, PreHook, PruneImages, Pull, Stop, RemoveOld,
       StartWait, EndWait, Start, EndRollback, PostHook, CleanUp, Applied, Fail,
       At, Steps, NeedsBackup, AfterCleanup, BeforeStop
  <2>2. QED  BY <1>2, <1>3, <2>1
<1>12. QED
  BY <1>5, <1>6, <1>7, <1>8, <1>9, <1>10, <1>11 DEF TaskStep

-------------------------------------------------------------------------------
(* The parts of the invariant. *)

\* What the store and the backups say of a container stays true of it.
LEMMA KeptTags ==
  ASSUME Kept
  PROVE  /\ DocTags /\ UNCHANGED doc => DocTags'
         /\ BackupTags /\ UNCHANGED backups => BackupTags'
<1>1. Made \subseteq Made' /\ \A i \in Made : container'[i].image = container[i].image
  BY DEF Kept
<1>2. DocTags /\ UNCHANGED doc => DocTags'  BY <1>1 DEF DocTags
<1>3. BackupTags /\ UNCHANGED backups => BackupTags'
  BY <1>1 DEF BackupTags
<1>4. QED  BY <1>2, <1>3

LEMMA ContinuesTags ==
  ASSUME TaskOK, TaskTags, Kept, Continues  PROVE TaskTags'
<1> SUFFICES ASSUME NEW u \in Active'
             PROVE  task'[u].from = container'[task'[u].id].image
  BY DEF TaskTags
<1>1. /\ u \in Active /\ task'[u].id = task[u].id
      /\ task'[u].from = task[u].from
  BY DEF Continues
<1>2. task[u].from = container[task[u].id].image /\ task[u].id \in Made
  BY <1>1 DEF TaskTags, TaskOK
<1>3. container'[task[u].id].image = container[task[u].id].image
  BY <1>2 DEF Kept
<1>4. QED  BY <1>1, <1>2, <1>3

\* A step of a task changes backups only by adding one or pruning old ones.
LEMMA StepBackups ==
  ASSUME BackupInv, NEW t \in Task, TaskStep(t)
  PROVE  /\ BackupsKept /\ BackupTags'
         /\ Backup(t) => backups'[task[t].id] # <<>>
<1>1. Kept /\ TypeOK  BY StepTyped DEF BackupInv
<1>2. CASE Backup(t)
  <2> DEFINE i == task[t].id
             b == <<task[t].from>> \o backups[i]
  <2>1. task[t] # None /\ backups' = [backups EXCEPT ![i] = b]
    BY <1>2 DEF Backup, At
  <2>2. /\ task[t].from \in Image /\ i \in Id /\ i \in Made
        /\ task[t].from = container[i].image
    BY <1>1, <2>1 DEF TypeOK, TaskOK, TaskRec, Active, BackupInv, TaskTags
  <2>3. backups[i] \in Seq(Image)  BY <1>1, <2>2 DEF TypeOK, StoreOK
  <2>4. <<task[t].from>> \in Seq(Image) /\ Len(<<task[t].from>>) = 1
        /\ <<task[t].from>>[1] = task[t].from
    BY <2>2
  <2>5. /\ Len(b) = 1 + Len(backups[i]) /\ b \in Seq(Image)
        /\ \A k \in 1..Len(b) : b[k] = task[t].from
                                \/ \E j \in 1..Len(backups[i]) : b[k] = backups[i][j]
    <3>1. /\ b \in Seq(Image) /\ Len(b) = 1 + Len(backups[i])
          /\ \A k \in 1..Len(b) : b[k] = IF k <= 1 THEN <<task[t].from>>[k]
                                         ELSE backups[i][k - 1]
      BY <2>3, <2>4, ConcatProperties
    <3>2. Len(backups[i]) \in Nat  BY <2>3, LenProperties
    <3> HIDE DEF b
    <3>3. \A k \in 1..Len(b) : k = 1 \/ k - 1 \in 1..Len(backups[i])
      BY <3>1, <3>2
    <3>4. QED  BY <3>1, <3>3, <2>4
  <2>6. b # <<>> /\ DOMAIN b = 1..Len(b) /\ DOMAIN backups[i] = 1..Len(backups[i])
    BY <2>3, <2>5, LenProperties
  <2>7. \A j \in 1..Len(backups[i]) : backups[i][j] = container[i].image
    BY <2>2, <2>6, <1>1 DEF BackupInv, BackupTags
  <2>8. \A k \in DOMAIN b : b[k] = container[i].image
    BY <2>2, <2>5, <2>6, <2>7
  <2> HIDE DEF b
  <2>9. \A j \in Id : backups'[j] = IF j = i THEN b ELSE backups[j]
    BY <1>1, <2>1, <2>2 DEF TypeOK, StoreOK
  <2>10. \A j \in Id : \A k \in DOMAIN backups'[j] :
           j \in Made /\ backups'[j][k] = container[j].image
    BY <2>2, <2>8, <2>9 DEF BackupInv, BackupTags
  <2>11. BackupTags'  BY <1>1, <2>10 DEF Kept, BackupTags
  <2>12. QED  BY <2>2, <2>6, <2>9, <2>11 DEF BackupsKept
<1>3. CASE Applied(t)
  <2> DEFINE i == task[t].id
             b == Newest(backups[i])
  <2>1. task[t] # None /\ backups' = [backups EXCEPT ![i] = b]
    BY <1>3 DEF Applied, At
  <2>2. i \in Id  BY <1>1, <2>1 DEF TypeOK, TaskOK, TaskRec
  <2>3. backups[i] \in Seq(Image)  BY <1>1, <2>2 DEF TypeOK, StoreOK
  <2>4. /\ \A k \in DOMAIN b : k \in DOMAIN backups[i] /\ b[k] = backups[i][k]
        /\ backups[i] # <<>> => b # <<>>
    BY <2>3, NewestType
  <2> HIDE DEF b
  <2>5. \A j \in Id : backups'[j] = IF j = i THEN b ELSE backups[j]
    BY <1>1, <2>1, <2>2 DEF TypeOK, StoreOK
  <2>6. \A j \in Id : \A k \in DOMAIN backups'[j] :
           j \in Made /\ backups'[j][k] = container[j].image
    BY <2>4, <2>5 DEF BackupInv, BackupTags
  <2>7. BackupTags'  BY <1>1, <2>6 DEF Kept, BackupTags
  <2>8. ~Backup(t)  BY <1>3 DEF Applied, Backup, At
  <2>9. QED  BY <2>4, <2>5, <2>7, <2>8 DEF BackupsKept
<1>4. CASE UNCHANGED backups /\ ~Backup(t)
  BY <1>1, <1>4, KeptTags DEF BackupsKept, BackupInv
<1>5. UNCHANGED backups \/ Backup(t) \/ Applied(t)
  BY DEF TaskStep, Inspect, Verify, Scan, Sbom, Persist, PreHook, ListImages,
     PruneImages, Pull, Stop, RemoveOld, StartWait, EndWait, Create, Start,
     EndRollback, PostHook, CleanUp, Monitor, storeVars
<1>6. QED  BY <1>2, <1>3, <1>4, <1>5

LEMMA StepDocs ==
  ASSUME BackupInv, NEW t \in Task, TaskStep(t)  PROVE DocTags'
<1>1. Kept /\ TypeOK  BY StepTyped DEF BackupInv
<1>2. UNCHANGED doc \/ (task[t] # None /\ Persist(t))
  BY DEF TaskStep, Inspect, Verify, Scan, Sbom, PreHook, ListImages,
     PruneImages, Backup, Pull, Stop, RemoveOld, StartWait, EndWait, Create,
     Start, EndRollback, PostHook, CleanUp, Monitor, Applied, storeVars, At
<1>3. CASE UNCHANGED doc  BY <1>1, <1>3, KeptTags DEF BackupInv
<1>4. CASE task[t] # None /\ Persist(t)
  <2> DEFINE i == task[t].id
  <2>1. /\ i \in Id /\ i \in Made /\ task[t].from = container[i].image
    BY <1>1, <1>4 DEF TypeOK, TaskOK, TaskRec, Active, BackupInv, TaskTags
  <2>2. \A j \in Id : \/ doc'[j] = doc[j]
                      \/ j = i /\ doc'[j] = [tag |-> task[t].from, to |-> task[t].to]
    BY <1>1, <1>4, <2>1 DEF Persist, TypeOK, StoreOK
  <2>3. \A j \in Id : doc'[j] # None =>
          j \in Made /\ doc'[j].tag = container[j].image
    BY <2>1, <2>2 DEF BackupInv, DocTags
  <2>4. QED  BY <1>1, <2>3 DEF Kept, DocTags
<1>5. QED  BY <1>2, <1>3, <1>4, SMTT(30)

\* Only an update that has a backup adds to the replaced containers.
LEMMA StepReplaced ==
  ASSUME BackupInv, NEW t \in Task, TaskStep(t)  PROVE ReplacedHasSome'
<1>1. Kept /\ BackupsKept /\ TypeOK  BY StepTyped, StepBackups, SMTT(30) DEF BackupInv
<1>2. \/ UNCHANGED replaced
      \/ task[t] # None /\ IsUpdate(t) /\ task[t].step \in {"remove", "wait"}
           /\ replaced' = replaced \cup {task[t].id}
  BY DEF TaskStep, Inspect, Verify, Scan, Sbom, PreHook, ListImages,
     PruneImages, Backup, Pull, Stop, RemoveOld, StartWait, EndWait, Create,
     Start, EndRollback, PostHook, CleanUp, Monitor, Applied, history, At,
     Fail, Replace
<1>3. \A i \in replaced' : i \in Made /\ backups[i] # <<>>
  <2>1. CASE UNCHANGED replaced  BY <2>1 DEF BackupInv, ReplacedHasSome
  <2>2. CASE task[t] # None /\ IsUpdate(t) /\ task[t].step \in {"remove", "wait"}
               /\ replaced' = replaced \cup {task[t].id}
    <3>1. t \in Active /\ task[t].id \in Made
      BY <1>1, <2>2 DEF Active, TypeOK, TaskOK
    <3>2. backups[task[t].id] # <<>>
      BY <2>2, <3>1 DEF BackupInv, BackedUpFirst
    <3>3. QED  BY <2>2, <3>1, <3>2 DEF BackupInv, ReplacedHasSome
  <2>3. QED  BY <1>2, <2>1, <2>2
<1>4. Made \subseteq Made' /\ Made \subseteq Id
  BY <1>1, MadeType DEF Kept, TypeOK
<1>5. QED  BY <1>1, <1>3, <1>4 DEF ReplacedHasSome, BackupsKept

LEMMA StepBackedUp ==
  ASSUME BackupInv, NEW t \in Task, TaskStep(t)  PROVE BackedUpFirst'
<1> SUFFICES ASSUME NEW u \in Active', task'[u].kind = "update",
                    task'[u].step \in NeedsBackup
             PROVE  backups'[task'[u].id] # <<>>
  BY DEF BackedUpFirst, IsUpdate, NeedsBackup
<1>1. BackupsKept /\ Continues /\ TypeOK
  BY StepBackups, StepContinues DEF BackupInv
<1>2. /\ u \in Active /\ task'[u].kind = task[u].kind
      /\ task'[u].id = task[u].id
  BY <1>1 DEF Continues
<1>3. task[u].id \in Id  BY <1>1, <1>2 DEF Active, TypeOK, TaskOK, TaskRec
<1>4. IsUpdate(u)  BY <1>2 DEF IsUpdate
<1>5. CASE task[u].step \in NeedsBackup
  <2>1. backups[task[u].id] # <<>>
    BY <1>2, <1>4, <1>5 DEF BackupInv, BackedUpFirst, NeedsBackup
  <2>2. QED  BY <1>1, <1>2, <1>3, <2>1 DEF BackupsKept
<1>6. CASE u = t /\ Backup(t)  BY <1>2, <1>6, StepBackups
<1>7. CASE u # t
  <2>1. task'[u] = task[u]
    BY <1>1, <1>2, <1>7
    DEF TaskStep, Inspect, Verify, Scan, Sbom, PreHook, ListImages,
     PruneImages, Backup, Pull, Stop, RemoveOld, StartWait, EndWait, Create,
     Start, EndRollback, PostHook, CleanUp, Monitor, Applied, Fail, Goto, End,
     Active, TypeOK, TaskOK
  <2>2. QED  BY <1>5, <2>1, SMTT(30)
<1>8. QED  BY <1>4, <1>5, <1>6, <1>7, StepContinues DEF BackupInv

LEMMA StepInv ==
  ASSUME BackupInv, NEW t \in Task, TaskStep(t)  PROVE BackupInv'
<1>1. TypeOK /\ TypeOK' /\ Kept  BY StepTyped DEF BackupInv
<1>2. TaskTags'
  BY <1>1, StepContinues, ContinuesTags DEF BackupInv, TypeOK
<1>3. QED
  BY <1>1, <1>2, StepDocs, StepBackups, StepReplaced, StepBackedUp
  DEF BackupInv

\* A new task has read the tag its container runs, and has no backup to show.
LEMMA StartInv ==
  ASSUME BackupInv, NEW t \in Task, NEW i \in Made,
         StartUpdate(t, i) \/ StartRollback(t, i)
  PROVE  BackupInv'
<1>1. TypeOK /\ TypeOK' /\ Kept  BY StartTyped DEF BackupInv
<1>2. UNCHANGED <<daemonVars, storeVars, userVars, history>>
  BY DEF StartUpdate, StartRollback
<1>3. UNCHANGED <<container, doc, backups, replaced>>
  BY <1>2 DEF daemonVars, storeVars, history
<1>4. DocTags' /\ BackupTags'  BY <1>1, <1>3, KeptTags DEF BackupInv
<1>5. ReplacedHasSome'
  BY <1>1, <1>3 DEF Kept, BackupInv, ReplacedHasSome
<1>6. PICK r : /\ task' = [task EXCEPT ![t] = r]
               /\ r.id = i /\ r.from = doc[i].tag
               /\ r.kind = "update" => r.step = "inspect"
  <2>1. CASE StartUpdate(t, i)
    <3> DEFINE n == NewTask("update", i, doc[i].tag, doc[i].to, "inspect")
    <3>1. task' = [task EXCEPT ![t] = n]  BY <2>1 DEF StartUpdate
    <3>2. n.id = i /\ n.from = doc[i].tag /\ n.step = "inspect"
      BY DEF NewTask
    <3> HIDE DEF n
    <3>3. QED  BY <3>1, <3>2
  <2>2. CASE StartRollback(t, i)
    <3>1. PICK k \in DOMAIN backups[i] :
            task' = [task EXCEPT ![t] =
                       NewTask("rollback", i, doc[i].tag, backups[i][k], "pull")]
      BY <2>2 DEF StartRollback
    <3> DEFINE n == NewTask("rollback", i, doc[i].tag, backups[i][k], "pull")
    <3>2. task' = [task EXCEPT ![t] = n]  BY <3>1
    <3>3. n.id = i /\ n.from = doc[i].tag /\ n.kind # "update"
      BY DEF NewTask
    <3> HIDE DEF n
    <3>4. QED  BY <3>2, <3>3
  <2>3. QED  BY <2>1, <2>2
<1>7. i \in Id /\ doc[i] # None
  BY <1>1, MadeType DEF StartUpdate, StartRollback, TypeOK
<1>8. r.from = container[i].image
  BY <1>6, <1>7 DEF BackupInv, DocTags
<1>9. \A u \in Active' : \/ task'[u] = r
                         \/ u \in Active /\ task'[u] = task[u]
  BY <1>1, <1>6 DEF Active, TypeOK, TaskOK
<1>10. TaskTags'
  BY <1>3, <1>6, <1>8, <1>9 DEF BackupInv, TaskTags
<1>11. BackedUpFirst'
  BY <1>3, <1>6, <1>9 DEF BackupInv, BackedUpFirst, IsUpdate
<1>12. QED  BY <1>1, <1>4, <1>5, <1>10, <1>11 DEF BackupInv

LEMMA WorldInv == ASSUME BackupInv, World  PROVE BackupInv'
<1>1. TypeOK /\ TypeOK' /\ Kept
  BY UserTyped, PublishTyped, WatchTyped DEF BackupInv, World
<1>2. UNCHANGED <<backups, task, replaced>>
  BY DEF World, Publish, UserStop, UserStart, UserRemove, Reap, Watch,
     storeVars, history
<1>3. BackupTags'  BY <1>1, <1>2, KeptTags DEF BackupInv
<1>4. BackedUpFirst' /\ Active' = Active
  BY <1>2 DEF BackupInv, BackedUpFirst, IsUpdate, Active
<1>5. TaskTags'
  <2>1. Continues  BY <1>2, <1>4 DEF Continues
  <2>2. QED  BY <1>1, <2>1, ContinuesTags DEF BackupInv, TypeOK
<1>6. ReplacedHasSome'
  BY <1>1, <1>2 DEF Kept, BackupInv, ReplacedHasSome
<1>7. DocTags'
  <2>1. CASE Watch
    <3>1. \A i \in Id : doc'[i] # None =>
            i \in Made /\ doc'[i].tag = container[i].image
      BY <2>1 DEF Watch, BackupInv, DocTags
    <3>2. QED  BY <1>1, <3>1 DEF Kept, DocTags
  <2>2. CASE UNCHANGED doc  BY <1>1, <2>2, KeptTags DEF BackupInv
  <2>3. QED
    BY <2>1, <2>2 DEF World, Publish, UserStop, UserStart, UserRemove, Reap,
       storeVars
<1>8. QED  BY <1>1, <1>3, <1>4, <1>5, <1>6, <1>7 DEF BackupInv

LEMMA InvInductive == BackupInv /\ [Next]_vars => BackupInv'
<1> SUFFICES ASSUME BackupInv, [Next]_vars  PROVE BackupInv'
  OBVIOUS
<1>1. CASE World  BY <1>1, WorldInv
<1>2. CASE \E t \in Task : TaskStep(t) \/ \E i \in Made : StartUpdate(t, i)
                                                    \/ StartRollback(t, i)
  BY <1>2, StepInv, StartInv
<1>3. CASE UNCHANGED vars
  <2>1. UNCHANGED <<container, images, doc, backups, task, replaced>>
    BY <1>3 DEF vars, daemonVars, storeVars, history
  <2>2. TypeOK' /\ Kept  BY NextTyped DEF BackupInv
  <2>3. DocTags' /\ BackupTags'  BY <2>1, <2>2, KeptTags DEF BackupInv
  <2>4. Active' = Active  BY <2>1 DEF Active
  <2>5. TaskTags' /\ BackedUpFirst'
    BY <2>1, <2>4 DEF BackupInv, TaskTags, BackedUpFirst, IsUpdate
  <2>6. ReplacedHasSome'
    BY <2>1, <2>2 DEF Kept, BackupInv, ReplacedHasSome
  <2>7. QED  BY <2>2, <2>3, <2>5, <2>6 DEF BackupInv
<1>4. QED  BY <1>1, <1>2, <1>3 DEF Next

LEMMA InvInit == Init => BackupInv
<1> SUFFICES ASSUME Init  PROVE BackupInv
  OBVIOUS
<1>1. TypeOK  BY InitTyped
<1>2. \A i \in App : i \in Made /\ container[i].image = First
  BY DEF Init, Made, App
<1>3. DocTags  BY <1>2 DEF Init, DocTags
<1>4. \A i \in Id : backups[i] = <<>>  BY DEF Init
<1>5. BackupTags  BY <1>4 DEF BackupTags
<1>6. Active = {} /\ replaced = {}  BY DEF Init, Active
<1>7. TaskTags /\ BackedUpFirst /\ ReplacedHasSome
  BY <1>6 DEF TaskTags, BackedUpFirst, ReplacedHasSome
<1>8. QED  BY <1>1, <1>3, <1>5, <1>7 DEF BackupInv

(***************************************************************************)
(* Whatever an update has replaced is backed up under the id it had, with  *)
(* the tag it ran: for any number of updates and rollbacks that overlap,   *)
(* of backups to keep, and any fault.                                      *)
(***************************************************************************)
THEOREM BackedUp == Spec => []ReplacedHasBackup
<1>1. BackupInv => ReplacedHasBackup
  <2> SUFFICES ASSUME BackupInv, NEW i \in replaced
               PROVE  \E k \in DOMAIN backups[i] : backups[i][k] = container[i].image
    BY DEF ReplacedHasBackup
  <2>1. i \in Id /\ backups[i] # <<>>
    BY MadeType DEF BackupInv, ReplacedHasSome, TypeOK
  <2>2. backups[i] \in Seq(Image)  BY <2>1 DEF BackupInv, TypeOK, StoreOK
  <2>3. 1 \in DOMAIN backups[i]
    <3>1. Len(backups[i]) \in Nat /\ DOMAIN backups[i] = 1..Len(backups[i])
      BY <2>2, LenProperties
    <3>2. Len(backups[i]) # 0  BY <2>1, <2>2, EmptySeq
    <3>3. QED  BY <3>1, <3>2
  <2>4. QED  BY <2>1, <2>3 DEF BackupInv, BackupTags
<1>2. QED  BY <1>1, InvInit, InvInductive, PTL DEF Spec

-------------------------------------------------------------------------------
(***************************************************************************)
(* What becomes of an application.  Overlapping updates and rollbacks      *)
(* never lose one, provided no trigger prunes images, no container runs    *)
(* with --rm, and the daemon only refuses to create a container whose name *)
(* is taken or whose image is missing.  One task at a time even leaves the *)
(* application as its users want it (with pruning, too).                   *)
(***************************************************************************)
Plain == ~Prune /\ AutoRemove = {} /\ "create" \notin Faulty

\* Such tasks never prune and never wait for --rm.
PlainSteps ==
  \A t \in Active : task[t].step \notin {"list", "prune", "cleanup", "wait"}

\* From here on a task counts on the image it has pulled.
Needs(t) == \/ task[t].step \in {"stop", "remove", "create"}
            \/ ~IsUpdate(t) /\ task[t].step = "inspect"

PulledFirst == \A t \in Active : Needs(t) => task[t].to \in images

\* Whoever took the last container of an application away is a user, or a task
\* about to create its successor.
Creating(a) == \E t \in Active : AppOf(task[t].id) = a /\ task[t].step = "create"
Accounted == \A a \in App : wanted[a] = "removed" \/ Of(a) # {} \/ Creating(a)

ExistInv == TypeOK /\ PlainSteps /\ PulledFirst /\ Accounted

-------------------------------------------------------------------------------
(* What a container is still there. *)

LEMMA SetStateHere ==
  ASSUME DaemonOK, NEW i \in Made, NEW s \in ContainerState, SetState(i, s)
  PROVE  \A j \in Made : \/ container'[j].state = container[j].state /\ j # i
                         \/ container'[j].state = s /\ j = i
<1>1. i \in 1..Len(container) /\ container[i] \in Container  BY MadeType
<1>2. [container[i] EXCEPT !.state = s] \in Container
  BY <1>1 DEF Container, ContainerState
<1>3. container' = [container EXCEPT ![i] = [container[i] EXCEPT !.state = s]]
  BY DEF SetState
<1>4. \A j \in 1..Len(container) : container'[j] =
        IF j = i THEN [container[i] EXCEPT !.state = s] ELSE container[j]
  BY <1>1, <1>2, <1>3, ExceptSeq DEF DaemonOK
<1>5. [container[i] EXCEPT !.state = s].state = s  BY <1>1 DEF Container
<1>6. QED  BY <1>4, <1>5, MadeType

\* An application keeps the containers that stay.
LEMMA OfKept ==
  ASSUME Kept, NEW a \in App,
         NEW j \in Of(a), container'[j].state # "gone"
  PROVE  Of(a)' # {}
<1>1. j \in Made /\ AppOf(j) = a  BY DEF Of
<1>2. j \in Made' /\ container'[j].app = a  BY <1>1 DEF Kept, AppOf
<1>3. j \in Of(a)'  BY <1>2 DEF Of, Here, AppOf
<1>4. QED  BY <1>3

LEMMA OthersCreate ==
  ASSUME Kept, TaskOK, NEW a \in App, NEW u \in Active, task'[u] = task[u],
         AppOf(task[u].id) = a, task[u].step = "create"
  PROVE  Creating(a)'
<1>1. u \in Active' /\ task[u].id \in Made  BY DEF Active, TaskOK
<1>2. container'[task[u].id].app = a  BY <1>1 DEF Kept, AppOf
<1>3. QED  BY <1>1, <1>2 DEF Creating, AppOf

-------------------------------------------------------------------------------
(* Users, the daemon and new tasks. *)

LEMMA WorldExists ==
  ASSUME Plain, ExistInv, World  PROVE ExistInv'
<1>1. TypeOK /\ TypeOK' /\ Kept
  BY UserTyped, PublishTyped, WatchTyped DEF ExistInv, World
<1>2. UNCHANGED <<images, task>>
  BY DEF World, Publish, UserStop, UserStart, UserRemove, Reap, Watch,
     daemonVars
<1>3. Active' = Active  BY <1>2 DEF Active
<1>4. PlainSteps' /\ PulledFirst'
  BY <1>2, <1>3 DEF ExistInv, PlainSteps, PulledFirst, Needs, IsUpdate
<1>5. Accounted'
  <2> SUFFICES ASSUME NEW a \in App
               PROVE  wanted'[a] = "removed" \/ Of(a)' # {} \/ Creating(a)'
    BY DEF Accounted
  <2>1. Creating(a) => Creating(a)'
    BY <1>1, <1>2, OthersCreate DEF Creating, TypeOK
  <2>2. wanted[a] = "removed" \/ Of(a) # {} \/ Creating(a)
    BY DEF ExistInv, Accounted
  <2>3. CASE UNCHANGED <<container, wanted>>
    <3>1. \A j \in Of(a) : container'[j].state # "gone"
      BY <2>3 DEF Of, Here
    <3>2. QED  BY <1>1, <2>1, <2>2, <2>3, <3>1, OfKept
  <2>4. ASSUME NEW i \in Made, UserStop(i) \/ UserStart(i) \/ UserRemove(i)
        PROVE  wanted'[a] = "removed" \/ Of(a)' # {} \/ Creating(a)'
    <3>1. PICK s \in ContainerState : SetState(i, s) /\ (s = "gone" => UserRemove(i))
      BY <2>4 DEF UserStop, UserStart, UserRemove, ContainerState
    <3>2. \A j \in Made : \/ container'[j].state = container[j].state /\ j # i
                          \/ container'[j].state = s /\ j = i
      BY <1>1, <3>1, SetStateHere DEF TypeOK
    <3>3. CASE a = AppOf(i) /\ UserRemove(i)
      BY <1>1, <3>3 DEF UserRemove, TypeOK, UserOK
    <3>4. CASE a = AppOf(i) /\ ~UserRemove(i)
      <4>1. Here(i)
        BY <2>4, <3>4 DEF UserStop, UserStart, Running, Here
      <4>2. i \in Of(a)  BY <3>4, <4>1 DEF Of
      <4>3. container'[i].state # "gone"  BY <3>1, <3>2, <3>4
      <4>4. QED  BY <1>1, <4>2, <4>3, OfKept
    <3>5. CASE a # AppOf(i)
      <4>1. \A j \in Of(a) : j # i /\ container'[j].state # "gone"
        BY <3>2, <3>5 DEF Of, Here
      <4>2. Of(a) # {} => Of(a)' # {}  BY <1>1, <4>1, OfKept
      <4>3. wanted'[a] = wanted[a]
        BY <1>1, <2>4, <3>5 DEF UserStop, UserStart, UserRemove, TypeOK, UserOK
      <4>4. QED  BY <2>1, <2>2, <4>2, <4>3
    <3>6. QED  BY <3>3, <3>4, <3>5
  <2>5. \A i \in Made : ~Reap(i)  BY DEF Reap, Plain
  <2>6. QED
    BY <2>3, <2>4, <2>5 DEF World, Publish, Watch, daemonVars, userVars
<1>6. QED  BY <1>1, <1>4, <1>5 DEF ExistInv

LEMMA StartExists ==
  ASSUME ExistInv, NEW t \in Task, NEW i \in Made,
         StartUpdate(t, i) \/ StartRollback(t, i)
  PROVE  ExistInv'
<1>1. TypeOK /\ TypeOK' /\ Kept  BY StartTyped DEF ExistInv
<1>2. UNCHANGED <<container, images, wanted>> /\ task[t] = None
  BY DEF StartUpdate, StartRollback, daemonVars, userVars
<1>3. PICK r : /\ task' = [task EXCEPT ![t] = r]
               /\ r.step \in {"inspect", "pull"}
               /\ r.kind = "update" \/ r.step = "pull"
  <2>1. CASE StartUpdate(t, i)
    <3> DEFINE n == NewTask("update", i, doc[i].tag, doc[i].to, "inspect")
    <3>1. task' = [task EXCEPT ![t] = n]  BY <2>1 DEF StartUpdate
    <3>2. n.kind = "update" /\ n.step = "inspect"  BY DEF NewTask
    <3> HIDE DEF n
    <3>3. QED  BY <3>1, <3>2
  <2>2. CASE StartRollback(t, i)
    <3>1. PICK k \in DOMAIN backups[i] :
            task' = [task EXCEPT ![t] =
                       NewTask("rollback", i, doc[i].tag, backups[i][k], "pull")]
      BY <2>2 DEF StartRollback
    <3> DEFINE n == NewTask("rollback", i, doc[i].tag, backups[i][k], "pull")
    <3>2. task' = [task EXCEPT ![t] = n]  BY <3>1
    <3>3. n.step = "pull"  BY DEF NewTask
    <3> HIDE DEF n
    <3>4. QED  BY <3>2, <3>3
  <2>3. QED  BY <2>1, <2>2
<1>4. \A u \in Active' : \/ u = t /\ task'[u] = r
                         \/ u \in Active /\ task'[u] = task[u]
  BY <1>1, <1>3 DEF Active, TypeOK, TaskOK
<1>5. PlainSteps' /\ PulledFirst'
  BY <1>2, <1>3, <1>4
  DEF ExistInv, PlainSteps, PulledFirst, Needs, IsUpdate
<1>6. Accounted'
  <2> SUFFICES ASSUME NEW a \in App
               PROVE  wanted'[a] = "removed" \/ Of(a)' # {} \/ Creating(a)'
    BY DEF Accounted
  <2>1. Of(a)' = Of(a)  BY <1>2 DEF Of, Made, Here, AppOf
  <2>2. \A u \in Active : task'[u] = task[u]
    BY <1>1, <1>2, <1>3 DEF Active, TypeOK, TaskOK
  <2>3. Creating(a) => Creating(a)'
    BY <1>1, <2>2, OthersCreate DEF Creating, TypeOK
  <2>4. QED  BY <1>2, <2>1, <2>3 DEF ExistInv, Accounted
<1>7. QED  BY <1>1, <1>5, <1>6 DEF ExistInv

-------------------------------------------------------------------------------
(* The steps of a task. *)

\* A task that counts on its image has pulled it.
LEMMA StepPulls ==
  ASSUME Plain, ExistInv, NEW t \in Task, TaskStep(t), t \in Active'
  PROVE  /\ task'[t].step \notin {"list", "prune", "cleanup", "wait"}
         /\ Needs(t)' => Needs(t) \/ task[t].to \in images'
<1> DEFINE Fine == /\ task'[t].step \notin {"list", "prune", "cleanup", "wait"}
                   /\ Needs(t)' => Needs(t) \/ task[t].to \in images'
<1>1. task[t] # None /\ TaskOK /\ task[t] \in TaskRec /\ TypeOK
  BY DEF TaskStep, Inspect, Verify, Scan, Sbom, PreHook, ListImages, PruneImages,
     Backup, Pull, Stop, RemoveOld, StartWait, EndWait, Create, Start,
     EndRollback, PostHook, CleanUp, Monitor, Applied, At, TypeOK, TaskOK, ExistInv
<1>2. task'[t].kind = task[t].kind  BY <1>1, StepContinues DEF Continues
<1>3. ~End(t)  BY <1>1 DEF End, Active, TaskOK
<1>4. ~Fail(t)  BY <1>3 DEF Fail
<1>5. t \in Active  BY <1>1 DEF Active
<1>6. CASE Inspect(t)
  <2> DEFINE b == Running(task[t].id)
             s == IF ~IsUpdate(t) THEN BeforeStop(b)
                  ELSE IF Gate THEN "verify" ELSE "hook"
  <2>1. task' = [task EXCEPT ![t].up = b, ![t].step = s]
    BY <1>4, <1>6 DEF Inspect
  <2>2. task'[t].step = s
    <3> HIDE DEF b, s
    <3>1. QED  BY <1>1, <2>1 DEF TaskOK, TaskRec
  <2>3. task[t].step = "inspect"  BY <1>6 DEF Inspect, At
  <2>4. CASE IsUpdate(t)
    BY <1>2, <2>2, <2>4 DEF Needs, IsUpdate
  <2>5. CASE ~IsUpdate(t)
    BY <2>2, <2>3, <2>5 DEF Needs, BeforeStop
  <2>6. QED  BY <2>4, <2>5
<1>7. CASE Scan(t)
  <2>1. PICK bad \in BOOLEAN :
          task' = [task EXCEPT ![t].blocked = bad, ![t].step = "sbom"]
    BY <1>7 DEF Scan
  <2>2. task'[t].step = "sbom"  BY <1>1, <2>1 DEF TaskOK, TaskRec
  <2>3. QED  BY <2>2 DEF Needs
<1>8. CASE Create(t)
  <2>1. Needs(t)  BY <1>8 DEF Create, At, Needs
  <2> DEFINE n == Len(container) + 1
             s == AfterCreate(t)
  <2>2. task' = [task EXCEPT ![t].made = n, ![t].step = s]
    BY <1>4, <1>8 DEF Create
  <2>3. task'[t].step = s
    <3> HIDE DEF n, s
    <3>1. QED  BY <1>1, <2>2 DEF TaskOK, TaskRec
  <2>4. QED  BY <2>1, <2>3 DEF AfterCreate
<1>9. CASE Monitor(t)
  <2>1. task' = [task EXCEPT ![t].monitored = TRUE, ![t].step = "applied"]
    BY <1>4, <1>9 DEF Monitor
  <2>2. task'[t].step = "applied"  BY <1>1, <2>1 DEF TaskOK, TaskRec
  <2>3. QED  BY <2>2 DEF Needs
<1>10. ASSUME NEW s \in Steps, Goto(t, s)
       PROVE  task'[t].step = s
  BY <1>1, <1>10, GotoContinues
<1>11. CASE Pull(t)
  <2>1. task[t].to \in images'  BY <1>4, <1>11 DEF Pull
  <2>2. PICK s \in {"stop", "remove", "inspect"} : Goto(t, s)
    BY <1>3, <1>4, <1>11 DEF Pull, BeforeStop
  <2>3. task'[t].step = s  BY <1>10, <2>2 DEF Steps
  <2>4. QED  BY <2>1, <2>3
<1>12. CASE Stop(t) \/ RemoveOld(t)
  <2>1. Needs(t)  BY <1>12 DEF Stop, RemoveOld, At, Needs
  <2>2. PICK s \in {"remove", "create"} : Goto(t, s)
    BY <1>4, <1>12 DEF Stop, RemoveOld
  <2>3. task'[t].step = s  BY <1>10, <2>2 DEF Steps
  <2>4. QED  BY <2>1, <2>3
<1>13. CASE \/ Verify(t) \/ Sbom(t) \/ PreHook(t) \/ Backup(t) \/ Start(t)
            \/ EndRollback(t) \/ PostHook(t) \/ Applied(t)
  <2>1. PICK s \in {"scan", "hook", "backup", "pull", "post", "monitor", "applied"} :
          Goto(t, s)
    BY <1>3, <1>4, <1>13 DEF Verify, Sbom, PreHook, Backup, Start, EndRollback,
       PostHook, Applied, AfterCleanup, Plain
  <2>2. task'[t].step = s  BY <1>10, <2>1 DEF Steps
  <2>3. QED  BY <2>2 DEF Needs
<1>14. ~ListImages(t) /\ ~PruneImages(t) /\ ~CleanUp(t) /\ ~EndWait(t)
  BY <1>5 DEF ListImages, PruneImages, CleanUp, EndWait, At, ExistInv, PlainSteps
<1>15. ~StartWait(t)  BY DEF StartWait, Plain
<1>16. QED
  BY <1>6, <1>7, <1>8, <1>9, <1>11, <1>12, <1>13, <1>14, <1>15, SMTT(30) DEF TaskStep

LEMMA StepImages ==
  ASSUME ExistInv, NEW t \in Task, TaskStep(t)  PROVE images \subseteq images'
<1>1. ~PruneImages(t) /\ ~CleanUp(t)
  BY DEF PruneImages, CleanUp, At, Active, ExistInv, PlainSteps
<1>2. QED
  BY <1>1 DEF TaskStep, Inspect, Verify, Scan, Sbom, PreHook, ListImages,
     Backup, Pull, Stop, RemoveOld, StartWait, EndWait, Create, Start,
     EndRollback, PostHook, Monitor, Applied, daemonVars

\* Creating the successor succeeds, or the name is taken.
LEMMA CreateExists ==
  ASSUME Plain, ExistInv, NEW t \in Task, Create(t), NEW a \in App,
         a = AppOf(task[t].id)
  PROVE  Of(a)' # {}
<1>1. TypeOK /\ TypeOK' /\ Kept
  BY CreateTyped DEF ExistInv
<1>2. /\ t \in Active /\ task[t].step = "create" /\ task[t] \in TaskRec
      /\ task[t].id \in Made /\ Len(container) < MaxContainers
  BY <1>1 DEF Create, At, Active, TypeOK, TaskOK
<1>4. task[t].to \in images
  BY <1>2 DEF ExistInv, PulledFirst, Needs
<1>5. CASE container' = New(t)
  <2>1. Len(container) + 1 \in Made'  BY <1>1, <1>2, <1>5, NewKept DEF TypeOK
  <2> DEFINE c == [app |-> a, image |-> task[t].to, state |-> "created"]
  <2>2. c \in Container  BY <1>2 DEF Container, TaskRec
  <2>3. container'[Len(container) + 1] = c
    BY <1>1, <1>5, <2>2, AppendProperties DEF New, TypeOK, DaemonOK
  <2>4. Len(container) + 1 \in Of(a)'
    BY <2>1, <2>3 DEF Of, Here, AppOf
  <2>5. QED  BY <2>4
<1>6. CASE UNCHANGED container /\ ~NameFree(a)
  <2>1. PICK i \in Made : AppOf(i) = a /\ Here(i)  BY <1>6 DEF NameFree
  <2>2. i \in Of(a) /\ container'[i].state # "gone"
    BY <1>6, <2>1 DEF Of, Here
  <2>3. QED  BY <1>1, <2>2, OfKept
<1>7. QED
  BY <1>4, <1>5, <1>6 DEF Create, MayFail, Plain

LEMMA StepExists ==
  ASSUME Plain, ExistInv, NEW t \in Task, TaskStep(t)  PROVE ExistInv'
<1>1. TypeOK /\ TypeOK' /\ Kept  BY StepTyped DEF ExistInv
<1>2. Continues /\ images \subseteq images'
  BY <1>1, StepContinues, StepImages, SMTT(30)
<1>3. \A u \in Active' : u # t => task'[u] = task[u]
  BY <1>1
  DEF TaskStep, Inspect, Verify, Scan, Sbom, PreHook, ListImages,
   PruneImages, Backup, Pull, Stop, RemoveOld, StartWait, EndWait, Create,
   Start, EndRollback, PostHook, CleanUp, Monitor, Applied, Fail, Goto, End,
   Active, TypeOK, TaskOK
<1>4. PlainSteps'
  BY <1>2, <1>3, StepPulls DEF PlainSteps, ExistInv, Continues
<1>5. PulledFirst'
  <2> SUFFICES ASSUME NEW u \in Active', Needs(u)'
               PROVE  task'[u].to \in images'
    BY DEF PulledFirst
  <2>1. u \in Active /\ task'[u].to = task[u].to  BY <1>2 DEF Continues
  <2>2. Needs(u) \/ task[u].to \in images'
    <3>1. CASE u = t  BY <3>1, StepPulls
    <3>2. CASE u # t  BY <1>3, <3>2 DEF Needs, IsUpdate
    <3>3. QED  BY <3>1, <3>2
  <2>3. QED  BY <1>2, <2>1, <2>2 DEF ExistInv, PulledFirst
<1>6. Accounted'
  <2> SUFFICES ASSUME NEW a \in App
               PROVE  wanted'[a] = "removed" \/ Of(a)' # {} \/ Creating(a)'
    BY SMTT(30) DEF Accounted
  <2>1. wanted' = wanted
    BY DEF TaskStep, Inspect, Verify, Scan, Sbom, PreHook, ListImages,
     PruneImages, Backup, Pull, Stop, RemoveOld, StartWait, EndWait, Create,
     Start, EndRollback, PostHook, CleanUp, Monitor, Applied, userVars
  <2>2. wanted[a] = "removed" \/ Of(a) # {} \/ Creating(a)
    BY DEF ExistInv, Accounted
  <2>3. CASE Creating(a)
    <3>1. PICK u \in Active : AppOf(task[u].id) = a /\ task[u].step = "create"
      BY <2>3 DEF Creating
    <3>2. CASE u = t
      <4>1. Create(t)
        BY <3>1, <3>2
        DEF TaskStep, Inspect, Verify, Scan, Sbom, PreHook, ListImages,
         PruneImages, Backup, Pull, Stop, RemoveOld, StartWait, EndWait,
         Start, EndRollback, PostHook, CleanUp, Monitor, Applied, At
      <4>2. QED  BY <3>1, <3>2, <4>1, CreateExists
    <3>3. CASE u # t
      <4>1. task'[u] = task[u]
        BY <1>1, <3>1, <3>3
        DEF TaskStep, Inspect, Verify, Scan, Sbom, PreHook, ListImages,
         PruneImages, Backup, Pull, Stop, RemoveOld, StartWait, EndWait, Create,
         Start, EndRollback, PostHook, CleanUp, Monitor, Applied, Fail, Goto, End,
         Active, TypeOK, TaskOK
      <4>2. QED  BY <1>1, <3>1, <4>1, OthersCreate DEF TypeOK
    <3>4. QED  BY <3>2, <3>3
  <2>4. CASE Of(a) # {}
    <3> PICK j \in Of(a) : TRUE  BY <2>4
    <3>1. j \in Made /\ AppOf(j) = a /\ Here(j)  BY DEF Of
    <3>2. CASE container'[j].state # "gone"  BY <1>1, <3>2, OfKept
    <3>3. CASE container'[j].state = "gone"
      <4>1. task[t] # None /\ task[t].id \in Made
            /\ (task[t].step = "start" => task[t].made \in Made)
        BY <1>1 DEF TaskStep, Inspect, Verify, Scan, Sbom, PreHook, ListImages,
         PruneImages, Backup, Pull, Stop, RemoveOld, StartWait, EndWait, Create,
         Start, EndRollback, PostHook, CleanUp, Monitor, Applied, At, Active,
         TypeOK, TaskOK
      <4>2. CASE UNCHANGED container  BY <3>1, <3>3, <4>2 DEF Here
      <4>3. CASE Stop(t) /\ ~UNCHANGED container
        <5>1. SetState(task[t].id, "exited")  BY <4>3 DEF Stop
        <5>2. QED
          BY <1>1, <3>1, <3>3, <4>1, <5>1, SetStateHere
          DEF Here, TypeOK, ContainerState
      <4>4. CASE Start(t) /\ ~UNCHANGED container
        <5>1. SetState(task[t].made, "running") /\ task[t].step = "start"
          BY <4>4 DEF Start, At
        <5>2. QED
          BY <1>1, <3>1, <3>3, <4>1, <5>1, SetStateHere
          DEF Here, TypeOK, ContainerState
      <4>5. CASE RemoveOld(t) /\ ~UNCHANGED container
        <5>1. SetState(task[t].id, "gone") /\ Goto(t, "create")
          BY <4>5 DEF RemoveOld
        <5>2. j = task[t].id
          BY <1>1, <3>1, <3>3, <4>1, <5>1, SetStateHere
          DEF Here, TypeOK, ContainerState
        <5>3. task[t] \in TaskRec  BY <1>1, <4>1 DEF TypeOK, TaskOK
        <5>4. task'[t] = [task[t] EXCEPT !.step = "create"]
          BY <1>1, <5>1 DEF Goto, TypeOK, TaskOK
        <5>5. /\ task'[t] \in TaskRec /\ task'[t].id = j
              /\ task'[t].step = "create"
          BY <5>2, <5>3, <5>4 DEF TaskRec, Steps
        <5>6. t \in Active'  BY <5>5, NoneAssumption DEF Active
        <5>7. container'[j].app = a  BY <1>1, <3>1 DEF Kept, AppOf
        <5>8. QED  BY <5>5, <5>6, <5>7 DEF Creating, AppOf
      <4>6. CASE Create(t) /\ container' = New(t)
        <5>1. task[t] \in TaskRec /\ task[t].id \in Made
          BY <1>1, <4>1 DEF TypeOK, TaskOK
        <5> DEFINE c == [app |-> AppOf(task[t].id), image |-> task[t].to,
                         state |-> "created"]
        <5>2. c \in Container
          BY <1>1, <5>1, MadeType DEF Container, TaskRec, AppOf, TypeOK
        <5>3. container'[j] = container[j]
          BY <1>1, <3>1, <4>6, <5>2, MadeType, AppendProperties
          DEF New, TypeOK, DaemonOK
        <5>4. QED  BY <3>1, <3>3, <5>3 DEF Here
      <4>7. QED
        BY <4>2, <4>3, <4>4, <4>5, <4>6, Zenon
        DEF TaskStep, Inspect, Verify, Scan, Sbom, PreHook, ListImages,
         PruneImages, Backup, Pull, RemoveOld, StartWait, EndWait, Create,
         EndRollback, PostHook, CleanUp, Monitor, Applied, daemonVars
    <3>4. QED  BY <3>2, <3>3
  <2>5. QED  BY <2>1, <2>2, <2>3, <2>4
<1>7. QED  BY <1>1, <1>4, <1>5, <1>6 DEF ExistInv

-------------------------------------------------------------------------------
LEMMA ExistInductive ==
  ASSUME Plain, ExistInv, [Next]_vars  PROVE ExistInv'
<1>1. CASE World  BY <1>1, WorldExists
<1>2. CASE \E t \in Task : TaskStep(t) \/ \E i \in Made : StartUpdate(t, i)
                                                    \/ StartRollback(t, i)
  BY <1>2, StepExists, StartExists
<1>3. CASE UNCHANGED vars
  <2>1. UNCHANGED <<container, images, task, wanted>>
    BY <1>3 DEF vars, daemonVars, userVars
  <2>2. TypeOK'  BY NextTyped DEF ExistInv
  <2>3. Active' = Active  BY <2>1 DEF Active
  <2>4. PlainSteps' /\ PulledFirst'
    BY <2>1, <2>3 DEF ExistInv, PlainSteps, PulledFirst, Needs, IsUpdate
  <2>5. Accounted'
    BY <2>1, <2>3 DEF ExistInv, Accounted, Of, Made, Here, AppOf, Creating
  <2>6. QED  BY <2>2, <2>4, <2>5 DEF ExistInv
<1>4. QED  BY <1>1, <1>2, <1>3 DEF Next

LEMMA ExistInit == ASSUME Init  PROVE ExistInv
<1>1. TypeOK /\ Active = {}  BY InitTyped DEF Init, Active
<1>2. \A a \in App : a \in Of(a)
  BY DEF Init, Of, Made, Here, AppOf
<1>3. QED
  BY <1>1, <1>2 DEF ExistInv, PlainSteps, PulledFirst, Accounted

(***************************************************************************)
(* However many updates and rollbacks of one container overlap, whatever   *)
(* of them fails and whatever users do meanwhile: when none is in flight,  *)
(* the application has a container, unless a user removed it.              *)
(***************************************************************************)
THEOREM NeverLost == ASSUME Plain  PROVE Spec => []AppExists
<1>1. Init => ExistInv  BY ExistInit
<1>2. ExistInv /\ [Next]_vars => ExistInv'  BY ExistInductive
<1>3. ExistInv => AppExists
  BY DEF ExistInv, Accounted, AppExists, Creating, Busy
<1>4. QED  BY <1>1, <1>2, <1>3, PTL DEF Spec

-------------------------------------------------------------------------------
(***************************************************************************)
(* AppSurvives.  One task at a time, on a daemon that only refuses what it *)
(* cannot do when it removes, creates, connects or starts.  A user who     *)
(* starts the container again between the stop and the removal of an       *)
(* update, and stops it, would be overruled: the task starts the new one.  *)
(* So users stop and remove, and do not start.  The invariant says what    *)
(* the task has in hand at each of its steps: the container as users want  *)
(* it, or the stopped one it is about to remove, or nothing but the name,  *)
(* or the new one that is not started yet.                                 *)
(***************************************************************************)
OneTask  == \A s, t \in Task : s = t
Reliable == Faulty \cap {"remove", "create", "connect", "start"} = {}
Undisturbed == OneTask /\ Reliable /\ "start" \notin UserActs

StateOf(i) == container[i].state

AsWanted(a) == /\ wanted[a] = "up" => Up(a)
               /\ wanted[a] = "down" => Of(a) # {} /\ ~Up(a)
               /\ wanted[a] = "removed" => Of(a) = {}

OneContainer == \A a \in App : \A i, j \in Of(a) : i = j

Before == {"inspect", "verify", "scan", "sbom", "hook", "list", "prune",
           "backup", "pull"}
After  == {"post", "cleanup", "monitor", "applied"}

\* The inspect found the container not running.
SawDown(t) == /\ ~task[t].up /\ task[t].step \in Before \cup {"stop", "remove"}
              /\ task[t].step # "inspect"
              /\ IsUpdate(t) \/ task[t].step # "pull"

InHand(t, a) ==
  /\ task[t].step \in Before \cup After \cup {"stop"} => AsWanted(a)
  /\ task[t].step = "stop" => task[t].up
  /\ SawDown(t) => ~Running(task[t].id)
  /\ task[t].step = "remove" =>
       \/ AsWanted(a) /\ (task[t].up => ~Here(task[t].id))
       \/ task[t].up /\ StateOf(task[t].id) = "exited" /\ wanted[a] = "up"
  /\ task[t].step = "create" =>
       Of(a) = {} /\ wanted[a] = IF task[t].up THEN "up" ELSE "down"
  /\ task[t].step = "start" =>
       /\ AppOf(task[t].made) = a
       /\ \/ StateOf(task[t].made) = "created" /\ wanted[a] = "up"
          \/ ~Here(task[t].made) /\ AsWanted(a)
  /\ task[t].step # "wait"
  /\ Needs(t) => task[t].to \in images

AllInHand == \A t \in Active :
  AppOf(task[t].id) \notin AutoRemove => InHand(t, AppOf(task[t].id))
IdleAsWanted == \A a \in App \ AutoRemove : ~Busy(a) => AsWanted(a)

\* The container a task is about to start is its own.
MadeIsOwn == \A t \in Active :
  task[t].step = "start" => AppOf(task[t].made) = AppOf(task[t].id)

SurviveInv == TypeOK /\ OneContainer /\ MadeIsOwn /\ AllInHand /\ IdleAsWanted

\* What a step does to one application: nothing,
SameApp(a) == /\ wanted'[a] = wanted[a] /\ Of(a)' = Of(a)
              /\ \A j \in Made : AppOf(j) = a =>
                                   container'[j].state = container[j].state
\* or a user stopped or removed its container.
Turned(a) ==
  /\ AsWanted(a)'
  /\ \E i \in Of(a) :
       /\ Of(a) = {i} /\ Of(a)' \subseteq {i}
       /\ \/ Running(i) /\ container'[i].state = "exited"
          \/ container'[i].state = "gone"
       /\ \A j \in Made : AppOf(j) = a /\ j # i =>
                            container'[j].state = container[j].state

LEMMA SameAsWanted ==
  ASSUME Kept, NEW a \in App, SameApp(a)  PROVE AsWanted(a)' <=> AsWanted(a)
<1>1. \A i \in Of(a) : Running(i)' <=> Running(i)
  BY DEF Of, SameApp, Running
<1>2. Up(a)' <=> Up(a)  BY <1>1 DEF SameApp, Up
<1>3. QED  BY <1>2 DEF SameApp, AsWanted

\* The containers of an application after one of them changes its state.
LEMMA SetStateOf ==
  ASSUME DaemonOK, NEW i \in Made, NEW s \in ContainerState, SetState(i, s),
         NEW a \in App
  PROVE  /\ container'[i].state = s
         /\ \A j \in Made : j # i => container'[j].state = container[j].state
         /\ AppOf(i) # a => Of(a)' = Of(a)
         /\ AppOf(i) = a =>
              Of(a)' = IF s = "gone" THEN Of(a) \ {i} ELSE Of(a) \cup {i}
<1>1. i \in 1..Len(container) /\ container[i] \in Container  BY MadeType
<1>2. [container[i] EXCEPT !.state = s] \in Container
  BY <1>1 DEF Container, ContainerState
<1>3. container' = [container EXCEPT ![i] = [container[i] EXCEPT !.state = s]]
  BY DEF SetState
<1>4. /\ container' \in Seq(Container) /\ Len(container') = Len(container)
      /\ \A j \in 1..Len(container) : container'[j] =
            IF j = i THEN [container[i] EXCEPT !.state = s] ELSE container[j]
  BY <1>1, <1>2, <1>3, ExceptSeq DEF DaemonOK
<1>5. Made' = Made
  BY <1>4, MadeType, LenProperties DEF Made
<1>6. /\ [container[i] EXCEPT !.state = s].state = s
      /\ [container[i] EXCEPT !.state = s].app = container[i].app
  BY <1>1 DEF Container
<1>7. \A j \in Made : /\ container'[j].app = container[j].app
                      /\ container'[j].state = IF j = i THEN s ELSE container[j].state
  BY <1>4, <1>6, MadeType
<1>8. Of(a)' = {j \in Made : container[j].app = a
                             /\ (IF j = i THEN s ELSE container[j].state) # "gone"}
  BY <1>5, <1>7 DEF Of, AppOf, Here
<1>9. QED  BY <1>7, <1>8 DEF Of, AppOf, Here

-------------------------------------------------------------------------------
LEMMA WorldTurns ==
  ASSUME TypeOK, OneContainer, World, "start" \notin UserActs,
         NEW a \in App \ AutoRemove
  PROVE  SameApp(a) \/ Turned(a)
<1>1. TypeOK' /\ Kept  BY UserTyped, PublishTyped, WatchTyped DEF World
<1>2. CASE UNCHANGED <<container, wanted>>
  BY <1>2 DEF SameApp, Of, Made, Here, AppOf
<1>3. ASSUME NEW i \in Made, NEW s \in {"exited", "gone"}, SetState(i, s),
             AppOf(i) # a, wanted'[a] = wanted[a]
      PROVE  SameApp(a)
  BY <1>1, <1>3, SetStateOf DEF SameApp, TypeOK, ContainerState
<1>4. ASSUME NEW i \in Made, UserStop(i)  PROVE SameApp(a) \/ Turned(a)
  <2>1. SetState(i, "exited") /\ Running(i)  BY <1>4 DEF UserStop
  <2>2. CASE AppOf(i) # a
    BY <1>3, <1>4, <2>1, <2>2 DEF UserStop, TypeOK, UserOK
  <2>3. CASE AppOf(i) = a
    <3>1. i \in Of(a)  BY <2>1, <2>3 DEF Of, Running, Here
    <3>2. Of(a) = {i}  BY <3>1 DEF OneContainer
    <3>3. /\ container'[i].state = "exited"
          /\ \A j \in Made : j # i => container'[j].state = container[j].state
          /\ Of(a)' = {i}
      BY <2>1, <2>3, <3>2, SetStateOf DEF TypeOK, ContainerState
    <3>4. wanted'[a] = "down"  BY <1>4, <2>3 DEF UserStop, TypeOK, UserOK
    <3>5. AsWanted(a)'  BY <3>3, <3>4 DEF AsWanted, Up, Running
    <3>6. QED  BY <2>1, <3>1, <3>2, <3>3, <3>5 DEF Turned
  <2>4. QED  BY <2>2, <2>3
<1>5. ASSUME NEW i \in Made, UserRemove(i)  PROVE SameApp(a) \/ Turned(a)
  <2>1. SetState(i, "gone") /\ Here(i)  BY <1>5 DEF UserRemove
  <2>2. CASE AppOf(i) # a
    BY <1>3, <1>5, <2>1, <2>2 DEF UserRemove, TypeOK, UserOK
  <2>3. CASE AppOf(i) = a
    <3>1. i \in Of(a)  BY <2>1, <2>3 DEF Of
    <3>2. Of(a) = {i}  BY <3>1 DEF OneContainer
    <3>3. /\ container'[i].state = "gone"
          /\ \A j \in Made : j # i => container'[j].state = container[j].state
          /\ Of(a)' = {}
      BY <2>1, <2>3, <3>2, SetStateOf DEF TypeOK, ContainerState
    <3>4. wanted'[a] = "removed"  BY <1>5, <2>3 DEF UserRemove, TypeOK, UserOK
    <3>5. AsWanted(a)'  BY <3>3, <3>4 DEF AsWanted
    <3>6. QED  BY <3>1, <3>2, <3>3, <3>5 DEF Turned
  <2>4. QED  BY <2>2, <2>3
<1>6. ASSUME NEW i \in Made, Reap(i)  PROVE SameApp(a)
  BY <1>3, <1>6 DEF Reap, userVars
<1>7. ASSUME NEW i \in Made  PROVE ~UserStart(i)  BY DEF UserStart
<1>8. QED
  BY <1>2, <1>4, <1>5, <1>6, <1>7 DEF World, Publish, Watch, daemonVars, userVars

LEMMA WorldOne ==
  ASSUME TypeOK, OneContainer, World  PROVE OneContainer'
<1> SUFFICES ASSUME NEW a \in App  PROVE \A i, j \in Of(a)' : i = j
  BY DEF OneContainer
<1>1. \/ UNCHANGED container
      \/ \E i \in Made, s \in ContainerState : SetState(i, s) /\ Here(i)
  BY DEF World, Publish, UserStop, UserStart, UserRemove, Reap, Watch,
     daemonVars, ContainerState, Here, Running
<1>2. CASE UNCHANGED container
  BY <1>2 DEF OneContainer, Of, Made, Here, AppOf
<1>3. ASSUME NEW i \in Made, NEW s \in ContainerState, SetState(i, s), Here(i)
      PROVE  Of(a)' \subseteq Of(a)
  BY <1>3, SetStateOf DEF TypeOK, Of
<1>4. QED  BY <1>1, <1>2, <1>3 DEF OneContainer

LEMMA WorldHand ==
  ASSUME TypeOK, OneContainer, World, "start" \notin UserActs, NEW t \in Active,
         NEW a \in App \ AutoRemove, a = AppOf(task[t].id), InHand(t, a)
  PROVE  InHand(t, a)'
<1>1. TypeOK' /\ Kept  BY UserTyped, PublishTyped, WatchTyped DEF World
<1>2. UNCHANGED <<images, task>>
  BY DEF World, Publish, UserStop, UserStart, UserRemove, Reap, Watch, daemonVars
<1> DEFINE i == task[t].id
           n == task[t].made
<1>3. /\ task[t] \in TaskRec /\ i \in Made
      /\ task[t].step = "start" => n \in Made /\ AppOf(n) = a
  BY DEF Active, TypeOK, TaskOK, InHand
<1>4. /\ SawDown(t)' <=> SawDown(t)
      /\ Needs(t)' <=> Needs(t)
  BY <1>2 DEF SawDown, Needs, IsUpdate
<1>5. task[t].step = "start" => container'[n].app = a
  BY <1>1, <1>3 DEF Kept, AppOf
<1>6. CASE SameApp(a)
  <2>1. AsWanted(a)' <=> AsWanted(a)  BY <1>1, <1>6, SameAsWanted
  <2>2. /\ container'[i].state = container[i].state
        /\ task[t].step = "start" => container'[n].state = container[n].state
        /\ wanted'[a] = wanted[a] /\ Of(a)' = Of(a)
    BY <1>3, <1>6 DEF SameApp
  <2>3. QED
    BY <1>2, <1>4, <1>5, <2>1, <2>2 DEF InHand, Running, Here, StateOf, AppOf
<1>7. CASE Turned(a)
  <2>1. PICK k \in Of(a) :
          /\ Of(a) = {k} /\ Of(a)' \subseteq {k}
          /\ \/ Running(k) /\ container'[k].state = "exited"
             \/ container'[k].state = "gone"
          /\ \A j \in Made : AppOf(j) = a /\ j # k =>
                               container'[j].state = container[j].state
    BY <1>7 DEF Turned
  <2>2. AsWanted(a)'  BY <1>7 DEF Turned
  <2>3. Of(a) # {}  BY <2>1
  <2>4. ~Running(i) => ~Running(i)'
    BY <1>2, <1>3, <2>1 DEF Running
  <2>5. ~Here(i) => ~Here(i)'
    BY <1>2, <1>3, <2>1 DEF Here, Of
  <2>6. StateOf(i) = "exited" => ~Here(i)'
    BY <1>2, <1>3, <2>1 DEF Here, Of, StateOf, Running
  <2>7. task[t].step = "start" => ~Here(n)'
    <3> SUFFICES ASSUME task[t].step = "start"  PROVE container'[n].state = "gone"
      BY <1>2 DEF Here
    <3>1. StateOf(n) = "created" \/ ~Here(n)  BY DEF InHand
    <3>2. QED  BY <1>3, <2>1, <3>1 DEF Here, Of, StateOf, Running
  <2>8. QED
    BY <1>2, <1>4, <1>5, <2>2, <2>3, <2>4, <2>5, <2>6, <2>7
    DEF InHand, AppOf
<1>8. QED  BY <1>6, <1>7, WorldTurns

LEMMA WorldSurvives ==
  ASSUME Undisturbed, SurviveInv, World  PROVE SurviveInv'
<1>1. TypeOK /\ TypeOK' /\ Kept
  BY UserTyped, PublishTyped, WatchTyped DEF World, SurviveInv
<1>2. OneContainer'  BY WorldOne DEF SurviveInv
<1>3. UNCHANGED task
  BY DEF World, Publish, UserStop, UserStart, UserRemove, Reap, Watch
<1>4. Active' = Active  BY <1>3 DEF Active
<1>5. \A t \in Active : /\ AppOf(task[t].id)' = AppOf(task[t].id)
                        /\ AppOf(task[t].id) \in App
  <2> SUFFICES ASSUME NEW t \in Active
               PROVE  /\ container'[task'[t].id].app = container[task[t].id].app
                      /\ container[task[t].id].app \in App
    BY DEF AppOf
  <2>1. task[t].id \in Made  BY <1>1 DEF TypeOK, TaskOK
  <2>2. QED  BY <1>1, <1>3, <2>1, MadeType DEF Kept, TypeOK, Container
<1>6. AllInHand'
  <2> SUFFICES ASSUME NEW t \in Active, AppOf(task[t].id) \notin AutoRemove
               PROVE  InHand(t, AppOf(task[t].id))'
    BY <1>4, <1>5 DEF AllInHand
  <2>1. PICK a \in App \ AutoRemove : a = AppOf(task[t].id)  BY <1>5
  <2>2. InHand(t, a)  BY <2>1 DEF SurviveInv, AllInHand
  <2>3. InHand(t, a)'
    BY <1>1, <2>1, <2>2, WorldHand DEF SurviveInv, Undisturbed
  <2>4. a = AppOf(task[t].id)'  BY <1>5, <2>1
  <2>5. QED  BY <2>3, <2>4 DEF InHand
<1>7. IdleAsWanted'
  <2> SUFFICES ASSUME NEW a \in App \ AutoRemove, ~Busy(a)'
               PROVE  AsWanted(a)'
    BY DEF IdleAsWanted
  <2>1. ~Busy(a)  BY <1>4, <1>5 DEF Busy
  <2>2. AsWanted(a)  BY <2>1 DEF SurviveInv, IdleAsWanted
  <2>3. SameApp(a) \/ Turned(a)
    BY <1>1, WorldTurns DEF SurviveInv, Undisturbed
  <2>4. QED  BY <1>1, <2>2, <2>3, SameAsWanted DEF Turned
<1>8. MadeIsOwn'
  <2> SUFFICES ASSUME NEW t \in Active, task[t].step = "start"
               PROVE  container'[task'[t].made].app = AppOf(task[t].id)'
    BY <1>3, <1>4 DEF MadeIsOwn, AppOf
  <2>1. task[t].made \in Made /\ AppOf(task[t].made) = AppOf(task[t].id)
    BY <1>1 DEF TypeOK, TaskOK, SurviveInv, MadeIsOwn
  <2>2. QED  BY <1>1, <1>3, <1>5, <2>1 DEF Kept, AppOf
<1>9. QED  BY <1>1, <1>2, <1>6, <1>7, <1>8 DEF SurviveInv

-------------------------------------------------------------------------------
(* The steps of the task. *)

\* A task that goes on to step s, its other fields as they are.
LEMMA GotoFields ==
  ASSUME TaskOK, NEW t \in Active, NEW s \in Steps, Goto(t, s)
  PROVE  /\ t \in Active' /\ task'[t].step = s
         /\ task'[t].id = task[t].id /\ task'[t].up = task[t].up
         /\ task'[t].made = task[t].made /\ task'[t].to = task[t].to
         /\ task'[t].kind = task[t].kind
<1> DEFINE r == [task[t] EXCEPT !.step = s]
<1>1. task[t] \in TaskRec /\ t \in Task  BY DEF TaskOK, Active
<1>2. /\ r \in TaskRec /\ r.step = s /\ r.id = task[t].id /\ r.up = task[t].up
      /\ r.made = task[t].made /\ r.to = task[t].to /\ r.kind = task[t].kind
  BY <1>1 DEF TaskRec
<1>3. task' = [task EXCEPT ![t] = r]  BY DEF Goto
<1> HIDE DEF r
<1>4. task'[t] = r  BY <1>1, <1>3 DEF TaskOK
<1>5. QED  BY <1>1, <1>2, <1>4, NoneAssumption DEF Active

LEMMA EndGone == ASSUME TaskOK, NEW t \in Task, End(t)  PROVE t \notin Active'
  BY DEF End, TaskOK, Active

\* A step that leaves the containers alone.
LEMMA QuietSame ==
  ASSUME UNCHANGED <<container, wanted>>, NEW a \in App
  PROVE  SameApp(a) /\ Of(a)' = Of(a) /\ (AsWanted(a)' <=> AsWanted(a))
  BY DEF SameApp, Of, Made, Here, AppOf, AsWanted, Up, Running

\* Through the steps before the pull, and through those after the start, the
\* application stays as users want it.
LEMMA QuietHand ==
  ASSUME TypeOK, NEW t \in Active, NEW a \in App, InHand(t, a),
         UNCHANGED <<container, wanted>>, t \in Active',
         task'[t].id = task[t].id, task'[t].up = task[t].up,
         \/ /\ task[t].step \in Before \ {"inspect", "pull"}
            /\ task'[t].step \in Before \ {"inspect"}
            /\ task'[t].step = "pull" =>
                 task'[t].kind = "update" \/ task[t].kind # "update"
         \/ task[t].step \in After /\ task'[t].step \in After
  PROVE  InHand(t, a)'
<1>1. AsWanted(a) /\ AsWanted(a)'  BY QuietSame DEF InHand
<1>2. SawDown(t)' => SawDown(t)  BY DEF SawDown, IsUpdate, Before, After
<1>3. SawDown(t)' => ~Running(task[t].id)'  BY <1>2 DEF InHand, Running
<1>4. ~Needs(t)'  BY DEF Needs, Before, After
<1>5. QED  BY <1>1, <1>3, <1>4 DEF InHand, Before, After, Running

\* What the daemon did for a task that goes on, in the terms of InHand.
LEMMA HandInspect ==
  ASSUME TypeOK, NEW t \in Active, NEW a \in App, InHand(t, a), Inspect(t)
  PROVE  (t \in Active' => InHand(t, a)') /\ (t \notin Active' => AsWanted(a)')
<1>1. /\ task[t] \in TaskRec /\ t \in Task /\ task[t].step = "inspect"
      /\ task \in [Task -> {None} \cup TaskRec]
  BY DEF Active, TypeOK, TaskOK, Inspect, At
<1>2. UNCHANGED <<container, wanted, images>>
  BY DEF Inspect, daemonVars, userVars
<1>3. AsWanted(a) /\ AsWanted(a)'  BY <1>1, <1>2, QuietSame DEF InHand, Before
<1>4. CASE Fail(t)
  BY <1>1, <1>3, <1>4, EndGone DEF Fail, TypeOK
<1>5. CASE ~Fail(t)
  <2> DEFINE b == Running(task[t].id)
             s == IF ~IsUpdate(t) THEN BeforeStop(b)
                  ELSE IF Gate THEN "verify" ELSE "hook"
             r == [task[t] EXCEPT !.up = b, !.step = s]
  <2>0. b \in BOOLEAN /\ s \in Steps
    BY DEF Running, BeforeStop, Steps
  <2>1. task' = [task EXCEPT ![t] = r]  BY <1>5 DEF Inspect
  <2>2. /\ r \in TaskRec /\ r.step = s /\ r.up = b /\ r.kind = task[t].kind
        /\ r.id = task[t].id /\ r.to = task[t].to
    <3> HIDE DEF s, b
    <3>1. QED  BY <1>1, <2>0 DEF TaskRec
  <2>3. task'[t] = r
    <3> HIDE DEF r
    <3>1. QED  BY <1>1, <2>1
  <2>4. /\ s \in {"stop", "remove", "verify", "hook"}
        /\ s = "stop" => b
        /\ s = "remove" => ~b
        /\ s \in {"stop", "remove"} => ~IsUpdate(t)
    BY DEF BeforeStop
  <2> HIDE DEF r, s
  <2>5. SawDown(t)' => ~Running(task[t].id)'
    BY <1>2, <2>2, <2>3 DEF SawDown, Running
  <2>6. Needs(t)' => Needs(t)
    BY <1>1, <2>2, <2>3, <2>4 DEF Needs, IsUpdate
  <2>7. task'[t].step = s /\ task'[t].up = b /\ task'[t].id = task[t].id
        /\ task'[t].to = task[t].to
    BY <2>2, <2>3
  <2>8. InHand(t, a)'
    BY <1>2, <1>3, <2>4, <2>5, <2>6, <2>7 DEF InHand, Before, After
  <2>9. t \in Active'
    BY <1>1, <2>2, <2>3, NoneAssumption DEF Active
  <2>10. QED  BY <2>8, <2>9
<1>6. QED  BY <1>4, <1>5

LEMMA HandEarly ==
  ASSUME TypeOK, NEW t \in Active, NEW a \in App, InHand(t, a),
         \/ Verify(t) \/ Scan(t) \/ Sbom(t) \/ PreHook(t) \/ ListImages(t)
         \/ PruneImages(t) \/ Backup(t)
  PROVE  (t \in Active' => InHand(t, a)') /\ (t \notin Active' => AsWanted(a)')
<1>1. /\ task[t] \in TaskRec /\ t \in Task /\ TaskOK
      /\ task \in [Task -> {None} \cup TaskRec]
  BY DEF Active, TypeOK, TaskOK
<1>2. UNCHANGED <<container, wanted>>
  BY DEF Verify, Scan, Sbom, PreHook, ListImages, PruneImages, Backup,
     daemonVars, userVars
<1>3. task[t].step \in Before \ {"inspect", "pull"}
  BY DEF Verify, Scan, Sbom, PreHook, ListImages, PruneImages, Backup, At, Before
<1>4. AsWanted(a)'  BY <1>2, <1>3, QuietSame DEF InHand
<1>5. ASSUME NEW s \in Before \ {"inspect"}, task'[t].step = s,
             task'[t].id = task[t].id, task'[t].up = task[t].up,
             task'[t].kind = task[t].kind, t \in Active'
      PROVE  InHand(t, a)'
  BY <1>2, <1>3, <1>5, QuietHand
<1>6. ASSUME NEW s \in Before \ {"inspect"}, Goto(t, s)
      PROVE  InHand(t, a)' /\ t \in Active'
  <2>1. s \in Steps  BY DEF Before, Steps
  <2>2. QED  BY <1>1, <1>5, <1>6, <2>1, GotoFields
<1>7. CASE Fail(t)  BY <1>1, <1>4, <1>7, EndGone DEF Fail
<1>8. CASE Scan(t)
  <2>1. PICK bad \in BOOLEAN :
          task' = [task EXCEPT ![t].blocked = bad, ![t].step = "sbom"]
    BY <1>8 DEF Scan
  <2>2. /\ task'[t].step = "sbom" /\ task'[t].id = task[t].id
        /\ task'[t].up = task[t].up /\ task'[t].kind = task[t].kind
    BY <1>1, <2>1 DEF TaskRec
  <2>3. CASE t \in Active'  BY <1>5, <2>2, <2>3 DEF Before
  <2>4. QED  BY <1>4, <2>3
<1>9. CASE ListImages(t)
  <2> DEFINE d == images \ {task[t].from, task[t].to}
  <2>1. task' = [task EXCEPT ![t].doomed = d, ![t].step = "prune"]
    BY <1>9 DEF ListImages
  <2> HIDE DEF d
  <2>2. /\ task'[t].step = "prune" /\ task'[t].id = task[t].id
        /\ task'[t].up = task[t].up /\ task'[t].kind = task[t].kind
    BY <1>1, <2>1 DEF TaskRec
  <2>3. CASE t \in Active'  BY <1>5, <2>2, <2>3 DEF Before
  <2>4. QED  BY <1>4, <2>3
<1>10. CASE ~Fail(t) /\ ~Scan(t) /\ ~ListImages(t)
  <2>1. PICK s \in {"scan", "hook", "list", "backup", "pull"} : Goto(t, s)
    BY <1>10 DEF Verify, Sbom, PreHook, PruneImages, Backup
  <2>2. QED  BY <1>6, <2>1 DEF Before
<1>11. QED  BY <1>7, <1>8, <1>9, <1>10

LEMMA HandPull ==
  ASSUME TypeOK, NEW t \in Active, NEW a \in App, InHand(t, a), Pull(t)
  PROVE  (t \in Active' => InHand(t, a)') /\ (t \notin Active' => AsWanted(a)')
<1>1. t \in Task /\ TaskOK /\ task[t].step = "pull"
  BY DEF Active, TypeOK, TaskOK, Pull, At
<1>2. UNCHANGED <<container, wanted>>  BY DEF Pull, userVars
<1>3. AsWanted(a) /\ AsWanted(a)'  BY <1>1, <1>2, QuietSame DEF InHand, Before
<1>4. CASE End(t)  BY <1>1, <1>3, <1>4, EndGone
<1>5. CASE ~End(t)
  <2> DEFINE s == IF IsUpdate(t) THEN BeforeStop(task[t].up) ELSE "inspect"
  <2>1. Goto(t, s) /\ task[t].to \in images'
    BY <1>5 DEF Pull, Fail
  <2>2. /\ s \in {"stop", "remove", "inspect"}
        /\ IsUpdate(t) => s # "inspect" /\ (s = "stop" <=> task[t].up)
        /\ ~IsUpdate(t) => s = "inspect"
    BY DEF BeforeStop
  <2> HIDE DEF s
  <2>3. s \in Steps  BY <2>2 DEF Steps
  <2>4. /\ t \in Active' /\ task'[t].step = s
        /\ task'[t].id = task[t].id /\ task'[t].up = task[t].up
        /\ task'[t].to = task[t].to /\ task'[t].kind = task[t].kind
    BY <1>1, <2>1, <2>3, GotoFields
  <2>5. SawDown(t)' => SawDown(t)
    BY <1>1, <2>2, <2>4 DEF SawDown, IsUpdate, Before
  <2>6. SawDown(t)' => ~Running(task[t].id)'
    BY <1>2, <2>4, <2>5 DEF InHand, Running
  <2>7. QED
    BY <1>3, <2>1, <2>2, <2>4, <2>6 DEF InHand, Before, After
<1>6. QED  BY <1>4, <1>5

LEMMA HandStop ==
  ASSUME TypeOK, NEW t \in Active, NEW a \in App, InHand(t, a), Stop(t),
         a = AppOf(task[t].id)
  PROVE  (t \in Active' => InHand(t, a)') /\ (t \notin Active' => AsWanted(a)')
<1>1. /\ t \in Task /\ TaskOK /\ task[t].step = "stop" /\ task[t].id \in Made
      /\ wanted[a] \in {"up", "down", "removed"}
  BY DEF Active, TypeOK, TaskOK, UserOK, Stop, At
<1>2. UNCHANGED <<wanted, images>>  BY DEF Stop, userVars
<1>3. AsWanted(a) /\ task[t].up  BY <1>1 DEF InHand
<1>4. CASE Fail(t) /\ UNCHANGED container
  BY <1>1, <1>2, <1>3, <1>4, QuietSame, EndGone DEF Fail
<1>5. CASE ~(Fail(t) /\ UNCHANGED container)
  <2>1. Running(task[t].id) /\ SetState(task[t].id, "exited") /\ Goto(t, "remove")
    BY <1>5 DEF Stop
  <2>2. /\ t \in Active' /\ task'[t].step = "remove"
        /\ task'[t].id = task[t].id /\ task'[t].up = task[t].up
        /\ task'[t].to = task[t].to
    BY <1>1, <2>1, GotoFields DEF Steps
  <2>3. container'[task[t].id].state = "exited"
    BY <1>1, <2>1, SetStateOf DEF TypeOK, ContainerState
  <2>4. task[t].id \in Of(a)  BY <1>1, <2>1 DEF Of, Running, Here
  <2>5. wanted[a] = "up"  BY <1>1, <1>3, <2>1, <2>4 DEF AsWanted, Up
  <2>6. Needs(t)  BY <1>1 DEF Needs
  <2>7. QED
    BY <1>2, <1>3, <2>2, <2>3, <2>5, <2>6
    DEF InHand, SawDown, Before, After, StateOf
<1>6. QED  BY <1>4, <1>5

LEMMA HandRemove ==
  ASSUME TypeOK, OneContainer, Reliable, NEW t \in Active, NEW a \in App,
         InHand(t, a), RemoveOld(t), a = AppOf(task[t].id)
  PROVE  (t \in Active' => InHand(t, a)') /\ (t \notin Active' => AsWanted(a)')
<1> DEFINE st == container[task[t].id].state
<1>1. /\ t \in Task /\ TaskOK /\ task[t].step = "remove" /\ task[t].id \in Made
      /\ wanted[a] \in {"up", "down", "removed"} /\ task[t] \in TaskRec
  BY DEF Active, TypeOK, TaskOK, UserOK, RemoveOld, At
<1>2. UNCHANGED <<wanted, images>>  BY DEF RemoveOld, userVars
<1>3. \/ AsWanted(a) /\ (task[t].up => ~Here(task[t].id))
      \/ task[t].up /\ st = "exited" /\ wanted[a] = "up"
  BY <1>1 DEF InHand, StateOf
<1>4. ~task[t].up => ~Running(task[t].id)
  BY <1>1 DEF InHand, SawDown
<1>5. CASE st \notin {"created", "exited"}
  <2>1. Fail(t) /\ UNCHANGED container  BY <1>5 DEF RemoveOld
  <2>2. AsWanted(a)  BY <1>3, <1>5
  <2>3. QED  BY <1>1, <1>2, <2>1, <2>2, QuietSame, EndGone DEF Fail
<1>6. CASE st \in {"created", "exited"}
  <2>1. SetState(task[t].id, "gone") /\ Goto(t, "create")
    BY <1>6 DEF RemoveOld, MayFail, Reliable
  <2>2. /\ t \in Active' /\ task'[t].step = "create"
        /\ task'[t].id = task[t].id /\ task'[t].up = task[t].up
        /\ task'[t].to = task[t].to
    BY <1>1, <2>1, GotoFields DEF Steps
  <2>3. task[t].id \in Of(a)  BY <1>1, <1>6 DEF Of, Here
  <2>4. Of(a) = {task[t].id}  BY <2>3 DEF OneContainer
  <2>5. Of(a)' = {}
    BY <1>1, <2>1, <2>4, SetStateOf DEF TypeOK, ContainerState
  <2>6. wanted[a] = IF task[t].up THEN "up" ELSE "down"
    <3>1. CASE task[t].up  BY <1>3, <1>6, <3>1 DEF Here
    <3>2. CASE ~task[t].up
      <4>1. ~Up(a)  BY <1>4, <2>4, <3>2 DEF Up
      <4>2. QED  BY <1>1, <1>3, <2>3, <3>2, <4>1 DEF AsWanted
    <3>3. QED  BY <3>1, <3>2
  <2>7. Needs(t)  BY <1>1 DEF Needs
  <2>8. QED
    BY <1>2, <2>2, <2>5, <2>6, <2>7
    DEF InHand, SawDown, Before, After
<1>7. QED  BY <1>5, <1>6

\* The containers of an application after the creation of one.
LEMMA NewOf ==
  ASSUME TypeOK, NEW t \in Active, container' = New(t),
         Len(container) < MaxContainers, NEW a \in App
  PROVE  /\ Len(container) + 1 \in Made' /\ Len(container) + 1 \notin Made
         /\ container'[Len(container) + 1].state = "created"
         /\ container'[Len(container) + 1].app = AppOf(task[t].id)
         /\ \A j \in Made : container'[j].state = container[j].state
         /\ Of(a)' = IF AppOf(task[t].id) = a THEN Of(a) \cup {Len(container) + 1}
                     ELSE Of(a)
<1> DEFINE n == Len(container) + 1
           c == [app |-> AppOf(task[t].id), image |-> task[t].to,
                 state |-> "created"]
<1>1. task[t] \in TaskRec /\ task[t].id \in Made /\ t \in Task
  BY DEF Active, TypeOK, TaskOK
<1>2. c \in Container
  BY <1>1, MadeType DEF Container, TaskRec, AppOf, TypeOK
<1>3. /\ Made = 1..Len(container) /\ Len(container) \in Nat
      /\ container \in Seq(Container)
  BY MadeType, LenProperties DEF TypeOK, DaemonOK
<1>4. container' = Append(container, c)  BY DEF New
<1>5. /\ container' \in Seq(Container) /\ Len(container') = n
      /\ container'[n] = c
      /\ \A j \in 1..Len(container) : container'[j] = container[j]
  BY <1>2, <1>3, <1>4, AppendProperties
<1>6. Made' = Made \cup {n} /\ n \notin Made
  BY <1>3, <1>5, LenProperties DEF Made
<1>7. c.app = AppOf(task[t].id) /\ c.state = "created"  OBVIOUS
<1> HIDE DEF c
<1>8. Of(a)' = {j \in Made \cup {n} : container'[j].app = a
                                      /\ container'[j].state # "gone"}
  BY <1>6 DEF Of, AppOf, Here
<1>9. \A j \in Made : container'[j] = container[j]  BY <1>3, <1>5
<1>10. Of(a)' = IF AppOf(task[t].id) = a THEN Of(a) \cup {n} ELSE Of(a)
  BY <1>5, <1>6, <1>7, <1>8, <1>9 DEF Of, AppOf, Here
<1>11. QED  BY <1>5, <1>6, <1>7, <1>9, <1>10

LEMMA HandCreate ==
  ASSUME TypeOK, Reliable, NEW t \in Active, NEW a \in App,
         InHand(t, a), Create(t), a = AppOf(task[t].id)
  PROVE  (t \in Active' => InHand(t, a)') /\ (t \notin Active' => AsWanted(a)')
<1> DEFINE n == Len(container) + 1
<1>1. /\ t \in Task /\ TaskOK /\ task[t].step = "create"
      /\ task \in [Task -> {None} \cup TaskRec] /\ task[t] \in TaskRec
      /\ Len(container) < MaxContainers
  BY DEF Active, TypeOK, TaskOK, Create, At
<1>2. UNCHANGED <<wanted, images>>  BY DEF Create, userVars
<1>3. Of(a) = {} /\ wanted[a] = IF task[t].up THEN "up" ELSE "down"
  BY <1>1 DEF InHand
<1>4. NameFree(a)  BY <1>3 DEF NameFree, Of
<1>5. task[t].to \in images  BY <1>1 DEF InHand, Needs
<1>6. /\ container' = New(t)
      /\ task' = [task EXCEPT ![t].made = n, ![t].step = AfterCreate(t)]
  BY <1>4, <1>5 DEF Create, MayFail, Reliable
<1>7. /\ n \in Made' /\ container'[n].state = "created"
      /\ container'[n].app = a /\ Of(a)' = {n}
  BY <1>1, <1>3, <1>6, NewOf
<1>8. n \in Id
  BY <1>1, BoundsAssumption, LenProperties DEF Id, TypeOK, DaemonOK
<1> HIDE DEF n
<1>9. /\ task'[t].step = AfterCreate(t) /\ task'[t].made = n
      /\ task'[t].up = task[t].up
  BY <1>1, <1>6 DEF TaskRec
<1>10. CASE task[t].up
  <2>1. task'[t].step = "start"  BY <1>9, <1>10 DEF AfterCreate
  <2>2. t \in Active' => InHand(t, a)'
    BY <1>2, <1>3, <1>7, <1>9, <1>10, <2>1
    DEF InHand, SawDown, Before, After, AppOf, StateOf, Needs
  <2>3. t \in Active'
    <3>1. AfterCreate(t) \in Steps  BY DEF AfterCreate, Steps
    <3>3. [task[t] EXCEPT !.made = n, !.step = AfterCreate(t)] \in TaskRec
      BY <1>1, <1>8, <3>1 DEF TaskRec
    <3>4. task'[t] = [task[t] EXCEPT !.made = n, !.step = AfterCreate(t)]
      BY <1>1, <1>6
    <3>5. QED  BY <1>1, <3>3, <3>4, NoneAssumption DEF Active
  <2>4. QED  BY <2>2, <2>3
<1>11. CASE ~task[t].up
  <2>1. task'[t].step = "post"  BY <1>9, <1>11 DEF AfterCreate
  <2>2. ~Up(a)'  BY <1>7 DEF Up, Running
  <2>3. AsWanted(a)'  BY <1>2, <1>3, <1>7, <1>11, <2>2 DEF AsWanted
  <2>4. QED  BY <2>1, <2>3 DEF InHand, SawDown, Before, After, Needs
<1>12. QED  BY <1>10, <1>11

LEMMA HandStart ==
  ASSUME TypeOK, Reliable, NEW t \in Active, NEW a \in App,
         InHand(t, a), Start(t), a = AppOf(task[t].id)
  PROVE  (t \in Active' => InHand(t, a)') /\ (t \notin Active' => AsWanted(a)')
<1> DEFINE n == task[t].made
<1>1. /\ t \in Task /\ TaskOK /\ task[t].step = "start" /\ n \in Made
      /\ AppOf(n) = a
      /\ \/ StateOf(n) = "created" /\ wanted[a] = "up"
         \/ ~Here(n) /\ AsWanted(a)
  BY DEF Active, TypeOK, TaskOK, Start, At, InHand
<1>2. UNCHANGED <<wanted, images>>  BY DEF Start, userVars
<1>3. CASE ~Here(n)
  <2>1. Fail(t) /\ UNCHANGED container  BY <1>3 DEF Start, Here
  <2>2. AsWanted(a)  BY <1>1, <1>3 DEF StateOf, Here
  <2>3. QED  BY <1>1, <1>2, <2>1, <2>2, QuietSame, EndGone DEF Fail
<1>4. CASE Here(n)
  <2>1. StateOf(n) = "created" /\ wanted[a] = "up"  BY <1>1, <1>4
  <2>2. SetState(n, "running") /\ Goto(t, "post")
    BY <2>1 DEF Start, MayFail, Reliable, StateOf
  <2>3. t \in Active' /\ task'[t].step = "post"
    BY <1>1, <2>2, GotoFields DEF Steps
  <2>4. container'[n].state = "running" /\ n \in Of(a)'
    BY <1>1, <2>2, SetStateOf DEF TypeOK, ContainerState
  <2>5. Up(a)'
    <3>1. PICK k \in Made : k = n  BY <1>1
    <3>2. k \in Of(a)' /\ container'[k].state = "running"  BY <2>4, <3>1
    <3>3. QED  BY <3>2 DEF Up, Running
  <2>6. AsWanted(a)'  BY <1>2, <2>1, <2>5 DEF AsWanted
  <2>7. QED  BY <2>3, <2>6 DEF InHand, SawDown, Before, After, Needs
<1>5. QED  BY <1>3, <1>4

LEMMA HandLate ==
  ASSUME TypeOK, NEW t \in Active, NEW a \in App, InHand(t, a),
         \/ EndRollback(t) \/ PostHook(t) \/ CleanUp(t) \/ Monitor(t) \/ Applied(t)
  PROVE  (t \in Active' => InHand(t, a)') /\ (t \notin Active' => AsWanted(a)')
<1>1. /\ t \in Task /\ TaskOK /\ task[t].step \in After
      /\ task \in [Task -> {None} \cup TaskRec] /\ task[t] \in TaskRec
  BY DEF Active, TypeOK, TaskOK, EndRollback, PostHook, CleanUp, Monitor,
     Applied, At, After
<1>2. UNCHANGED <<container, wanted>>
  BY DEF EndRollback, PostHook, CleanUp, Monitor, Applied, daemonVars, userVars
<1>3. AsWanted(a)'  BY <1>1, <1>2, QuietSame DEF InHand
<1>4. t \in Active' => task'[t].step \in After
  <2>1. CASE End(t)  BY <1>1, <2>1, EndGone
  <2>2. CASE Monitor(t) /\ ~End(t)
    <3>1. task' = [task EXCEPT ![t].monitored = TRUE, ![t].step = "applied"]
      BY <2>2 DEF Monitor, Fail
    <3>2. task'[t].step = "applied"  BY <1>1, <3>1 DEF TaskRec
    <3>3. QED  BY <3>2 DEF After
  <2>3. CASE ~Monitor(t) /\ ~End(t)
    <3>1. PICK s \in {"cleanup", "monitor", "applied"} : Goto(t, s)
      BY <2>3 DEF EndRollback, PostHook, CleanUp, Applied, Fail, AfterCleanup
    <3>2. task'[t].step = s  BY <1>1, <3>1, GotoFields DEF Steps
    <3>3. QED  BY <3>2 DEF After
  <2>4. QED  BY <2>1, <2>2, <2>3
<1>5. QED  BY <1>3, <1>4 DEF InHand, SawDown, Before, After, Needs

LEMMA StepHand ==
  ASSUME TypeOK, OneContainer, Reliable, NEW t \in Active,
         NEW a \in App \ AutoRemove, a = AppOf(task[t].id), InHand(t, a),
         TaskStep(t)
  PROVE  (t \in Active' => InHand(t, a)') /\ (t \notin Active' => AsWanted(a)')
<1>1. ~StartWait(t) /\ ~EndWait(t)  BY DEF StartWait, EndWait, At, InHand
<1>2. QED
  BY <1>1, HandInspect, HandEarly, HandPull, HandStop, HandRemove, HandCreate,
     HandStart, HandLate DEF TaskStep

\* What a step of a task does to the containers.
LEMMA StepStates ==
  ASSUME TypeOK, NEW t \in Task, TaskStep(t)
  PROVE  /\ t \in Active /\ wanted' = wanted
         /\ \/ UNCHANGED container
            \/ \E i \in Made, s \in ContainerState :
                 /\ SetState(i, s) /\ Here(i)
                 /\ \/ i = task[t].id
                    \/ i = task[t].made /\ task[t].step = "start"
            \/ /\ container' = New(t) /\ Len(container) < MaxContainers
               /\ NameFree(AppOf(task[t].id))
<1>1. /\ t \in Active /\ task[t].id \in Made
      /\ task[t].step = "start" => task[t].made \in Made
  BY DEF TaskStep, Inspect, Verify, Scan, Sbom, PreHook, ListImages, PruneImages,
     Backup, Pull, Stop, RemoveOld, StartWait, EndWait, Create, Start,
     EndRollback, PostHook, CleanUp, Monitor, Applied, At, Active, TypeOK, TaskOK
<1>2. wanted' = wanted
  BY DEF TaskStep, Inspect, Verify, Scan, Sbom, PreHook, ListImages, PruneImages,
     Backup, Pull, Stop, RemoveOld, StartWait, EndWait, Create, Start,
     EndRollback, PostHook, CleanUp, Monitor, Applied, userVars
<1>3. CASE Stop(t) \/ RemoveOld(t) \/ Start(t)
  <2> SUFFICES ASSUME ~UNCHANGED container
               PROVE  \E i \in Made, s \in ContainerState :
                        /\ SetState(i, s) /\ Here(i)
                        /\ \/ i = task[t].id
                           \/ i = task[t].made /\ task[t].step = "start"
    BY <1>1, <1>2
  <2>1. CASE Stop(t)
    <3>1. SetState(task[t].id, "exited") /\ Here(task[t].id)
      BY <2>1 DEF Stop, Running, Here
    <3>2. QED  BY <1>1, <3>1 DEF ContainerState
  <2>2. CASE RemoveOld(t)
    <3>1. SetState(task[t].id, "gone") /\ Here(task[t].id)
      BY <2>2 DEF RemoveOld, Here
    <3>2. QED  BY <1>1, <3>1 DEF ContainerState
  <2>3. CASE Start(t)
    <3>1. /\ SetState(task[t].made, "running") /\ Here(task[t].made)
          /\ task[t].step = "start"
      BY <2>3 DEF Start, Here, At
    <3>2. QED  BY <1>1, <3>1 DEF ContainerState
  <2>4. QED  BY <1>3, <2>1, <2>2, <2>3
<1>4. CASE Create(t)
  BY <1>1, <1>2, <1>4, SMTT(30) DEF Create
<1>5. CASE ~Stop(t) /\ ~RemoveOld(t) /\ ~Start(t) /\ ~Create(t)
  BY <1>1, <1>2, <1>5
  DEF TaskStep, Inspect, Verify, Scan, Sbom, PreHook, ListImages, PruneImages,
     Backup, Pull, StartWait, EndWait, EndRollback, PostHook, CleanUp, Monitor,
     Applied, daemonVars
<1>6. QED  BY <1>3, <1>4, <1>5, SMTT(30)

LEMMA StepOne ==
  ASSUME TypeOK, OneContainer, NEW t \in Task, TaskStep(t)  PROVE OneContainer'
<1> SUFFICES ASSUME NEW a \in App  PROVE \A i, j \in Of(a)' : i = j
  BY DEF OneContainer
<1>1. CASE UNCHANGED container
  BY <1>1 DEF OneContainer, Of, Made, Here, AppOf
<1>2. ASSUME NEW i \in Made, NEW s \in ContainerState, SetState(i, s), Here(i)
      PROVE  Of(a)' \subseteq Of(a)
  BY <1>2, SetStateOf DEF TypeOK, Of
<1>3. CASE /\ container' = New(t) /\ Len(container) < MaxContainers
           /\ NameFree(AppOf(task[t].id))
  <2>1. Of(a)' = IF AppOf(task[t].id) = a THEN Of(a) \cup {Len(container) + 1}
                 ELSE Of(a)
    BY <1>3, StepStates, NewOf
  <2>2. AppOf(task[t].id) = a => Of(a) = {}  BY <1>3 DEF NameFree, Of
  <2>3. QED  BY <2>1, <2>2 DEF OneContainer
<1>4. QED  BY <1>1, <1>2, <1>3, StepStates DEF OneContainer

\* Other applications are left alone.
LEMMA StepOthers ==
  ASSUME TypeOK, NEW t \in Task, TaskStep(t), NEW a \in App,
         AppOf(task[t].id) # a,
         task[t].step = "start" => AppOf(task[t].made) # a
  PROVE  SameApp(a)
<1>1. CASE UNCHANGED container
  BY <1>1, StepStates, QuietSame
<1>2. ASSUME NEW i \in Made, NEW s \in ContainerState, SetState(i, s),
             AppOf(i) # a
      PROVE  SameApp(a)
  BY <1>2, StepStates, SetStateOf DEF TypeOK, SameApp
<1>3. CASE container' = New(t) /\ Len(container) < MaxContainers
  BY <1>3, StepStates, NewOf DEF SameApp
<1>4. QED  BY <1>1, <1>2, <1>3, StepStates

\* A task starts the container it has just made.
LEMMA StepMade ==
  ASSUME TypeOK, NEW t \in Task, TaskStep(t), t \in Active',
         task'[t].step = "start"
  PROVE  container'[task'[t].made].app = AppOf(task[t].id)
<1>1. /\ t \in Active /\ TaskOK /\ task[t] \in TaskRec
      /\ task \in [Task -> {None} \cup TaskRec]
  BY StepStates DEF TypeOK, TaskOK, Active
<1>2. ~End(t)  BY <1>1, EndGone
<1>3. ASSUME NEW s \in Steps \ {"start"}  PROVE ~Goto(t, s)
  BY <1>1, <1>3, GotoFields
<1>4. CASE Create(t)
  <2> DEFINE n == Len(container) + 1
             s == AfterCreate(t)
  <2>1. /\ container' = New(t) /\ Len(container) < MaxContainers
        /\ task' = [task EXCEPT ![t].made = n, ![t].step = s]
    BY <1>2, <1>4 DEF Create, Fail
  <2>2. task'[t].made = n
    <3> HIDE DEF n, s
    <3>1. QED  BY <1>1, <2>1 DEF TaskRec
  <2>3. AppOf(task[t].id) \in App
    BY <1>1, MadeType DEF TypeOK, TaskOK, AppOf, Container
  <2>4. container'[n].app = AppOf(task[t].id)  BY <1>1, <2>1, <2>3, NewOf
  <2>5. QED  BY <2>2, <2>4
<1>5. CASE Inspect(t)
  <2> DEFINE b == Running(task[t].id)
             s == IF ~IsUpdate(t) THEN BeforeStop(b)
                  ELSE IF Gate THEN "verify" ELSE "hook"
  <2>1. task' = [task EXCEPT ![t].up = b, ![t].step = s]
    BY <1>2, <1>5 DEF Inspect, Fail
  <2>2. s # "start"  BY DEF BeforeStop
  <2> HIDE DEF b, s
  <2>3. QED  BY <1>1, <2>1, <2>2 DEF TaskRec
<1>6. CASE Scan(t)
  <2>1. PICK bad \in BOOLEAN :
          task' = [task EXCEPT ![t].blocked = bad, ![t].step = "sbom"]
    BY <1>6 DEF Scan
  <2>2. QED  BY <1>1, <2>1 DEF TaskRec
<1>7. CASE ListImages(t)
  <2> DEFINE d == images \ {task[t].from, task[t].to}
  <2>1. task' = [task EXCEPT ![t].doomed = d, ![t].step = "prune"]
    BY <1>7 DEF ListImages
  <2> HIDE DEF d
  <2>2. QED  BY <1>1, <2>1 DEF TaskRec
<1>8. CASE Monitor(t)
  <2>1. task' = [task EXCEPT ![t].monitored = TRUE, ![t].step = "applied"]
    BY <1>2, <1>8 DEF Monitor, Fail
  <2>2. QED  BY <1>1, <2>1 DEF TaskRec
<1>9. CASE ~Create(t) /\ ~Inspect(t) /\ ~Scan(t) /\ ~ListImages(t) /\ ~Monitor(t)
  <2>1. PICK s \in Steps \ {"start"} : Goto(t, s)
    BY <1>2, <1>9
    DEF TaskStep, Verify, Sbom, PreHook, PruneImages, Backup, Pull, Stop,
        RemoveOld, StartWait, EndWait, Start, EndRollback, PostHook, CleanUp,
        Applied, Fail, BeforeStop, AfterCleanup, Steps
  <2>2. QED  BY <1>3, <2>1
<1>10. QED  BY <1>4, <1>5, <1>6, <1>7, <1>8, <1>9

LEMMA StepSurvives ==
  ASSUME Undisturbed, SurviveInv, NEW t \in Task, TaskStep(t)
  PROVE  SurviveInv'
<1>1. TypeOK /\ TypeOK' /\ Kept /\ OneContainer /\ MadeIsOwn
  BY StepTyped DEF SurviveInv
<1>2. OneContainer'  BY <1>1, StepOne
<1>3. t \in Active /\ Continues  BY <1>1, StepStates, StepContinues
<1>4. Active = {t} /\ Active' \subseteq {t}
  BY <1>3 DEF Active, Undisturbed, OneTask
<1>5. PICK a \in App : a = AppOf(task[t].id)
  BY <1>1, <1>3, MadeType DEF TypeOK, TaskOK, AppOf, Container
<1>6. t \in Active' => AppOf(task[t].id)' = a
  <2> SUFFICES ASSUME t \in Active'  PROVE container'[task'[t].id].app = a
    BY DEF AppOf
  <2>1. task'[t].id = task[t].id  BY <1>3 DEF Continues
  <2>2. task[t].id \in Made  BY <1>1, <1>3 DEF TypeOK, TaskOK
  <2>3. QED  BY <1>1, <1>5, <2>1, <2>2 DEF Kept, AppOf
<1>7. a \notin AutoRemove =>
        (t \in Active' => InHand(t, a)') /\ (t \notin Active' => AsWanted(a)')
  BY <1>1, <1>3, <1>5, StepHand DEF SurviveInv, AllInHand, Undisturbed
<1>8. AllInHand'
  BY <1>4, <1>5, <1>6, <1>7 DEF AllInHand
<1>9. IdleAsWanted'
  <2> SUFFICES ASSUME NEW b \in App \ AutoRemove, ~Busy(b)'  PROVE AsWanted(b)'
    BY DEF IdleAsWanted
  <2>1. CASE b = a
    <3>1. t \notin Active'  BY <1>6, <2>1 DEF Busy
    <3>2. QED  BY <1>7, <2>1, <3>1
  <2>2. CASE b # a
    <3>1. ~Busy(b)  BY <1>4, <1>5, <2>2 DEF Busy
    <3>2. AsWanted(b)  BY <3>1 DEF SurviveInv, IdleAsWanted
    <3>3. SameApp(b)
      BY <1>1, <1>3, <1>5, <2>2, StepOthers DEF MadeIsOwn
    <3>4. QED  BY <1>1, <3>2, <3>3, SameAsWanted
  <2>3. QED  BY <2>1, <2>2
<1>10. MadeIsOwn'
  <2> SUFFICES ASSUME t \in Active', task'[t].step = "start"
               PROVE  AppOf(task[t].made)' = AppOf(task[t].id)'
    BY <1>4 DEF MadeIsOwn
  <2>1. container'[task'[t].made].app = a  BY <1>1, <1>5, StepMade
  <2>2. QED  BY <1>6, <2>1 DEF AppOf
<1>11. QED  BY <1>1, <1>2, <1>8, <1>9, <1>10 DEF SurviveInv

LEMMA StartSurvives ==
  ASSUME Undisturbed, SurviveInv, NEW t \in Task, NEW i \in Made,
         StartUpdate(t, i) \/ StartRollback(t, i)
  PROVE  SurviveInv'
<1>1. TypeOK /\ TypeOK' /\ Kept  BY StartTyped DEF SurviveInv
<1>2. UNCHANGED <<container, images, wanted>> /\ task[t] = None
  BY DEF StartUpdate, StartRollback, daemonVars, userVars
<1>3. Active = {} /\ Active' \subseteq {t}
  BY <1>2 DEF Active, Undisturbed, OneTask
<1>4. \A a \in App \ AutoRemove : AsWanted(a)
  BY <1>3 DEF SurviveInv, IdleAsWanted, Busy
<1>5. \A a \in App : AsWanted(a)' <=> AsWanted(a)  BY <1>2, QuietSame
<1>6. /\ task'[t].id = i /\ ~task'[t].up
      /\ \/ task'[t].step = "inspect" /\ task'[t].kind = "update"
         \/ task'[t].step = "pull" /\ task'[t].kind = "rollback"
  <2>1. CASE StartUpdate(t, i)
    <3> DEFINE n == NewTask("update", i, doc[i].tag, doc[i].to, "inspect")
    <3>1. task' = [task EXCEPT ![t] = n]  BY <2>1 DEF StartUpdate
    <3>2. n.kind = "update" /\ n.step = "inspect" /\ n.id = i /\ ~n.up
      BY DEF NewTask
    <3> HIDE DEF n
    <3>3. task'[t] = n  BY <1>1, <3>1 DEF TypeOK, TaskOK
    <3>4. QED  BY <3>2, <3>3
  <2>2. CASE StartRollback(t, i)
    <3>1. PICK k \in DOMAIN backups[i] :
            task' = [task EXCEPT ![t] =
                       NewTask("rollback", i, doc[i].tag, backups[i][k], "pull")]
      BY <2>2 DEF StartRollback
    <3> DEFINE n == NewTask("rollback", i, doc[i].tag, backups[i][k], "pull")
    <3>2. task' = [task EXCEPT ![t] = n]  BY <3>1
    <3>3. n.kind = "rollback" /\ n.step = "pull" /\ n.id = i /\ ~n.up
      BY DEF NewTask
    <3> HIDE DEF n
    <3>4. task'[t] = n  BY <1>1, <3>2 DEF TypeOK, TaskOK
    <3>5. QED  BY <3>3, <3>4
  <2>3. QED  BY <2>1, <2>2
<1>7. AppOf(i) \in App /\ AppOf(task[t].id)' = AppOf(i)
  BY <1>1, <1>2, <1>6, MadeType DEF TypeOK, AppOf, Container
<1>8. ~SawDown(t)' /\ ~Needs(t)'
  BY <1>6 DEF SawDown, Needs, IsUpdate
<1>9. AllInHand'
  <2>1. PICK a \in App : a = AppOf(i)  BY <1>7
  <2>2. ASSUME a \notin AutoRemove  PROVE InHand(t, a)'
    <3>1. AsWanted(a)'  BY <1>4, <1>5, <2>2
    <3>2. QED  BY <1>6, <1>8, <3>1 DEF InHand, Before, After
  <2>3. QED  BY <1>3, <1>7, <2>1, <2>2 DEF AllInHand
<1>10. IdleAsWanted'  BY <1>4, <1>5 DEF IdleAsWanted
<1>11. OneContainer'
  BY <1>2, QuietSame DEF SurviveInv, OneContainer
<1>12. MadeIsOwn'  BY <1>3, <1>6 DEF MadeIsOwn
<1>13. QED  BY <1>1, <1>9, <1>10, <1>11, <1>12 DEF SurviveInv

LEMMA SurviveInductive ==
  ASSUME Undisturbed, SurviveInv, [Next]_vars  PROVE SurviveInv'
<1>1. CASE World  BY <1>1, WorldSurvives
<1>2. CASE \E t \in Task : TaskStep(t) \/ \E i \in Made : StartUpdate(t, i)
                                                    \/ StartRollback(t, i)
  BY <1>2, StepSurvives, StartSurvives
<1>3. CASE UNCHANGED vars
  <2>1. UNCHANGED <<container, images, task, wanted>>
    BY <1>3 DEF vars, daemonVars, userVars
  <2>2. TypeOK'  BY NextTyped DEF SurviveInv
  <2>3. Active' = Active  BY <2>1 DEF Active
  <2>4. \A a \in App : AsWanted(a)' <=> AsWanted(a)  BY <2>1, QuietSame
  <2>5. OneContainer' /\ MadeIsOwn'
    BY <2>1, <2>3, QuietSame DEF SurviveInv, OneContainer, MadeIsOwn, AppOf
  <2>6. \A a \in App : Busy(a)' <=> Busy(a)  BY <2>1, <2>3 DEF Busy, AppOf
  <2>7. IdleAsWanted'  BY <2>4, <2>6, SMTT(30) DEF SurviveInv, IdleAsWanted
  <2>8. AllInHand'
    BY <2>1, <2>3
    DEF SurviveInv, AllInHand, InHand, AsWanted, Up, Of, Made, Here, Running,
        AppOf, StateOf, SawDown, Needs, IsUpdate
  <2>9. QED  BY <2>2, <2>5, <2>7, <2>8 DEF SurviveInv
<1>4. QED  BY <1>1, <1>2, <1>3 DEF Next

LEMMA SurviveInit == ASSUME Init  PROVE SurviveInv
<1>1. TypeOK /\ Active = {}  BY InitTyped DEF Init, Active
<1>2. \A a \in App : Of(a) = {a} /\ Running(a) /\ wanted[a] = "up"
  BY DEF Init, Of, Made, Here, AppOf, Running
<1>3. QED
  BY <1>1, <1>2
  DEF SurviveInv, OneContainer, MadeIsOwn, AllInHand, IdleAsWanted, AsWanted, Up

(***************************************************************************)
(* An update or a rollback, however it ends, leaves the application as its *)
(* users want it: running if it ran, stopped or removed if a user did that *)
(* meanwhile.                                                              *)
(***************************************************************************)
THEOREM Survives == ASSUME Undisturbed  PROVE Spec => []AppSurvives
<1>1. Init => SurviveInv  BY SurviveInit
<1>2. SurviveInv /\ [Next]_vars => SurviveInv'  BY SurviveInductive
<1>3. SurviveInv => AppSurvives
  <2> SUFFICES ASSUME SurviveInv, NEW a \in App \ AutoRemove, ~Busy(a)
               PROVE  CASE wanted[a] = "up" -> Up(a)
                        [] wanted[a] = "down" -> Of(a) # {} /\ ~Up(a)
                        [] wanted[a] = "removed" -> Of(a) = {}
    BY DEF AppSurvives
  <2>1. AsWanted(a) /\ wanted[a] \in {"up", "down", "removed"}
    BY DEF SurviveInv, IdleAsWanted, TypeOK, UserOK
  <2>2. QED  BY <2>1 DEF AsWanted
<1>4. QED  BY <1>1, <1>2, <1>3, PTL DEF Spec
===============================================================================
