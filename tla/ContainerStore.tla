---------------------------- MODULE ContainerStore ----------------------------
(***************************************************************************)
(* The container store of drydock (app/store/container.ts) under all the   *)
(* tasks that read it, wait for Docker, a registry or a scanner, and write *)
(* back what they read: the watch cycles of the Docker watcher, the single *)
(* watch of the API, the inspections that Docker events start, the pruning *)
(* of old containers, and the API's policy, delete, scan and action calls. *)
(*                                                                         *)
(* Node runs one task at a time and switches only at an await, so every    *)
(* action below is the code between two awaits.  A document field that     *)
(* is not an own property of the object is Absent, one whose value is      *)
(* undefined is None: updateContainer tells the two apart.                 *)
(***************************************************************************)
EXTENDS Naturals, Sequences

CONSTANTS
  Id,        \* Docker container ids
  Name,      \* "{watcher}_{name}" keys
  NameOf,    \* the key of a container: a re-created container keeps its name
  Result,    \* what a registry lookup can find (tag, digest, created)
  Current,   \* the result that equals the image a container runs
  Security,  \* security states a scan can produce
  Watch,     \* slots for watch runs in flight (cron, debounced, API)
  Event,     \* slots for Docker events in flight; bounds their number
  Job,       \* slots for API or trigger calls in flight
  Calls,     \* the API and trigger calls that are made: a subset of AllCalls
  Flaky,     \* TRUE: a Docker inspect may fail although the container exists
  None, Absent, Error

Slow  == {"scan", "action", "gate"}        \* calls that wait before they write
AllCalls == Slow \cup {"watch", "policy", "delete"}

ASSUME CurrentAssumption == Current \in Result
ASSUME NameAssumption    == NameOf \in [Id -> Name]
ASSUME CallsAssumption   == Calls \subseteq AllCalls /\ Flaky \in BOOLEAN
ASSUME SentinelAssumption ==
  /\ None # Absent /\ None # Error
  /\ {None, Absent, Error} \cap (Id \cup Result \cup Security) = {}

Status == {"running", "exited"}
Policy == SUBSET Result        \* skipTags of an update policy

ASSUME StatusAssumption == {None, Error} \cap Status = {}

Doc == [result : Result \cup {None}, error : BOOLEAN, status : Status,
        updatePolicy : {None, Absent} \cup Policy,
        security : Security \cup {None, Absent}]

VARIABLES
  docker,     \* the Docker daemon: "none", a status, or "gone" for ever
  remote,     \* what the registry offers now
  db,         \* the containers collection: for each id, its documents
  cache,      \* securityStateCache
  pc,         \* where each watch run is
  listed,     \* containers the daemon listed, with their status
  copy,       \* containers a watch run works on
  old,        \* store copies still to be pruned
  asked,      \* what the inspect of a prune answered
  answer,     \* what the registry answered
  only,       \* the container of an API watch, None for a full watch
  event,      \* Docker events in flight
  job,        \* API and trigger calls in flight
  announced,  \* history: ids an added event announced and no removed event
  notified,   \* history: results a once-only trigger was told of
  skipped,    \* history: results some policy ever suppressed
  answered,   \* history: the last answer a report applied
  repeated    \* history: results notified again without a new answer

dockerVars == <<docker, remote>>
storeVars  == <<db, cache, announced>>
watchVars  == <<pc, listed, copy, old, asked, answer, only>>
taskVars   == <<event, job>>
history    == <<notified, skipped, answered, repeated>>
vars == <<dockerVars, storeVars, watchVars, taskVars, history>>

Nothing == [i \in Id |-> None]

-------------------------------------------------------------------------------
(* app/model/container.ts: the computed properties of a container. *)

HasUpdate(d)  == d.result \notin {None, Current}
Suppressed(d) == /\ d.updatePolicy \notin {None, Absent}
                 /\ d.result \in d.updatePolicy
UpdateAvailable(d) == HasUpdate(d) /\ ~Suppressed(d)

(* app/store/container.ts *)

Stored(i)   == db[i] # <<>>
Get(i)      == Head(db[i])
HasOwn(v)   == v # Absent
Falsy(v)    == v \in {None, Absent}
Get0(v)     == IF v = Absent THEN None ELSE v

\* The document updateContainer saves: what the caller left out is kept.
Merged(i, d) ==
  LET kept(own, cur) == IF HasOwn(own) THEN own
                        ELSE IF Stored(i) THEN Get0(cur) ELSE None
  IN [d EXCEPT !.updatePolicy = kept(@, Get(i).updatePolicy),
               !.security     = kept(@, Get(i).security)]

UpdateContainer(i, d) ==
  /\ db' = [db EXCEPT ![i] = <<Merged(i, d)>>]
  /\ UNCHANGED <<cache, announced>>

TakesCached(i, d) == ~Falsy(cache[NameOf[i]]) /\ Falsy(d.security)
WithCached(i, d) ==
  IF TakesCached(i, d) THEN [d EXCEPT !.security = cache[NameOf[i]]] ELSE d

InsertContainer(i, d) ==
  /\ db' = [db EXCEPT ![i] = Append(@, WithCached(i, d))]
  /\ cache' = IF TakesCached(i, d) THEN [cache EXCEPT ![NameOf[i]] = None]
              ELSE cache
  /\ announced' = announced \cup {i}

\* Mutant: the document goes without a removed event.
DeleteSilently(i) ==
  /\ db' = [db EXCEPT ![i] = <<>>]
  /\ UNCHANGED <<cache, announced>>

DeleteContainer(i) ==
  /\ db' = [db EXCEPT ![i] = <<>>]
  /\ announced' = IF Stored(i) THEN announced \ {i} ELSE announced
  /\ UNCHANGED cache

-------------------------------------------------------------------------------
(* The Docker daemon and the registry.  A container of the same name can   *)
(* exist only once, and an id is never used again.                         *)

Exists(i) == docker[i] \in Status

Create(i) ==
  /\ docker[i] = "none"
  /\ \A k \in Id : Exists(k) => NameOf[k] # NameOf[i]
  /\ docker' = [docker EXCEPT ![i] = "running"]
  /\ UNCHANGED <<remote, storeVars, watchVars, taskVars, history>>

Remove(i) ==
  /\ Exists(i)
  /\ docker' = [docker EXCEPT ![i] = "gone"]
  /\ UNCHANGED <<remote, storeVars, watchVars, taskVars, history>>

\* The stream delivers an event about i, if the watcher listens (watchevents).
Emit(i) ==
  \/ Event = {} /\ UNCHANGED event
  \/ \E e \in Event :
       /\ event[e] = None
       /\ event' = [event EXCEPT ![e] = [id |-> i, seen |-> None]]

\* A start or a stop emits an event.
Switch(i, s) ==
  /\ Exists(i)
  /\ docker[i] # s
  /\ docker' = [docker EXCEPT ![i] = s]
  /\ Emit(i)
  /\ UNCHANGED <<remote, storeVars, watchVars, job, history>>

Publish(r) ==
  /\ remote' = r
  /\ UNCHANGED <<docker, storeVars, watchVars, taskVars, history>>

-------------------------------------------------------------------------------
(* processDockerEvent: inspect, and only then read the store again. *)

\* The answers an inspect of container i can give now.
Inspect(i) == (IF Exists(i) THEN {docker[i]} ELSE {Error})
                \cup (IF Flaky THEN {Error} ELSE {})

InspectEvent(e) ==
  /\ event[e] # None /\ event[e].seen = None
  /\ \E s \in Inspect(event[e].id) :
       event' = [event EXCEPT ![e].seen = s]
  /\ UNCHANGED <<dockerVars, storeVars, watchVars, job, history>>

\* updateContainerFromInspect writes only when something differs.
ApplyEvent(e) ==
  LET i == event[e].id
      s == event[e].seen
  IN /\ event[e] # None /\ s # None
     /\ event' = [event EXCEPT ![e] = None]
     /\ IF s # Error /\ Stored(i) /\ Get(i).status # s
        THEN UpdateContainer(i, [Get(i) EXCEPT !.status = s])
        ELSE UNCHANGED storeVars
     /\ UNCHANGED <<dockerVars, watchVars, job, history>>

-------------------------------------------------------------------------------
(* A watch run: getContainers, pruneOldContainers, watchContainer. *)

StartWatch(w) ==
  /\ pc[w] = "idle"
  /\ pc' = [pc EXCEPT ![w] = "listing"]
  /\ UNCHANGED <<dockerVars, storeVars, listed, copy, old, asked, answer, only,
                 taskVars, history>>

\* POST /containers/:id/watch reads its container before it lists.
StartWatchOne(w, i) ==
  /\ "watch" \in Calls
  /\ pc[w] = "idle"
  /\ Stored(i)
  /\ only' = [only EXCEPT ![w] = [id |-> i, doc |-> Get(i)]]
  /\ pc' = [pc EXCEPT ![w] = "listing"]
  /\ UNCHANGED <<dockerVars, storeVars, listed, copy, old, asked, answer,
                 taskVars, history>>

\* listContainers answers: the running containers (watchall is off).
List(w) ==
  /\ pc[w] = "listing"
  /\ listed' = [listed EXCEPT ![w] =
                  [i \in Id |-> IF docker[i] = "running" THEN docker[i]
                                ELSE None]]
  /\ pc' = [pc EXCEPT ![w] = "reading"]
  /\ UNCHANGED <<dockerVars, storeVars, copy, old, asked, answer, only,
                 taskVars, history>>

\* The daemon cannot be reached: the run ends without containers.
ListFails(w) ==
  /\ pc[w] = "listing"
  /\ pc' = [pc EXCEPT ![w] = "idle"]
  /\ only' = [only EXCEPT ![w] = None]
  /\ UNCHANGED <<dockerVars, storeVars, listed, copy, old, asked, answer,
                 taskVars, history>>

\* What normalizeContainer makes of a container the daemon lists.
Fresh(s) == [result |-> Current, error |-> FALSE, status |-> s,
             updatePolicy |-> Absent, security |-> Absent]

\* addImageDetailsToContainer: the store's copy if it is there without an
\* error, else one built from the image, which may fail to be inspected.
ReadStore(w) ==
  /\ pc[w] = "reading"
  /\ \E dropped \in SUBSET {i \in Id : ~Stored(i) \/ Get(i).error} :
       copy' = [copy EXCEPT ![w] =
         [i \in Id |-> IF listed[w][i] = None \/ i \in dropped THEN None
                       ELSE IF Stored(i) /\ ~Get(i).error THEN Get(i)
                       ELSE Fresh(listed[w][i])]]
  /\ listed' = [listed EXCEPT ![w] = Nothing]
  /\ pc' = [pc EXCEPT ![w] = "read"]
  /\ UNCHANGED <<dockerVars, storeVars, old, asked, answer, only, taskVars,
                 history>>

\* getOldContainers
GetOld(w) ==
  /\ pc[w] = "read"
  /\ old' = [old EXCEPT ![w] =
       [i \in Id |-> IF Stored(i) /\ copy[w][i] = None THEN Get(i) ELSE None]]
  /\ pc' = [pc EXCEPT ![w] = "pruning"]
  /\ UNCHANGED <<dockerVars, storeVars, listed, copy, asked, answer, only,
                 taskVars, history>>

PruneAsk(w, i) ==
  /\ pc[w] = "pruning"
  /\ asked[w] = None
  /\ old[w][i] # None
  /\ \E s \in Inspect(i) : asked' = [asked EXCEPT ![w] = [id |-> i, seen |-> s]]
  /\ UNCHANGED <<dockerVars, storeVars, pc, listed, copy, old, answer, only,
                 taskVars, history>>

\* Mutant: everything that is no longer listed is removed.
PruneWithoutInspect(w) ==
  /\ pc[w] = "pruning" /\ asked[w] # None
  /\ DeleteContainer(asked[w].id)
  /\ old' = [old EXCEPT ![w][asked[w].id] = None]
  /\ asked' = [asked EXCEPT ![w] = None]
  /\ UNCHANGED <<dockerVars, pc, listed, copy, answer, only, taskVars, history>>

\* Mutant: a failed inspect leaves the document where it is.
PruneIgnoresErrors(w) ==
  /\ pc[w] = "pruning" /\ asked[w] # None
  /\ IF asked[w].seen = Error THEN UNCHANGED storeVars
     ELSE UpdateContainer(asked[w].id,
            [old[w][asked[w].id] EXCEPT !.status = asked[w].seen])
  /\ old' = [old EXCEPT ![w][asked[w].id] = None]
  /\ asked' = [asked EXCEPT ![w] = None]
  /\ UNCHANGED <<dockerVars, pc, listed, copy, answer, only, taskVars, history>>

\* A stale copy with the status just seen, or a removal on any failure.
PruneApply(w) ==
  LET i == asked[w].id
      s == asked[w].seen
  IN /\ pc[w] = "pruning"
     /\ asked[w] # None
     /\ IF s = Error THEN DeleteContainer(i)
        ELSE UpdateContainer(i, [old[w][i] EXCEPT !.status = s])
     /\ old' = [old EXCEPT ![w][i] = None]
     /\ asked' = [asked EXCEPT ![w] = None]
     /\ UNCHANGED <<dockerVars, pc, listed, copy, answer, only, taskVars,
                    history>>

\* watchContainer starts by dropping the result and the error of its copy.
Reset(d) == IF d = None THEN None
            ELSE [d EXCEPT !.result = None, !.error = FALSE]

\* A single watch goes on only if its container is still listed.
StartChecks(w) ==
  LET one  == only[w]
      todo == [i \in Id |-> IF one = None THEN copy[w][i]
                            ELSE IF i = one.id /\ copy[w][i] # None
                                 THEN one.doc ELSE None]
  IN /\ pc[w] = "pruning"
     /\ old[w] = Nothing
     /\ copy' = [copy EXCEPT ![w] = [i \in Id |-> Reset(todo[i])]]
     /\ only' = [only EXCEPT ![w] = None]
     /\ pc' = [pc EXCEPT ![w] = "checking"]
     /\ UNCHANGED <<dockerVars, storeVars, listed, old, asked, answer, taskVars,
                    history>>

\* findNewVersion: the registry answers, or the lookup throws.
Lookup(w, i) ==
  /\ pc[w] = "checking"
  /\ copy[w][i] # None /\ answer[w][i] = None
  /\ \E a \in {remote, Error} : answer' = [answer EXCEPT ![w][i] = a]
  /\ UNCHANGED <<dockerVars, storeVars, pc, listed, copy, old, asked, only,
                 taskVars, history>>

\* The container with the result, or with the error instead.
Checked(w, i) ==
  IF answer[w][i] = Error THEN [copy[w][i] EXCEPT !.error = TRUE]
  ELSE [copy[w][i] EXCEPT !.result = answer[w][i]]

\* What mapContainerToContainerReport stores and calls changed.
StoredAs(w, i) == IF Stored(i) THEN Merged(i, Checked(w, i))
                  ELSE WithCached(i, Checked(w, i))
\* Mutant: a container seen for the first time is not a change.
ChangedOnlyIfStored(w, i) ==
  /\ Stored(i)
  /\ Get(i).result # Checked(w, i).result
  /\ UpdateAvailable(Checked(w, i))
\* Mutant: the result is compared with the copy, whose result was reset.
ChangedFromCopy(w, i) ==
  IF Stored(i) THEN /\ copy[w][i].result # Checked(w, i).result
                    /\ UpdateAvailable(Checked(w, i))
  ELSE TRUE
Changed(w, i) == IF Stored(i)
                 THEN /\ Get(i).result # Checked(w, i).result
                      /\ UpdateAvailable(Checked(w, i))
                 ELSE TRUE

\* A trigger with once = true acts on this report (handleContainerReport).
Notifies(w, i) == Changed(w, i) /\ UpdateAvailable(StoredAs(w, i))

Report(w, i) ==
  LET r == Checked(w, i).result
  IN /\ pc[w] = "checking"
     /\ copy[w][i] # None /\ answer[w][i] # None
     /\ IF Stored(i) THEN UpdateContainer(i, Checked(w, i))
                     ELSE InsertContainer(i, Checked(w, i))
     /\ copy'   = [copy EXCEPT ![w][i] = None]
     /\ answer' = [answer EXCEPT ![w][i] = None]
     /\ notified' = IF Notifies(w, i)
                    THEN [notified EXCEPT ![i] = @ \cup {r}] ELSE notified
     /\ repeated' = IF Notifies(w, i) /\ Stored(i) /\ answered[i] = r
                    THEN repeated \cup {<<i, r>>} ELSE repeated
     /\ answered' = [answered EXCEPT ![i] = answer[w][i]]
     /\ UNCHANGED <<dockerVars, pc, listed, old, asked, only, taskVars, skipped>>

\* All reports are in: the run ends.
StopWatch(w) ==
  /\ pc[w] = "checking"
  /\ copy[w] = Nothing
  /\ pc' = [pc EXCEPT ![w] = "idle"]
  /\ UNCHANGED <<dockerVars, storeVars, listed, copy, old, asked, answer, only,
                 taskVars, history>>

-------------------------------------------------------------------------------
(* The API and the Docker trigger. *)

\* PATCH /containers/:id/update-policy: skip-current and clear.
SkipCurrent(i) ==
  /\ "policy" \in Calls
  /\ Stored(i) /\ HasUpdate(Get(i))
  /\ LET p == (IF Falsy(Get(i).updatePolicy) THEN {} ELSE Get(i).updatePolicy)
                 \cup {Get(i).result}
     IN /\ UpdateContainer(i, [Get(i) EXCEPT !.updatePolicy = p])
        /\ skipped' = [skipped EXCEPT ![i] = @ \cup p]
  /\ UNCHANGED <<dockerVars, watchVars, taskVars, notified, answered, repeated>>

ClearPolicy(i) ==
  /\ "policy" \in Calls
  /\ Stored(i)
  /\ UpdateContainer(i, [Get(i) EXCEPT !.updatePolicy = None])
  /\ UNCHANGED <<dockerVars, watchVars, taskVars, history>>

\* DELETE /containers/:id
DeleteCall(i) ==
  /\ "delete" \in Calls
  /\ Stored(i)
  /\ DeleteContainer(i)
  /\ UNCHANGED <<dockerVars, watchVars, taskVars, history>>

\* A call that reads its container and then waits.
StartJob(j, k, i) ==
  /\ job[j] = None
  /\ Stored(i)
  /\ job' = [job EXCEPT ![j] = [kind |-> k, id |-> i, doc |-> Get(i),
                                seen |-> None]]
  /\ UNCHANGED <<dockerVars, storeVars, watchVars, event, history>>

\* scanContainer, getContainerSbom: the copy read before the scan, patched.
FinishScan(j, s) ==
  /\ job[j] # None /\ job[j].kind = "scan"
  /\ UpdateContainer(job[j].id, [job[j].doc EXCEPT !.security = s])
  /\ job' = [job EXCEPT ![j] = None]
  /\ UNCHANGED <<dockerVars, watchVars, event, history>>

\* persistSecurityState: the current document, or else the copy.
FinishGate(j, s) ==
  LET i == job[j].id
      d == IF Stored(i) THEN Get(i) ELSE job[j].doc
  IN /\ job[j] # None /\ job[j].kind = "gate"
     /\ db' = [db EXCEPT ![i] = <<Merged(i, [d EXCEPT !.security = s])>>]
     /\ cache' = [cache EXCEPT ![NameOf[i]] = s]
     /\ job' = [job EXCEPT ![j] = None]
     /\ UNCHANGED <<dockerVars, announced, watchVars, event, history>>

\* executeAction: the daemon starts or stops the container and is asked.
ActionDone(j, s) ==
  LET i == job[j].id
  IN /\ job[j] # None /\ job[j].kind = "action" /\ job[j].seen = None
     /\ Exists(i)
     /\ docker' = [docker EXCEPT ![i] = s]
     /\ IF docker[i] = s THEN UNCHANGED event ELSE Emit(i)
     /\ job' = [job EXCEPT ![j].seen = s]
     /\ UNCHANGED <<remote, storeVars, watchVars, history>>

FinishAction(j) ==
  /\ job[j] # None /\ job[j].kind = "action" /\ job[j].seen # None
  /\ UpdateContainer(job[j].id, [job[j].doc EXCEPT !.status = job[j].seen])
  /\ job' = [job EXCEPT ![j] = None]
  /\ UNCHANGED <<dockerVars, watchVars, event, history>>

\* The scanner, the registry or the daemon fails: nothing is written.
JobFails(j) ==
  /\ job[j] # None
  /\ job' = [job EXCEPT ![j] = None]
  /\ UNCHANGED <<dockerVars, storeVars, watchVars, event, history>>

-------------------------------------------------------------------------------
Init ==
  /\ docker = [i \in Id |-> "none"]
  /\ remote = Current
  /\ db = [i \in Id |-> <<>>]
  /\ cache = [n \in Name |-> None]
  /\ pc = [w \in Watch |-> "idle"]
  /\ listed = [w \in Watch |-> Nothing]
  /\ copy = [w \in Watch |-> Nothing]
  /\ old = [w \in Watch |-> Nothing]
  /\ asked = [w \in Watch |-> None]
  /\ answer = [w \in Watch |-> Nothing]
  /\ only = [w \in Watch |-> None]
  /\ event = [e \in Event |-> None]
  /\ job = [j \in Job |-> None]
  /\ announced = {}
  /\ notified = [i \in Id |-> {}]
  /\ skipped = [i \in Id |-> {}]
  /\ answered = [i \in Id |-> None]
  /\ repeated = {}

World ==
  \/ \E i \in Id : Create(i) \/ Remove(i) \/ \E s \in Status : Switch(i, s)
  \/ \E r \in Result : Publish(r)

EventStep(e) == InspectEvent(e) \/ ApplyEvent(e)

WatchStep(w) ==
  \/ List(w) \/ ReadStore(w) \/ GetOld(w)
  \/ \E i \in Id : PruneAsk(w, i) \/ Lookup(w, i) \/ Report(w, i)
  \/ PruneApply(w) \/ StartChecks(w) \/ StopWatch(w)

WatchNext(w) ==
  \/ StartWatch(w) \/ (\E i \in Id : StartWatchOne(w, i))
  \/ ListFails(w) \/ WatchStep(w)

Api == \E i \in Id : SkipCurrent(i) \/ ClearPolicy(i) \/ DeleteCall(i)

JobStep(j) ==
  \/ \E k \in Calls \cap Slow, i \in Id : StartJob(j, k, i)
  \/ \E s \in Security : FinishScan(j, s) \/ FinishGate(j, s)
  \/ \E s \in Status : ActionDone(j, s)
  \/ FinishAction(j) \/ JobFails(j)

Next ==
  \/ World \/ Api
  \/ \E e \in Event : EventStep(e)
  \/ \E w \in Watch : WatchNext(w)
  \/ \E j \in Job : JobStep(j)

Spec == Init /\ [][Next]_vars

(***************************************************************************)
(* Fairness.  The cron job starts a full watch again and again and every   *)
(* await of a run ends; the daemon answers a listing infinitely often if   *)
(* it is asked infinitely often.  Nothing is assumed of users.             *)
(***************************************************************************)
Fairness == \A w \in Watch : /\ WF_vars(StartWatch(w)) /\ WF_vars(WatchStep(w))
                             /\ SF_vars(List(w))

LiveSpec == Spec /\ Fairness
-------------------------------------------------------------------------------
(* Properties. *)

WorldOK == /\ docker \in [Id -> Status \cup {"none", "gone"}]
           /\ remote \in Result

StoreOK == /\ db \in [Id -> Seq(Doc)]
           /\ cache \in [Name -> Security \cup {None}]
           /\ announced \in SUBSET Id

WatchOK ==
  /\ pc \in [Watch -> {"idle", "listing", "reading", "read", "pruning",
                       "checking"}]
  /\ listed \in [Watch -> [Id -> Status \cup {None}]]
  /\ copy \in [Watch -> [Id -> Doc \cup {None}]]
  /\ old \in [Watch -> [Id -> Doc \cup {None}]]
  /\ asked \in [Watch -> [id : Id, seen : Status \cup {Error}] \cup {None}]
  /\ answer \in [Watch -> [Id -> Result \cup {None, Error}]]
  /\ only \in [Watch -> [id : Id, doc : Doc] \cup {None}]

TaskOK ==
  /\ event \in [Event -> [id : Id, seen : Status \cup {None, Error}]
                           \cup {None}]
  /\ job \in [Job -> [kind : Slow, id : Id, doc : Doc,
                      seen : Status \cup {None}] \cup {None}]

HistoryOK == /\ notified \in [Id -> SUBSET Result]
             /\ skipped \in [Id -> SUBSET Result]
             /\ answered \in [Id -> Result \cup {None, Error}]
             /\ repeated \in SUBSET (Id \X Result)

TypeOK == WorldOK /\ StoreOK /\ WatchOK /\ TaskOK /\ HistoryOK

\* A prune that is waiting for its inspect still has the copy it asked about.
AskedIsOld == \A w \in Watch : asked[w] # None =>
                 pc[w] = "pruning" /\ old[w][asked[w].id] # None

\* However watches, events, prunes and calls overlap, the collection never
\* holds two documents of one container: mapContainerToContainerReport looks
\* the container up and inserts it without an await in between.
OneDocPerId == \A i \in Id : Len(db[i]) <= 1

\* An update the store shows was brought to the once-only triggers, unless a
\* policy suppressed that result at some time: no interleaving of tasks that
\* write back stale copies can make a stored update go unreported.
NoUpdateLost ==
  \A i \in Id : Stored(i) /\ HasUpdate(Get(i)) =>
     Get(i).result \in notified[i] \cup skipped[i]

\* With watches that do not overlap and no other slow writer, a once-only
\* trigger is told of a result again only after the registry gave another
\* answer (or an error) in between: resultChanged compares with that answer.
OncePerResult == repeated = {}

\* Followers that add on dd:container-added and drop on dd:container-removed
\* (the UI, a controller of this agent) know exactly the stored containers.
AnnouncedIsStored == announced = {i \in Id : Stored(i)}

\* pruneOldContainers removes only containers that no longer exist in Docker;
\* one that exists, running or stopped, keeps its document (and its policy)
\* unless a user deletes it.
RemovedOnlyWhenGone ==
  [][\A i \in Id : Stored(i) /\ db'[i] = <<>> /\ Exists(i)
                     => DeleteCall(i)]_vars

UserPolicy(d) == IF Falsy(d.updatePolicy) THEN {} ELSE d.updatePolicy

\* Skipping is the user's: while a container stays stored, its update policy
\* changes only by a call to update-policy.
PolicyOnlyByUser ==
  [][\A i \in Id : Stored(i) /\ db'[i] # <<>> =>
        \/ UserPolicy(Head(db'[i])) = UserPolicy(Get(i))
        \/ SkipCurrent(i) \/ ClearPolicy(i)]_vars

\* A container removed from Docker leaves the store again and again, even if
\* stale writers bring its document back: the cron watches find it out.
GoneIsPruned == \A i \in Id : docker[i] = "gone" ~> ~Stored(i)
===============================================================================
