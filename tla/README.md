# Verification of drydock

drydock watches containers, looks their images up in registries, tells people about new
versions and, if asked to, replaces a container by one of a newer image. The program is the
TypeScript under `src/app`, with a web UI under `src/ui`. This directory holds TLA+ modules of
its parts, the TLC configurations that check them, and theorems that TLAPS proves for every
value of their constants.

All line numbers below refer to files under `src/app` unless another path is given.

Contents: [inventory](#inventory), [modules and code](#modules-and-code), [runs](#runs),
[fairness](#fairness), [proofs](#proofs), [findings](#findings), [known limits](#known-limits),
[not modelled](#not-modelled), [what is next](#what-is-next).

## Inventory

### How the program runs

One Node process runs one task at a time and switches only at an `await`. Nothing in drydock
locks but two chains of promises (Trivy runs, the redirects of a session): every hazard of
concurrency is a value read before an `await` and used after it, two tasks at the same point of
one pipeline, or an answer that arrives after an event it should have preceded. A second
process, the agent, is the same program started with `--agent`; the two talk over HTTP. State
lives in memory (LokiJS) and is saved by timers. The UI is a page in a browser that asks the
REST API and keeps what it was answered.

### Components

| Component | State it keeps | Operations | Module |
| --- | --- | --- | --- |
| Container store (`store/container.ts`) | one document per container, a security state cache by name | insert, update, delete, get | `ContainerStore` |
| Container model, tags (`model/container.ts`, `tag/index.ts`) | none | kind of an update, policy, comparison of versions | `TagUpdate` |
| Docker watcher (`watchers/providers/docker/Docker.ts`): watch cycle | none between its awaits but the store's documents | list, prune, check, report, handle an event | `ContainerStore`, `ContainerDetails` |
| ... schedule | cron job, timers, the queued watch of a maintenance window | start, debounce, queue, poll, deregister | `Watcher` |
| ... event stream | a buffer | read a chunk, process its events | `DockerEvents` |
| ... credentials | access and refresh token | refresh, client credentials, device code | `RemoteAuth` |
| Registry clients (`registries`) | none | match, list tags, digest of a tag | `RegistryLookup` |
| Docker trigger (`triggers/providers/docker/Docker.ts`) | none but the daemon's containers and images | gate, back up, update, clean up | `DockerUpdate`, `SecurityGate` |
| Health monitor (`triggers/providers/docker/HealthMonitor.ts`) | an interval and a window | poll, roll back | `HealthMonitor` |
| Image backups (`store/backup.ts`, `api/backup.ts`) | backups per container id | insert, retain, roll back | `DockerUpdate` |
| Compose trigger (`triggers/providers/dockercompose`) | compose files on disk | rewrite, update services | `ComposeUpdate` |
| Triggers (`triggers/providers/Trigger.ts`) | report handlers, results of notifications | report, batch, dismiss | `TriggerDispatch` |
| ... thresholds (`registry/trigger-shared-config.ts`) | the configuration of a trigger | share, override, include, exclude | `TriggerConfig` |
| ... templates (`trigger-expression-parser.ts`) | none | evaluate an expression | `Expression` |
| MQTT and Home Assistant (`triggers/providers/mqtt`) | retained topics | publish, discover, count | `HassSensors` |
| Security scan (`security/scan.ts`) | a chain of promises | verify, scan, SBOM | `TrivyQueue`, `SecurityGate` |
| Events (`event/index.ts`) | ordered handler lists | emit, register, deregister | `TriggerDispatch` |
| Agent client and server (`agent`) | event stream, reconnect timer, `isConnected`; the agent's store | handshake, watch, delete, push | `AgentLink` |
| Registry of components, start and stop (`registry/index.ts`, `index.ts`) | components by id | register, deregister, exit | `Lifecycle` |
| OIDC logins (`authentications/providers/oidc`) | pending checks in a session, one lock per session | redirect, callback | `OidcSession` |
| Persistence, audit (`store/index.ts`, `store/audit.ts`, `api/auth.ts`) | `dd.json` | load, save, query | `StoreFile` |
| Log buffer (`log/buffer.ts`) | a ring of entries | add, read | `LogBuffer` |
| Containers page (`src/ui/src/views/ContainersView.ts`) | cards, filters, the address | request, answer, pick | `ContainersPage`, `WebPages` |
| Router and user of the UI (`src/ui/src/router`, `App.ts`) | the page, the user | guard, load, sign in and out | `WebPages` |
| Self-update overlay (`src/ui/src/components/SelfUpdateOverlay.ts`, `api/sse.ts`) | the phase, an event stream, timers | announce, reconnect, poll, reload | `SelfUpdate` |

They interact by calls within the process (the watcher writes the store and emits reports; the
registry hands components to everyone), by events whose handlers are awaited one after the other
(reports, applied updates) or not at all (documents added, updated and removed), by HTTP and
server-sent events (agent, UI, daemon, registries), and through two shared files: `dd.json` and
the compose files. `PROJECT.json` lists every component with what is modelled of it.

### What is hard, and what makes each component correct

* **Store and watcher.** A cron watch, a debounced one, an API watch, a prune, Docker events,
  scans and actions all read a document, wait, and write the whole document back. Correct
  means: no update that the store shows went unreported, and none is reported twice; what is
  pruned is gone; what is gone is pruned; followers of the events know what is stored; a policy
  changes only when a user changes it.
* **Schedule, event stream, credentials.** State that lives in timers, in a buffer that
  overlapping handlers share, in tokens that may be spent once. Correct means: who asks for a
  watch gets one, an event is processed once, overlapping refreshes leave a valid token.
* **What is offered.** Two rules find an update, a third one applies it. Correct means: applying
  what is offered settles it, and a lookup answers what the repository held.
* **Docker trigger.** Up to twenty steps, each of which may fail, with users, other updates
  and the daemon's own removal in between, and no transaction. Correct means: the application
  keeps a container, one that ran comes back, what was replaced can be restored, what the gate
  blocks is not let in, a rollback completes.
* **Compose files.** A file is rewritten by replacing text, before its services are updated.
  Correct means: the file names what runs.
* **Agent link.** Requests and the event stream overtake each other, connections break, both
  processes crash. Correct means: the mirror and the reported connection converge to the truth
  whenever the agent's state settles.
* **Triggers.** Handlers that come and go with handshakes, once-only decisions, a dismissal
  that races the notification it dismisses, thresholds from four places.
* **Queues by promises.** Mutual exclusion and order, where a failure must pass the turn on.
* **Persistence, start and stop.** Two databases save one file; components register side by
  side, and the first that fails lets the start go on.
* **Pages.** Navigations overtake each other, answers come in any order, a server goes away.

Every such place is a hazard in `PROJECT.json`, with the line where it bites and the
properties that would show it, or the reason none does.

## Modules and code

| Module | Models | Instance | Proofs |
| --- | --- | --- | --- |
| `ContainerStore` | store, watch cycle, prune, events, API calls | `MCContainerStore` | `ContainerStoreProofs` |
| `DockerUpdate` | update pipeline, backups, rollback call | `MCDockerUpdate` | `DockerUpdateProofs` |
| `AgentLink` | controller and agent | `MCAgentLink` | `AgentLinkProofs` |
| `TriggerDispatch` | reports, handlers, dismissals, triggers of an agent | `MCTriggerDispatch` | `TriggerDispatchProofs` |
| `Watcher` | when a watch starts | `MCServices` | `ServicesProofs` |
| `Lock` | what a lock promises: the abstract specification of the next two | | `LockProofs` |
| `TrivyQueue`, `OidcSession` | Trivy runs; redirects and callbacks of a session | `MCServices` | `LockProofs` |
| `RemoteAuth` | credentials of a remote daemon | `MCServices` | `ServicesProofs` |
| `DockerEvents`, `HealthMonitor`, `Lifecycle`, `WebPages`, `SecurityGate`, `StoreFile` | see below | `MCServices` | `ServicesProofs` |
| `SelfUpdate` | see below | `MCServices` | |
| `TagUpdate`, `ContainerDetails`, `ComposeUpdate`, `TriggerConfig`, `HassSensors`, `LogBuffer`, `ContainersPage`, `RegistryLookup`, `Expression` | see below | `MCChoices` | `ChoicesProofs` |
| `Ordering` | the filters and sorts of `StoreFile` and `LogBuffer` | with these | `OrderingProofs` |

An action is the code between two awaits. A call to the daemon or to a registry is split in
the modules where other tasks can run while it is answered: the answer is taken in one action
and used in a later one, so it may be stale. The `map` of `PROJECT.json` gives the lines of
every definition.

`MCServices` and `MCChoices` check many modules in one run. Their variable `part` says which
component moves; the others stay in one of their initial states. These components do not meet in
memory but through the ones above, so nothing is lost by looking at them one at a time, and the
states of the run are the sum of theirs.

### ContainerStore

The variables are the daemon (`docker`), the registry's current offer (`remote`), the
collection (`db`, a sequence of documents for each id, since nothing in LokiJS prevents two),
the security cache, the program counter and the local variables of each watch run
(`pc`, `listed`, `copy`, `old`, `asked`, `answer`, `only`), Docker events and API calls in
flight, and histories. A document keeps what the properties tell apart: the result of the
lookup, whether it failed, the status, the policy and the security state. A field the object
does not own is `Absent`, one whose value is `undefined` is `None`: `updateContainer`
(`store/container.ts:72`) treats the two differently, and that difference is what makes a
policy get lost.

| Actions | Code |
| --- | --- |
| `InsertContainer`, `UpdateContainer`, `DeleteContainer` | `store/container.ts` |
| `StartWatch`, `List`, `ListFails`, `ReadStore` | `watch`, `getContainers` and `addImageDetailsToContainer` in the watcher |
| `GetOld`, `PruneAsk`, `PruneApply` | `getOldContainers`, `pruneOldContainers` |
| `StartChecks`, `Lookup`, `Report`, `StopWatch` | `watchContainer`, `findNewVersion`, `mapContainerToContainerReport`, `handleContainerReport` |
| `StartWatchOne` | `POST /containers/:id/watch` |
| `InspectEvent`, `ApplyEvent` | `processDockerEvent`, `updateContainerFromInspect` |
| `SkipCurrent`, `ClearPolicy`, `DeleteCall` | `api/container.ts` |
| `StartJob` to `JobFails` | scans, the trigger's security gate, `api/container-actions.ts` |
| `Create`, `Remove`, `Switch`, `Publish` | users of Docker, the registry (the environment) |

An id never comes back to life; a container re-created under its name is a new id with the same
`NameOf`. `Flaky` says whether an inspect may fail for a container that exists.

### DockerUpdate

The variables are the daemon's containers in the order of their creation and its images, the
documents and backups of drydock, the updates and rollbacks in flight with their step, and
what users want of each application. `TaskStep` follows
`runContainerUpdateLifecycle` (`triggers/providers/docker/Docker.ts`): inspect, verify the
signature, scan, write an SBOM, run the hook, prune images, back up, pull, stop, remove (or
wait for the daemon to, with `--rm`), create, connect, start, post-update hook, clean up,
monitor, report and retain backups. A rollback (`api/backup.ts`) pulls first and inspects
after. `Faulty` names the calls that may fail for a reason of their own; a call the daemon must
refuse (removing a running container, creating a name that is taken) always fails. `Watch`
stands for a whole cycle of `ContainerStore`.

### AgentLink

The agent has a store in memory. The stream at the controller has a phase (`down` the
controller does not run, `waiting` for its timer, `asking` for the stream, `open`, `cut` broken
and not noticed) and a queue `wire`; a handshake, a watch, a single watch or a delete is a
`request` that carries the snapshot of its answer. Since a document is the number of the change
that made it, "stale" is simply a smaller number. A handshake is not awaited by `handleEvent`,
so several can be under way; when its container list cannot be fetched, its rejection has no
handler and Node ends the process: `RequestFails` then drops everything in memory and returns
to `saved`. `Restart` is Docker's restart policy (`src/README.md:85`).

What the loops over an answer do (`processContainer`, `pruneOldContainers`) takes no real
pause, because the awaits in them wait for values that are there; they are one action. Reports
to slow triggers in that loop are the exception, and belong to `TriggerDispatch`.

### TriggerDispatch

A report is a record in `report`: its containers (`news`, and those whose result changed), the
handlers it has still to call (`left`, taken when it is emitted, as `emitOrderedHandlers` copies
the list), the triggers it has called (`over`) and whether it waits for an update. The first of
`left` by order, id and registration is being called; its call ends with a message (`Sent`), an
error (`SendFails`), or, for the Docker trigger, with an update (`Updated`) that emits an applied
event and waits for its dismissals (`UpdateReturns`). `applied[c][n]` is that event for container
`c` and report `n` (0 for an update a user asked for): the dismissal that is under way, with the
result it read, and the triggers behind it. `results` is `notificationResults`, `shown` what
people see.

| Actions | Code |
| --- | --- |
| `EmitReport`, `EmitReports` | the watcher and `event/index.ts` |
| `Sent`, `SendFails` | `handleContainerReport`, `handleContainerReports` |
| `Updated`, `UpdateReturns`, `UserUpdates` | the end of `trigger` in the Docker trigger; the actions API |
| `Dismissed`, `DismissFails` | `handleContainerUpdateApplied` |
| `Deregister`, `Register`, `HandshakeEnds` | the handshake of `AgentClient` over `registry/index.ts` |

A handshake deregisters the agent's triggers and registers new instances of them, one by one.
`Ignores` says which containers a trigger does not act on: its threshold, its include and exclude
labels. Abstractions: in batch mode the Docker trigger does not update here, no result is kept
in batch mode (the code does not keep any), and the triggers of an agent return no result, so they
keep none either (`runRemoteTrigger`). `due`, `obsolete`, `failed` and `twice` are histories for
the properties.

### Watcher

The timers are the state: the watch at start, the debounce of events, the poll of a maintenance
window (`queue`: asked for, whether the handle is set, and how many timers are really pending),
the cron job, and the subscription to events. `Queued`, `Cleared` and `Fired` are
`queueMaintenanceWindowWatch`, `clearMaintenanceWindowQueue` and the beginning of the poll;
`watchFromCron` is `WatchFromCron`, of which a watch that starts is one action and its work the
subject of `ContainerStore`.

### DockerEvents

The stream is a sequence of tokens: the two halves of an object and the end of its line. A chunk
is any number of them. `Chunk` and `Resume` are `onDockerEvent` (`Docker.ts:1942`) up to and
after the processing of one line, for any number of handlers at once on one buffer. A complete
object without its newline is handed over at once; that this is right needs `Patient`: the
newline does not arrive while another handler is under way.

### RemoteAuth

`auth` is the configuration (scheme, complete fields, HTTPS, token endpoint, grant, device URL),
`header` whose credentials the client sends. Each call of `ensureRemoteAuthHeaders` goes from
`Ensure` over the token request (`Answer`, `Answered`, `AnswerLost`) or the polls of a device code
(`DeviceCode`, `Sleep`, `Poll`) to `Return`. The provider is the environment: a refresh token is
good for one exchange, and the new one is in the answer. Tokens are numbered as they are issued.

### TrivyQueue, OidcSession and Lock

`Lock` says what callers may rely on: those that ask wait in order, are let in one at a time, and
leave. `TrivyQueue` has the chain of gates of `enqueueTrivy` (`security/scan.ts:116`), with a scan
as one run and an SBOM as one for each format; `OidcSession` the map of locks of
`withOidcSessionLock`, the reading, bounding (`limitToMostRecent`) and saving of pending checks,
and the callback, which takes no lock. Pending checks are a set, ordered by `created`
(`createdAt`); every redirect reads the clock anew, and two of one millisecond are taken to differ. Both say `INSTANCE Lock WITH ...` and state
`RunsTakeTurns` and `TakesTurns`: they implement it.

### HealthMonitor

The interval with several polls under way (`Tick`, `Checked`), the window, and each step of the
rollback of a poll that found the container unhealthy, against the daemon's failures and users.
It is modelled as if the monitor had started; see [known limits](#known-limits).

### SecurityGate

An image is its tag, a tag may be pushed again between any two steps (`PushTagged`). The steps of
`maybeScanAndGateUpdate`, the pull and the replacement, a scan a user asks for, the SBOM
endpoint and a watch each read and write the document of the container; what is stored is cut to
`MAX_STORED_VULNERABILITIES` while the verdict counts all.

### StoreFile

`dd.json` and the two Loki databases that load and save the whole of it: the store and the session
store. Saves, ends of the process and upgrades come at any time; audit entries stand for
everything that only the store writes. Queries are `store/audit.ts` and `api/audit.ts`.

### Lifecycle

`registry/index.ts` kind by kind (`NextKind`, `Registers`), the handlers of signals (`Install`),
the API or agent server (`Serve`), and a shutdown for each signal (`Receive`, `Leave`,
`GoOnStopping`). A component of a kind that fails rejects the `Promise.all`, so that the start
goes on while the others still register (`AllSettled`).

### WebPages and SelfUpdate

`WebPages`: `Go`, `Back`, `Load` begin a navigation, `Guard` is the answer of the route guard, which
asks for the user, and `Loaded` that of the page's own requests; a newer navigation takes the place of
one that waits. `Pick` changes a filter and replaces the address. `SelfUpdate`: the server
announces its update and goes away; the page's `EventSource` breaks, its own retry timer
and the overlay's poll hand over to each other.

### TagUpdate

A tag is what its transform reads: a rank in the order of versions, a number of segments and the
characters before its first digit. `Watch` is `findNewVersion`: candidates by `include`, `exclude`,
prefix, segments and rank, and the digest of the tag. `UpdateAvailable` follows `model/container.ts`
with skips and snoozes, `Update` pulls what `getNewImageFullName` names, `Push` is a user of
the registry.

### ContainerDetails

Where the settings of a container come from: `List` reads the labels, `ServiceAnswers` those of its
swarm service, `Detail` merges them with the imgset that matches best (`Specificity`) and stores
the document; `Inspected` follows renames. One setting stands for all, and its value is the place
it was read from.

### ComposeUpdate

Batches that overlap: `ParseFile`, `ReadText` (the second read), `WriteFile` with the textual
replacements, `UpdateService`. The text of an image may be a part of another's (`Within`).

### TriggerConfig

`SharedByName`, `WithGroup` and `WithProvider` are the merging of shared options, one option for all;
`Reached` is the threshold, `MustTrigger` the include and exclude lists, `GetTriggers` the API call that
writes a label's threshold into the configuration it was handed.

### HassSensors

Each event starts a task that publishes retained messages, one awaited after the other; the
connection delivers in the order of publication. The counts are read when a task begins to
publish them.

### LogBuffer, ContainersPage, RegistryLookup, Expression

`LogBuffer` is the ring and its four filters, against the entries ever logged. `ContainersPage` has the
requests of the page, answered at one moment and applied at another. `RegistryLookup` has the choice
of the registry, the listing that goes on after the last tag of a page, and the digest by manifest and
`HEAD`, while the repository changes. `Expression` cuts at the operators as
`trigger-expression-parser.ts` does, and is compared with the meaning that a grammar
gives to the same tree. A text is a sequence of tokens; quotes, backslash and the marks of a template are
tokens named by words. The two flags of `toggleQuoteState` are one variable, as a quote of one kind
means nothing inside the other.

`Ordering` gives a finite set as the sequence that `filter` or `sort` returns: the element of each place is the
one that as many others come before.

## Runs

Twelve runs; each answers its own question. The numbers are distinct states.

| Run | Bounds | Shows |
| --- | --- | --- |
| `store_calls` (3.37 M) | 1 container, 1 watch run, 1 call of four kinds, policy | `NoUpdateLost`: stale write-backs never hide an update; `RemovedOnlyWhenGone` |
| `store_serial` (1.13 M) | 2 containers of one name, 1 watch run, 1 event, policy, single watches | `OncePerResult`; `AnnouncedIsStored` |
| `store_live` (718 k) | 1 container, 1 watch run, scan and gate | `GoneIsPruned`: documents that scans resurrect are pruned |
| `store_policy_lost` | 1 container, 1 watch run, policy | violation of `PolicyOnlyByUser` |
| `update_pair` (33 k) | 1 application, 2 updates or rollbacks and a dry run, users start, stop, remove | `AppExists`; `ReplacedHasBackup` |
| `update_single` (810 k) | 2 applications (one `--rm`), 1 task at a time, gate, pruning, automatic rollback, faults | `AppSurvives`; `ComesBack` |
| `update_rollback` | 1 application, 1 task | violation of `CanRollBack` |
| `agent_mirror` (421 k) | 1 container, 2 requests, 2 versions, 2 faults | `Fresh`, `ShownAsItIs`, `Mirrored` |
| `dispatch` (510 k) | 4 triggers (Docker, one that resolves, one of an agent, one in batch mode), 2 containers, 2 reports, 2 handshakes | `StoredIsShown`; `DueIsDismissed`; `CalledOnce`; `NoHandlerLeaks`; `InOrder` |
| `services` (270 k) | the parts of `MCServices`, see below | fourteen properties, see below |
| `choices` (565 k) | the parts of `MCChoices`, see below | nine properties, see below |
| `selfupdate` | the part `overlay` | violation of `ReloadsAfterRestart` |

| Part of `services` | Bounds | Property |
| --- | --- | --- |
| `schedule` (131) | none: all states of one watcher | `OnePoll`; `AskedIsWatched`: who asks for a watch gets one |
| `events` (355) | 6 events in 18 tokens, chunks of any size | `HandedOnce` |
| `credentials` (20 k) | 2 calls, 3 refresh tokens, 1 poll, every configuration | `KeepsRefreshToken`; `CallsEnd` |
| `scans` (248) | 3 calls of up to 2 runs | `RunsTakeTurns` (refinement of `Lock`); `RunsEnd` |
| `logins` (43 k) | 3 logins, 2 pending checks | `TakesTurns` (refinement of `Lock`); `LoginsKept` |
| `monitor` (9 k) | 3 polls | `RollbackCompletes` |
| `lifecycle` (73 k) | 9 components, 3 configurations, 2 signals | `StartsWhole` |
| `pages` (49 k) | 2 filters, 4 moves | `AddressIsPage` |
| `gate` (52 k) | 3 pushes, 4 configurations, 1 call | `GateHolds` |
| `file` (23 k) | 2 entries, 1 session, 2 starts, 2 versions | `AuditIsKept` |

| Part of `choices` | Bounds | Property |
| --- | --- | --- |
| `tags` (45 k) | 7 tags, 2 transforms, 2 pushes | `UpdateSettles` |
| `details` (47 k) | 2 containers, 1 service, 4 imgsets | `DisplayIsDeclared` |
| `compose` (152 k) | 2 batches, 3 services in 2 files | `DeclaredRuns` |
| `thresholds` (25 k) | 4 triggers, 2 containers | `FiresAsDeclared` |
| `sensors` (169 k) | 2 containers, 2 tasks | `SensorsSettle` |
| `logs` (1 k) | a ring of 3, 5 entries | `BufferKeepsLatest` |
| `page` (22 k) | 1 card, 2 requests, 4 changes | `CardsAreLatest` |
| `lookup` (90 k) | 3 registries, 3 tags, pages of 1, 2 changes | `LookupIsTrue` |
| `templates` (13 k) | expressions of depth two | `RendersAsMeant` |

A property with an exception names it with a history variable (`excused`, `late`, `crossed`,
`overwritten`, `overrun`, `adrift`, ...): a state in which something happened for which the code
has no remedy. The mutants show that the exceptions do not cover the code, and
[known limits](#known-limits) says what they are.

Every module has a type invariant (`TypeOK`, `WatcherTypeOK`, `AuthTypeOK`, ...) but the small ones.
They hold, and four of them are proved; the runs do not spend their time on them. To check one, add
`INVARIANT AuthTypeOK` to the configuration.

Three configurations are kept that are no runs: `update_monitor.cfg`, `agent_pruned.cfg` and
`dispatch_dismiss.cfg` show claims that do not hold; see [known limits](#known-limits).

### Why these bounds

*Store.* Tasks meet only in the document of one container: no operation reads one document to
write another, and the security cache is keyed by name. One container with two tasks of
every kind therefore has the interleavings that matter. Two results are the least with which an
answer can change, and can change back. Two ids of one name are the least with which a container
can be re-created.
With two watch runs and deletions (457 k states) the properties of `store_calls` hold as well, and
`OneDocPerId` and `NoUpdateLost` are proved for any number of runs; three writers in flight did
not fit the time and would not reach a new pair.

*Updates.* A task starts only if there is room for the containers of all tasks in flight, so
`MaxContainers` is the number of applications and two more: with one application it can be
replaced twice, so there is an update after an update, and a rollback of a container that has a
backup because its own update failed after the backup. Two tasks are the least that overlap.
In `update_single` two applications share the images, so pruning of one could take what the other
needs; the `--rm` application is there as an occupant of names and images, and the two properties
speak of the other one. Faults of inspect, pull and hook instead of those of the configuration
(2.79 M states) change nothing.
`BackupCount` 1 makes the retention cut at the first chance.

*Agent.* Two requests are the least of which one is overtaken by the other, and a handshake of
a new stream may begin while one of the old stream still waits. Two faults let a link break and
the request after it fail. `MaxVersion` 2 lets an older document be told from a newer one.
With two containers and one fault (796 k states) and with three versions (1.43 M) the same
properties hold; these instances are not kept because of their running time. `MaxWire` bounds
the stream's queue: an agent waits for the controller to read, as its socket does when it is full.

*Dispatch.* Two reports are the least that overlap: one sends while the other's update dismisses.
One report meets up to two handshakes, so that a trigger it has called can be replaced. Three
reports with one container (8.86 M states) give the same verdict. One handshake runs at a time
(see [known limits](#known-limits)).

*Services.* Overlap needs two calls, polls, redirects or signals, and a third one where the property is
an order: three in the queue are the least of which the second can fail between two others. Three refresh
tokens let each of two calls exchange one and a third exchange spend what they left. Three events make
chunks that end one object, hold a whole one and begin another. Two starts of the process let each
database load what the other saved. The nine components are one of each way a component can come up.

*Choices.* The tags are one of every form the filters tell apart; with two pushes the digest of a tag can
change before and after an update. The imgsets are listed in an order in which the first and the last
are not the best. Two services whose images are parts of each other's text are what a textual
replacement can confuse. Two tasks of sensors interleave their messages in every way. A ring of three
wraps with the fourth entry and is full of newer ones with the fifth, with tails below, at and above its size.
Pages of one tag put every change of the repository between two pages. Slots of compose batches are
interchangeable (`SYMMETRY`; `choices` checks invariants only).

Deadlock is checked in all runs but those of `AgentLink`, `MCServices` and `MCChoices`, where a
component is allowed to be idle once its bounds are spent: a process has exited, all events have
arrived, a template is rendered.

### Mutants

Every property of a passing run has a mutant in `PROJECT.json`: a plausible bug put into a
definition of the model (an inspect that is skipped, a result compared with the copy instead of
the store, a failed pull that is only logged, a timer handle that is not forgotten, a refresh token
that is not kept, a gate that reads the stored findings only, a lock that is forgotten while
someone waits). TLC finds the property violated under the
same configuration, so none of them holds by the shape of the model. The mutated forms stand in the
modules next to the definitions they replace, under the word "Mutant".

## Fairness

* `ContainerStore!LiveSpec`. The cron job starts watches for ever (weak fairness of
  `StartWatch`); every await of a run ends (weak fairness of its steps), which is an assumption
  on the network, as requests to registries (`registries/Registry.ts:358`) and to the daemon have
  no time limit in the code, and rests on their connections being closed; and the daemon answers a listing infinitely often
  if it is asked infinitely often (strong fairness of `List`): a daemon that fails for ever
  tells nothing about its containers. Nothing is assumed of users.
* `DockerUpdate!LiveSpec`. A task that runs goes on: hooks, scans and the wait for `--rm` have
  timeouts; that the daemon answers every other call, with an error perhaps, is assumed. Which of a step's outcomes happens is not fair: a call may fail every time.
* `AgentLink!LiveSpec`. Timers fire, attempts and requests end one way or the other, a closed
  socket is noticed, arrived events are handled, and Docker restarts the controller. The agent's
  watch cycles report every container again and again, and the events follow (strong fairness of
  `Announce`, since a crash of the agent interrupts it). No fairness on faults and users. A host
  that vanishes without closing its sockets is outside of it: the stream has no keep-alive, so
  nothing would notice.

* `WatcherFairness`. Timers fire; the window opens again and again, and stays open for more than the
  minute between two polls, so that polls fall into it (strong fairness of `PollInWindow`); events pause
  for the five seconds of the debounce. Nothing is assumed of the cron job.
* `AuthFairness`, `TrivyFairness`. Token requests have time-outs, sleeps end and the device code has a
  deadline; Trivy is ended by its time-out. Who asks, and which outcome comes, is not fair.
* `SelfFairness`. The page's timers fire and its `EventSource` notices a broken stream and connects again;
  a server that is down need not come back.
* `TakesTurns` and `RunsTakeTurns` are safety: `Lock` has no fairness. Redirects wait for session stores
  that may be slow for ever.

The liveness properties of `AgentLink` speak about an agent that stays up (`<>[]agentUp`) or stays down, as no
property could hold for one that changes for ever.

## Proofs

TLAPS checks these for every value of the constants under the named assumptions.

**ContainerStoreProofs.** Assumptions: `CurrentAssumption`, `NameAssumption`, `CallsAssumption`,
`SentinelAssumption`, `StatusAssumption` (the sentinels are no data).
* `TypeCorrect`. `TypeOK` is not inductive alone: a prune that waits for its inspect writes back
  `old[w][i]`, which has to be a document still. `AskedIsOld` says so; together they are `Typed`.
* `OneDocument`. Every write leaves the collection of an id with at most one document: an
  update replaces, and an insert happens only if the look-up in the same step found nothing.
* `NothingLost`. What is stored may be any copy some task has held since long ago, so the
  documents alone are not inductive. `AllKnown` extends the claim to every copy in flight
  (`CopyKnown`, `OldKnown`, `OnlyKnown`, `JobKnown`): its update was notified or skipped, and
  what its policy skips some policy skipped. The histories only grow (`Grows`), so a copy
  stays accounted for however long its task waits; and a report makes the new document known.
* `ToldOnce` proves `OncePerResult` under `OneWatch` (watches do not overlap) and `NoSlowWriter` (no scan, gate or
  action, which hold a document over an await and write it back). `AsAnswered`: the document, and what a prune
  will write back, has the result of the last answer (`StoredAsAnswered`, `OldAsAnswered`).
* `FollowersKnow` proves `AnnouncedIsStored` under the same and without deletions by a user. `Heard` adds that a
  container a prune waits for is stored still, so that what it will remove was announced (`OldStored`).
* `PrunesOnlyGone` proves the action property `RemovedOnlyWhenGone` under `~Flaky`, with any number of overlapping
  tasks. `AllCreated`: whatever names a container, a document or a copy in flight, names one that was created, and
  one that was asked for in vain is gone for good (`AskedGone`).

**DockerUpdateProofs.** Assumptions: `BoundsAssumption`, `BackupCountAssumption`,
`OptionsAssumption`, `NoneAssumption`. Every option may have any value and any call may fail.
* `TypeCorrect`. Containers only grow in number (`Kept`), so a task's ids stay valid.
* `BackedUp`. `BackupInv` adds that documents, tasks and backups name the tag the container
  runs (`DocTags`, `TaskTags`, `BackupTags`), that a task which may remove its container has
  backed it up (`BackedUpFirst`), and that the backups of a replaced id are never emptied
  (`ReplacedHasSome`), for which retention must keep at least one: `BackupCount > 0`.

*What becomes of an application.* Under `Plain` (no pruning, no `--rm`, creation fails only for a taken
name or a missing image), `NeverLost` proves `AppExists` for any number of overlapping tasks,
applications and users, whatever other calls fail. `ExistInv`: a task past its pull
still finds its image (`PulledFirst`), and an application without a container was removed by a
user or has a task that is about to create one (`Accounted`). Each part of `Plain`
is needed: see [known limits](#known-limits).
`Survives` proves `AppSurvives` under `Undisturbed`: one task at a time (`OneTask`), a daemon that does not fail of
its own accord once the old container is stopped (`Reliable`; it may still refuse, and every call before it may
fail), and users who stop and remove but do not start. `SurviveInv`: an application has one container
(`OneContainer`), idle ones are as their users want them (`IdleAsWanted`), and one in hand is what its
task's step has left of it, remembering what the inspect saw (`AllInHand`). A user who starts the container
that an update has just stopped has it replaced by one that stays stopped, hence the third part.

**AgentLinkProofs.** Assumption: `BoundsAssumption`. `TypeCorrect` holds for any containers and
any number of requests in flight; `AnswerReplacesStore` shows that processing an answer and pruning
against it leaves exactly the answer, the reason why one good watch repairs the mirror.

**TriggerDispatchProofs.** Assumptions: `TriggerAssumption`, `RankAssumption`, `BoundsAssumption`,
`NoneAssumption`. `OneHandshake` (handshakes do not overlap) and `OneResolves` (one trigger keeps
results) are hypotheses of the theorems that need them.
* `TypeCorrect`. What is left of an event is a dismissal of a stored result; that the triggers
  left have a first one is the least-number principle (`First`).
* `Remembered` proves `StoredIsShown`. `RememberInv`: results and the messages of events are filed
  under the trigger and container they are of, so a dismissal can only take the message of the
  very result it forgets.
* `NothingLeaks` proves `NoHandlerLeaks` under `OneHandshake`: what a handshake has still to
  register is not in the registry (`LeftUnknown`).
* `NoneTwice` and `Ordered` prove `CalledOnce` and `InOrder` from `CallInv`: the handlers left have
  different ids and all rank behind those called; an event under way belongs to the first of them.
* `DueDismissed` proves `DueIsDismissed`: what is due and shown is refused or in flight
  (`DueGoes`), and as every due message belongs to a call that is over (`DueSent`) and no
  trigger is called twice, no message is shown again.

**LockProofs.** Assumptions: `TaskAssumption`, `LoginAssumption` (the sentinels are no callers, bounds are
positive, the logins of a session are finitely many). What the two chains share is proved once, of any clients: `Chain` says that those in line are
each behind the one before it, the first behind who is inside, and that the next to come will be behind the last.
`ChainAsk`, `ChainEnter` and `ChainLeave` say that asking, entering and leaving keep it, and that one of
the line who is behind nobody is the first, with nobody inside. `TrivyIsLock` and `RedirectIsLock` conclude that
every step of the queue and of the session is a step of `Lock` or none, for any number of callers. In the session the
lock leaves the map with the last redirect, which is the case of an empty line.
`LoginsStay` proves `LoginsKept`. `ILogin` rests on the lock: only who holds it has read and not yet saved (`OneHolds`),
and what it read has every check that is due, but for what callbacks and the clock took since (`HasAll`). That the most
recent checks are at most `MaxPending`, and those dropped are older, is `RecentAreEnough`, by the least rank.

**ServicesProofs.** The parts of `MCServices`, each with its own specification and invariant.
* `WatcherTypeCorrect`, and `PolledOnce`, which proves `OnePoll` for histories of any length: `IOnePoll` says that
  the queue is one of two records, nothing queued or one watch with one timer, which every action keeps.
* `KeepsToken` proves `KeepsRefreshToken` for any number of calls and of tokens (`AuthAssumption`). What is held may
  be spent while its replacement is still in an answer, so the invariant follows the new tokens: `INew`, a token
  in an answer is accepted and not held; `IOwn`, it is in one answer, and no request carries it; `IReplaced`, if
  what is held was spent, some answer holds its replacement, unless one was lost. `IIssued` bounds all
  tokens by the last one issued, which makes a new one new.
* `RollsBack` proves `RollbackCompletes` for any number of polls. `Undone`: while no inspect outlived the interval
  and the daemon did not fail, one poll at most waits or rolls back (`OneAwake`), none begins once one does
  (`NoneBegins`), and what the daemon holds is what that rollback has made of it so far (`OnceStopped`).
* `StartsAndStops` proves `StartsWhole` for any components, configurations and signals (`LifeAssumption`). What a
  process has registered is read from the order of the kinds (`InTurn`, `Awaited`), what a shutdown
  has still to do from its place in the reverse order (`Stopping`, for each signal of its own).
* `LinksShowPages` proves `AddressIsPage` for any filters and clicks (`NoPageAssumption`). The address is replaced
  after the guard has asked for the user: `PickIsShown` says that meanwhile the page stays, with the
  filters that the pending address names.
* `GateStands` proves `GateHolds` (`GateAssumption`). What passed the signature and the scan is the content the tag
  has, unless it is in `moved` (`SignatureChecked`, `ScanIsOfTagged`, `PushedIsMoved`; `GateLetsIn`), and
  every scan in the store, the cache or a call's copy tells the verdict of its image (`ScansStand`). That the counts
  of a summary add up to all that was reported needs no induction: the units counted by severity are in
  bijection with the findings (`ScansCount`).
* `AuditStays` proves `AuditIsKept` (`FileAssumption`). Each database in memory is ahead of the file in what is
  its own (`StoreIsAhead`, `SessionsAreAhead`), so that a save loses only what the other wrote (`SavesKeep`). For the pages,
  entries are numbered as they were inserted, in memory and in the file (`AllNumbered`), so that no two of them
  tie in the order of the listing; every row of the listing is on one page, at one place (`OnSomePage`,
  `PagesApart`), and `InOrderLists` says what stands in the rows.
* `HandsOnce` proves `HandedOnce` under `Patient`, for streams of any length, cut anywhere, and any number of
  handlers at once (`EventsAssumption`). What the code cuts out of the buffer are pieces of the stream between known
  positions (`LinesAre`, `RestIs`). `Books` follows every event: its newline has not come and it is untouched, or
  it was handed over, or it is one line of one handler (`HandedOrWaits`, `OnePlace`); between two objects the buffer
  is what has come of the next one (`BetweenObjects`), and after an object without its newline the one handler
  under way hands it over and empties the buffer (`AfterObject`).

**ChoicesProofs.** The parts of `MCChoices`.
* `Settles` proves `UpdateSettles` for any tags, listings, versions and policies (`TagAssumption`). Candidates
  are the tags of a listing by descending version, so the first of them is a maximum (`First`,
  `IsFirst`): after it was pulled none is higher, and what a skip names is what the next watch offers.
* `FiresDeclared` proves `FiresAsDeclared` (`AlertAssumption`). The invariant is small, an untouched trigger has the
  threshold the merges give; the work is in the lemma that these merges, nested by name, group and
  provider, amount to the declared rule (`ThresholdIsDeclared`).
* `PageIsLatest` proves `CardsAreLatest` (`PageAssumption`): no card, answer or copy in flight is newer than
  what was seen of its container (`NoneNewer`).
* `SensorsRight` proves `SensorsSettle` for any containers, watchers and number of tasks (`SensorAssumption`). The
  tasks go round: the oldest is acknowledged, publishes its next message and waits behind the others. A task is
  senior to another if it is further in its messages, or as far and before it in line. Of the tasks that concern a
  counter the youngest read the counts after every change (`CountsFresh`), and a value that no task will publish again
  is right (`CountsTold`, `TilesShown`, `CountersShown`, `CountersHidden`, `WatchTold`).
* `LatestAreAnswered` proves `BufferKeepsLatest` for rings of any size, any number of entries and any filters
  (`LogAssumption`). The entry `d` before the last is in the slot `d` before the head, which gives `RingKeepsLast`
  (`LastAreKept`); an entry's time is its number (`InTime`), and the entries that pass, listed in order, end with
  those that fewer than `tail` others follow (`FilteredAreLatest`).
* `DisplayStaysDeclared` proves `DisplayIsDeclared` for any containers, services, labels and imgsets
  (`DetailsAssumption`: sections have different names, references a length). The loop over the sections keeps the
  section ranked first so far, so their order does not matter (`BestIsTop`), and the labels that win are those of the
  closest place (`ClosestLabel`). `Shown` adds, of every document, that a container with a label of its own
  was declared by it, which events need to keep its display name.
* `DeclaredStaysRunning` proves `DeclaredRuns` for any services, files, releases and overlapping batches
  (`ComposeAssumption`). `Applied`: the file and the container of a service that is not excused agree, or the file is
  an update ahead that some batch has still to apply. `EditIsExact` says that the replacements, one after
  the other and in any order, give each service its own update and leave the others, but for what `Spoilt` names.
* `TemplatesMean` proves `RendersAsMeant` for any names, values and literals (`ExprAssumption`: a name is no
  operator, a literal is written so that it ends where it should, and no `}` is in one, which would
  end the expression). The scan passes over a text that shows no
  operator and leaves it as it came (`LeafClean`, `SumClean`, `BothClean`), so the first operator it
  finds between two such texts is the one that joins them (`FoundAt`) and the cut gives both back
  (`CutApart`). `RoundsAreRight`: a round of the evaluation is right about what is joined of pieces the round
  before is right about, level by level of the grammar, and a text is long enough for its rounds (`LongEnough`).
* `LookupHolds` proves `LookupIsTrue` for any registries, tags, sizes of a page and manifest lists
  (`LookupAssumption`: a list numbers its entries in order). While the tags are listed, one that was there all along is
  on a page read so far or after the cursor (`ITags`): a page leaves out only what is after its last tag
  (`PageLists`), and the listing stays ascending (`PageAscends`). The digest is taken from a release the tag
  has had since it was asked for (`IManifest`), whichever entry fits the platform best (`BestIsOffered`).

**OrderingProofs.** Of any order that is total and strict, `InOrderLists` says that `InOrder` lists every element of a
finite set once, an earlier before a later one: places grow with the order (`PlaceGrows`), so each of the first
`Cardinality(S)` numbers is the place of one element. `LeastOf`, the least-number principle, is kept here for the
two large modules of proofs.

**Induction without its theorem.** The induction rules of the library take an operator, which no prover here
instantiates. Where a finite set, a number or a loop must be exhausted (`First` in `TriggerDispatchProofs`, the first
of a listing, the youngest of the tasks, the most recent checks, the sections of a configuration, the replacements in
a file, the scan of a text), a proof takes the least number with
the property, or the earliest round of the loop at which the claim fails, instead: `LeastNumber` and `LeastOf`
derive it from the well-foundedness of `<` on the naturals. Loops are therefore written as recursive functions
over their rounds, and no module has a `RECURSIVE` operator.

**Only model-checked.**
* Liveness (`GoneIsPruned`, `ComesBack`, `Fresh`, `ShownAsItIs`, `Mirrored`, `AskedIsWatched`, `CallsEnd`,
  `RunsEnd`) is out of the prover's reach. Every other property that a run finds to hold is stated by a theorem.
* The theorems with a hypothesis (`ToldOnce`, `FollowersKnow`, `PrunesOnlyGone`, `NeverLost`, `Survives`,
  `NothingLeaks`, `NoneTwice`, `Ordered`, `DueDismissed`, `HandsOnce`) say nothing without it, and
  [known limits](#known-limits) shows for most of them that the property fails then.

## Findings

Three runs show the code to differ from what its documentation or tests say; each trace is a few
steps of ordinary use.

* `store_policy_lost`: a skip set through the API is lost when a watch, a prune, a scan or an
  action that had read the container before finishes after it (`store/container.ts:72`).
* `update_rollback`: the backup is kept under the id of the replaced container, the rollback call
  asks for the id of the new one (`triggers/providers/docker/Docker.ts:863`).
* `selfupdate`: the overlay of a self-update polls `/api/app/health`
  (`src/ui/src/components/SelfUpdateOverlay.ts:94`), which the API does not serve: `api/app.ts` has `GET /` only.
  The page stays covered after the restart until the user reloads it.

## Known limits

Claims stated in the modules that do not hold, with a configuration to see it:

* `update_monitor.cfg`, `MonitorStarts`: automatic rollback never monitors anything, as it inspects
  the id of the container just removed (`triggers/providers/docker/Docker.ts:925`; `src/README.md:244` promises
  it). The unit test passes since its mocked daemon answers for the old id. `HealthMonitor` is checked as if it started.
* `agent_pruned.cfg`, `PrunedIsRemoved`: an agent whose Docker does not answer reports an empty list as
  a success, and the controller deletes all its containers and their policies
  (`agent/AgentClient.ts:363`, `watchers/providers/docker/Docker.ts:2034`), logging each as removed on the agent (`agent/AgentClient.ts:95`).
* `dispatch_dismiss.cfg`, `UpdatedIsDismissed`: all triggers have order 100 by default and `docker` sorts before
  the notifiers, so the update and the event that dismisses come before the message of the same report
  is sent; that message is kept for ever (`triggers/providers/docker/Docker.ts:994`, `src/CHANGELOG.md:237`). An order
  that puts the notifier first avoids it: that is what `dispatch` checks.

Behaviours that can be reproduced by a change of the constants:

* `store_calls.cfg` with `Flaky = TRUE`: a prune inspect that fails for a transient reason
  deletes the document of a container that exists (`RemovedOnlyWhenGone`).
* `update_single.cfg` with `Task = {t1, t2}`: the second of two overlapping updates inspects a
  container the first has stopped, and creates the new one without starting it (`AppSurvives`).
* `update_pair.cfg` with `AutoRemove = {1}`: the daemon may remove a `--rm` container before the
  wait for it arrives; the update ends and there is no container (`AppExists`).
* `update_pair.cfg` with `Apps = 2`, `Prune = TRUE`, `MaxContainers = 4`: an update removes the
  image another one has pulled and not yet used (`AppExists`; after five million states).
* `update_pair.cfg` with `"create"` in `Faulty`: a failed creation after the removal leaves no
  container; nothing restores the old one (`AppExists`).
* `dispatch.cfg` with `Handshake = {h1, h2}`: two handshakes deregister before either registers;
  the second instance of a trigger replaces the first, whose handler stays (`NoHandlerLeaks`).
* `dispatch.cfg` with `Remote = {}` and `Resolves = {g, a}`: the second trigger's result is looked
  up when its turn comes; what was stored meanwhile is dismissed in place of the message that was
  due (`DueIsDismissed`).
* `services.cfg` with `Patient = FALSE`: an object that is handed over before its newline arrives, while
  another handler is under way, is processed twice (`HandedOnce`).

Exceptions of the properties, where the code has no remedy:

* Tags (`UpdateSettles`, `CandidateDigest`). With a digest watched of a tag that has candidates, the watch reads
  the digest of the candidate (`watchers/providers/docker/Docker.ts:2296`) and compares it with the running
  image; an update then pulls another tag (`triggers/providers/docker/Docker.ts:492`), and the same update is
  offered again.
* Thresholds (`overwritten`). `GET /containers/:id/triggers` writes the threshold of a container's label into the
  configuration of the trigger itself (`api/container.ts:380`), for all containers, unless the provider has a
  `maskConfiguration` of its own. The label of one container so
  decides when the others fire, once somebody has looked at its triggers.
* Details. A new label in a farther place overrides a legacy label of a closer one. An imgset that names no
  registry may win by the length of its pattern.
* Compose (`excused`). A service stays out of step with its file after a failed write or update, or when an edit
  touches the text of another service.
* Logins (`overrun`). The callback takes no lock: checks saved while it waits for the provider are lost. A
  corrupt session is regenerated on reload; that is not modelled.
* Rollback (`slow`, `broke`). A slow inspect overlaps the next poll and the container is rolled back twice; a daemon that
  fails in between leaves no container.
* Lifecycle. After a component failed, the others of its kind register late: an authentication that does is offered, but
  passport never tries it.
* Credentials (`lost`). When the answer that carries a new refresh token is lost, every later refresh fails; there
  is no fall-back.
* The file. Each of the two databases saves the whole file, so each save takes back what the other saved since
  (`store/index.ts:76`, `api/auth.ts:152`): a restart can lose audit entries, policies and backups, or sessions.
  `AuditIsKept` says that nothing else loses an entry. `pruneOldEntries` is called by nothing.
* Gate. A tag that is pushed between its scan and the pull is not scanned again. Of an update whose gate fails,
  the cached security state is given to the next container of that name. SBOMs of a candidate and of the running image
  share one document.
* Sensors (`crossed`). A container that comes back while the counters of its watcher are being removed leaves
  the watcher without them.
* Cards (`late`, `passed`). An older answer that comes after a newer one is shown; a group update passes over a
  container that is missing.
* Pages (`adrift`). The back button and a click on the page's own link change the address and not the filters. A
  redirect to the login page keeps the path and not the query.
* Templates. Parentheses within parentheses and a conditional between `?` and `:` give an empty text, where a comment
  says that other syntax is left as it is; a `}` in a literal ends the expression.
* Registries. A page of tags with a link and no tags starts the listing again. The token of quay.io is looked for in
  the wrong place (`registries/providers/quay/Quay.ts:62`), so its requests are anonymous; a token that cannot be had
  is replaced by an anonymous request as well.

## Not modelled

* The helper container that swaps drydock's own container, and the digest-only update of
  `DockerUpdate` (`TagUpdate` has the tag it pulls).
* `deleteBackup` and `pruneOldEntries`, which nothing calls; the migration of documents, which runs before
  the collection of containers exists and concerns versions that start with 8.
* Several controllers on one agent; logs of an agent (requests without state on this side).
* The requests, formats and limits of notification providers, and the URLs and tokens of registries.
* Webhooks, metrics, previews and the read-only endpoints: thin layers over what is modelled.
* Parsing of environment variables; the options are constants or initial values.
* Passport, Joi, Express and the other libraries; the parts the code relies on are marked external in the map.
* The other pages of the UI, which show what one request answered.

## What is next

* `StoreFile` composed with `ContainerStore`: results that are reported again after a restart.
* Proofs about the mirror in `AgentLink`: what a request carries is no newer than the agent's store.
* Two controllers on one agent in `AgentLink`, and agents in `Lifecycle`'s report handlers.
* The tokens of registries, and the retries of their requests.
