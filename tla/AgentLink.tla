------------------------------ MODULE AgentLink ------------------------------
(***************************************************************************)
(* A controller that mirrors the containers of a remote agent              *)
(* (app/agent/AgentClient.ts against app/agent/api/).  The agent pushes    *)
(* its container events over one SSE stream, in order; everything else -   *)
(* the handshake that follows an ack, a watch, a delete - is a request on  *)
(* a connection of its own, whose answer may be overtaken by the stream.   *)
(*                                                                         *)
(* A document is the number of the change that made it, 0 when there is    *)
(* none.  What the agent does to its own store is the ContainerStore       *)
(* module; here it is a change, a removal or a repetition of a document.   *)
(***************************************************************************)
EXTENDS Naturals, Sequences

CONSTANTS
  Container,   \* ids of the containers the agent may have
  Request,     \* slots for requests in flight; bounds their number
  MaxVersion,  \* bounds the changes the agent makes
  MaxWire,     \* bounds the events in flight
  MaxFaults    \* bounds crashes, broken links and failed requests

ASSUME BoundsAssumption ==
  MaxVersion \in Nat /\ MaxWire \in Nat \ {0} /\ MaxFaults \in Nat

Doc   == 0..MaxVersion
Docs  == [Container -> Doc]
Empty == [c \in Container |-> 0]

VARIABLES
  agentUp,     \* the agent process runs
  agentDocs,   \* its store, kept in memory
  version,     \* the last change
  phase,       \* the event stream at the controller
  wire,        \* events sent on the stream and not handled yet
  docs,        \* the documents of this agent in the controller's store
  saved,       \* what the controller's store file holds of them
  isConnected,
  registered,  \* kinds of components registered for the agent
  request,     \* requests in flight
  faults       \* faults so far

agentVars == <<agentUp, agentDocs, version>>
linkVars  == <<phase, wire>>
vars == <<agentVars, linkVars, docs, saved, isConnected, registered, request,
          faults>>

\* down: the controller process does not run; waiting: a reconnect timer is
\* set; asking: GET /api/events has no answer yet; open: the agent writes to
\* the stream; cut: the agent's end is gone and the controller does not know.
Phase == {"down", "waiting", "asking", "open", "cut"}

Ack == [type |-> "ack"]
Event == {Ack} \cup [type : {"container"}, id : Container, doc : Doc \ {0}]
               \cup [type : {"removed"}, id : Container]

\* A handshake waits for the containers ("asked", then "answered"), then for
\* the watchers and for the triggers; the other calls for one answer.
Idle == [kind |-> "idle"]
Calls == {"handshake", "watch", "container", "delete"}
Pending == [kind : Calls, step : {"asked", "answered", "watchers", "triggers"},
            snap : Docs, ids : SUBSET Container]

TypeOK ==
  /\ agentUp \in BOOLEAN /\ agentDocs \in Docs /\ version \in Doc
  /\ phase \in Phase /\ wire \in Seq(Event) /\ Len(wire) <= MaxWire
  /\ docs \in Docs /\ saved \in Docs /\ isConnected \in BOOLEAN
  /\ registered \subseteq {"watcher", "trigger"}
  /\ request \in [Request -> {Idle} \cup Pending]
  /\ faults \in 0..MaxFaults

Init ==
  /\ agentUp = TRUE /\ agentDocs = Empty /\ version = 0
  /\ phase = "asking" /\ wire = <<>>
  /\ docs = Empty /\ saved = Empty /\ isConnected = FALSE /\ registered = {}
  /\ request = [r \in Request |-> Idle]
  /\ faults = 0

Fault == faults < MaxFaults /\ faults' = faults + 1

-------------------------------------------------------------------------------
(* The agent: app/agent/api/event.ts and its store. *)

\* sendSseEvent writes to the clients that are subscribed now.
SendSseEvent(m) ==
  /\ phase = "open" => Len(wire) < MaxWire
  /\ wire' = IF phase = "open" THEN Append(wire, m) ELSE wire

ContainerEvent(c, v) == [type |-> "container", id |-> c, doc |-> v]
RemovedEvent(c) == [type |-> "removed", id |-> c]

\* A container is added or its document changes.
Change(c) ==
  /\ agentUp /\ version < MaxVersion
  /\ version' = version + 1
  /\ agentDocs' = [agentDocs EXCEPT ![c] = version']
  /\ SendSseEvent(ContainerEvent(c, version'))
  /\ UNCHANGED <<agentUp, phase, docs, saved, isConnected, registered, request,
                 faults>>

\* A watch cycle stores a document again, unchanged: the event is sent anyway.
Announce(c) ==
  /\ agentUp /\ agentDocs[c] # 0
  /\ SendSseEvent(ContainerEvent(c, agentDocs[c]))
  /\ UNCHANGED <<agentVars, phase, docs, saved, isConnected, registered,
                 request, faults>>

\* The agent prunes a container that is gone.
Remove(c) ==
  /\ agentUp /\ agentDocs[c] # 0
  /\ agentDocs' = [agentDocs EXCEPT ![c] = 0]
  /\ SendSseEvent(RemovedEvent(c))
  /\ UNCHANGED <<agentUp, version, phase, docs, saved, isConnected, registered,
                 request, faults>>

\* The process ends: its sockets close and its store is lost.
AgentCrash ==
  /\ Fault
  /\ agentUp /\ agentUp' = FALSE
  /\ agentDocs' = Empty
  /\ phase' = IF phase = "open" THEN "cut" ELSE phase
  /\ UNCHANGED <<version, wire, docs, saved, isConnected, registered, request>>

AgentStart ==
  /\ ~agentUp /\ agentUp' = TRUE
  /\ UNCHANGED <<agentDocs, version, linkVars, docs, saved, isConnected,
                 registered, request, faults>>

-------------------------------------------------------------------------------
(* The stream at the controller: startSse and scheduleReconnect. *)

\* Mutant: the early return is taken, as if the timer that fired were still set.
TimerStillSet == wire' = <<>> /\ UNCHANGED <<phase, isConnected>>

\* The stream or the attempt is over, so no timer is pending here: Node emits
\* "error" or "end" of a stream, not both, and a timer clears itself.
ScheduleReconnect ==
  /\ phase' = "waiting" /\ wire' = <<>>
  /\ isConnected' = FALSE

TimerFires ==
  /\ phase = "waiting" /\ phase' = "asking"
  /\ UNCHANGED <<agentVars, wire, docs, saved, isConnected, registered,
                 request, faults>>

\* subscribeEvents: the client is added and gets its ack in one step.
SubscribeEvents ==
  /\ phase = "asking" /\ agentUp
  /\ phase' = "open" /\ wire' = <<Ack>>
  /\ UNCHANGED <<agentVars, docs, saved, isConnected, registered, request,
                 faults>>

SubscribeFails ==
  /\ phase = "asking"
  /\ IF agentUp THEN Fault ELSE UNCHANGED faults
  /\ ScheduleReconnect
  /\ UNCHANGED <<agentVars, docs, saved, registered, request>>

LinkBreaks ==
  /\ Fault
  /\ phase = "open" /\ phase' = "cut"
  /\ UNCHANGED <<agentVars, wire, docs, saved, isConnected, registered, request>>

\* The stream emits "error" or "end"; events that had not arrived are lost.
StreamEnds ==
  /\ phase = "cut"
  /\ ScheduleReconnect
  /\ UNCHANGED <<agentVars, docs, saved, registered, request, faults>>

-------------------------------------------------------------------------------
(* Events at the controller: handleEvent. *)

Ask(r, kind, ids) ==
  /\ request[r] = Idle
  /\ request' = [request EXCEPT
       ![r] = [kind |-> kind, step |-> "asked", snap |-> Empty, ids |-> ids]]

NextEvent(type) ==
  /\ phase \in {"open", "cut"}
  /\ wire # <<>> /\ Head(wire).type = type
  /\ wire' = Tail(wire)

\* The handshake is started and not awaited: several may be under way.
OnAck ==
  /\ NextEvent("ack")
  /\ \E r \in Request : Ask(r, "handshake", Container)
  /\ UNCHANGED <<agentVars, phase, docs, saved, isConnected, registered, faults>>

\* Mutant: a container that is in the store is not updated.
InsertsOnly ==
  /\ NextEvent("container")
  /\ docs' = [docs EXCEPT ![Head(wire).id] = IF @ = 0 THEN Head(wire).doc ELSE @]
  /\ UNCHANGED <<agentVars, phase, saved, isConnected, registered, request,
                 faults>>

\* processContainer: inserted or replaced, whatever the store holds.
OnContainer ==
  /\ NextEvent("container")
  /\ docs' = [docs EXCEPT ![Head(wire).id] = Head(wire).doc]
  /\ UNCHANGED <<agentVars, phase, saved, isConnected, registered, request,
                 faults>>

OnRemoved ==
  /\ NextEvent("removed")
  /\ docs' = [docs EXCEPT ![Head(wire).id] = 0]
  /\ UNCHANGED <<agentVars, phase, saved, isConnected, registered, request,
                 faults>>

-------------------------------------------------------------------------------
(* Requests: handshake, watch, watchContainer and deleteContainer. *)

Pends(r, step) == request[r] # Idle /\ request[r].step = step
Is(r, kinds) == request[r] # Idle /\ request[r].kind \in kinds
Moves(r, step) == request' = [request EXCEPT ![r].step = step]
Ends(r) == request' = [request EXCEPT ![r] = Idle]

\* Bound: calls of users leave a slot for the handshakes.
Asks(r, kind, ids) ==
  /\ phase # "down" /\ \E s \in Request \ {r} : request[s] = Idle
  /\ Ask(r, kind, ids)

\* A user, or another component, calls the AgentWatcher.
AskWatch(r) ==
  /\ "watcher" \in registered
  /\ Asks(r, "watch", Container)
  /\ UNCHANGED <<agentVars, linkVars, docs, saved, isConnected, registered,
                 faults>>

AskWatchContainer(r, c) ==
  /\ "watcher" \in registered /\ docs[c] # 0
  /\ Asks(r, "container", {c})
  /\ UNCHANGED <<agentVars, linkVars, docs, saved, isConnected, registered,
                 faults>>

AskDelete(r, c) ==
  /\ docs[c] # 0
  /\ Asks(r, "delete", {c})
  /\ UNCHANGED <<agentVars, linkVars, docs, saved, isConnected, registered,
                 faults>>

\* The agent reads its store, or runs the watch and lists what it stored.
Answers(r) ==
  /\ agentUp /\ Pends(r, "asked") /\ ~Is(r, {"delete"})
  /\ Is(r, {"container"}) => \A c \in request[r].ids : agentDocs[c] # 0
  /\ request' = [request EXCEPT ![r].step = "answered", ![r].snap = agentDocs]
  /\ UNCHANGED <<agentVars, linkVars, docs, saved, isConnected, registered,
                 faults>>

\* The agent's Docker does not answer: its watch catches that and finds nothing.
AnswersNothing(r) ==
  /\ Fault
  /\ agentUp /\ Pends(r, "asked") /\ Is(r, {"watch"})
  /\ request' = [request EXCEPT ![r].step = "answered", ![r].snap = Empty]
  /\ UNCHANGED <<agentVars, linkVars, docs, saved, isConnected, registered>>

\* The agent deletes the containers of a delete request it still has (204).
AgentDeletes(r) ==
  /\ agentUp /\ Pends(r, "asked") /\ Is(r, {"delete"})
  /\ \E c \in request[r].ids :
       IF agentDocs[c] = 0
       THEN UNCHANGED <<agentDocs, wire>>
       ELSE /\ agentDocs' = [agentDocs EXCEPT ![c] = 0]
            /\ SendSseEvent(RemovedEvent(c))
  /\ Moves(r, "answered")
  /\ UNCHANGED <<agentUp, version, phase, docs, saved, isConnected, registered,
                 faults>>

\* Every container of the answer is processed ...
Processed(snap) == [c \in Container |-> IF snap[c] # 0 THEN snap[c] ELSE docs[c]]

\* Mutant: nothing is pruned.
KeepsOldContainers(ids, snap, d) == d

\* ... then what the store holds and the answer does not is deleted.
PruneOldContainers(ids, snap, d) ==
  [c \in Container |-> IF c \in ids /\ snap[c] = 0 THEN 0 ELSE d[c]]

\* The loops over an answer only await what is already there, so no other
\* event is handled in between.  A handshake then deregisters the components.
HandshakeApplied(r) ==
  /\ Pends(r, "answered") /\ Is(r, {"handshake"})
  /\ docs' = LET snap == request[r].snap
             IN PruneOldContainers(Container, snap, Processed(snap))
  /\ registered' = {}
  /\ Moves(r, "watchers")
  /\ UNCHANGED <<agentVars, linkVars, saved, isConnected, faults>>

WatchApplied(r) ==
  /\ Pends(r, "answered") /\ Is(r, {"watch"})
  /\ docs' = LET snap == request[r].snap
             IN PruneOldContainers(Container, snap, Processed(snap))
  /\ Ends(r)
  /\ UNCHANGED <<agentVars, linkVars, saved, isConnected, registered, faults>>

WatchContainerApplied(r) ==
  /\ Pends(r, "answered") /\ Is(r, {"container"})
  /\ docs' = [c \in Container |->
                IF c \in request[r].ids THEN request[r].snap[c] ELSE docs[c]]
  /\ Ends(r)
  /\ UNCHANGED <<agentVars, linkVars, saved, isConnected, registered, faults>>

\* The store deletes what the agent deleted or, on a 404, did not have.
DeleteApplied(r) ==
  /\ Pends(r, "answered") /\ Is(r, {"delete"})
  /\ docs' = [c \in Container |-> IF c \in request[r].ids THEN 0 ELSE docs[c]]
  /\ Ends(r)
  /\ UNCHANGED <<agentVars, linkVars, saved, isConnected, registered, faults>>

\* The agent's components are registered, or the fetch fails with a warning.
Registers(kind) ==
  \/ agentUp /\ registered' = registered \cup {kind} /\ UNCHANGED faults
  \/ agentUp /\ Fault /\ UNCHANGED registered
  \/ ~agentUp /\ UNCHANGED <<registered, faults>>

WatchersFetched(r) ==
  /\ Pends(r, "watchers")
  /\ Registers("watcher")
  /\ Moves(r, "triggers")
  /\ UNCHANGED <<agentVars, linkVars, docs, saved, isConnected>>

TriggersFetched(r) ==
  /\ Pends(r, "triggers")
  /\ Registers("trigger")
  /\ isConnected' = TRUE
  /\ Ends(r)
  /\ UNCHANGED <<agentVars, linkVars, docs, saved>>

\* No answer arrives.  The caller of a watch or a delete gets an error; nobody
\* awaits a handshake: its rejection is unhandled and Node ends the process.
RequestFails(r) ==
  /\ Pends(r, "asked") \/ Pends(r, "answered")
  /\ IF agentUp THEN Fault ELSE UNCHANGED faults
  /\ IF Is(r, {"handshake"})
     THEN /\ phase' = "down" /\ wire' = <<>>
          /\ docs' = saved
          /\ isConnected' = FALSE /\ registered' = {}
          /\ request' = [s \in Request |-> Idle]
     ELSE /\ Ends(r)
          /\ UNCHANGED <<linkVars, docs, isConnected, registered>>
  /\ UNCHANGED <<agentVars, saved>>

\* The agent does not know the container of a watchContainer (404).
NotFound(r) ==
  /\ agentUp /\ Pends(r, "asked") /\ Is(r, {"container"})
  /\ \E c \in request[r].ids : agentDocs[c] = 0
  /\ Ends(r)
  /\ UNCHANGED <<agentVars, linkVars, docs, saved, isConnected, registered,
                 faults>>

\* The autosave of the controller's store.
Autosave ==
  /\ phase # "down" /\ saved # docs
  /\ saved' = docs
  /\ UNCHANGED <<agentVars, linkVars, docs, isConnected, registered, request,
                 faults>>

\* The restart policy of the controller's container; init calls startSse.
Restart ==
  /\ phase = "down" /\ phase' = "asking"
  /\ UNCHANGED <<agentVars, wire, docs, saved, isConnected, registered,
                 request, faults>>

-------------------------------------------------------------------------------
Agent == \/ AgentCrash \/ AgentStart
         \/ \E c \in Container : Change(c) \/ Announce(c) \/ Remove(c)

HandleEvent == OnAck \/ OnContainer \/ OnRemoved

Serve(r) == \/ Answers(r) \/ AnswersNothing(r) \/ AgentDeletes(r) \/ NotFound(r)
            \/ HandshakeApplied(r) \/ WatchApplied(r)
            \/ WatchContainerApplied(r) \/ DeleteApplied(r)
            \/ WatchersFetched(r) \/ TriggersFetched(r) \/ RequestFails(r)

UserAsks(r) == \/ AskWatch(r)
               \/ \E c \in Container : AskWatchContainer(r, c) \/ AskDelete(r, c)

Link == TimerFires \/ SubscribeEvents \/ SubscribeFails \/ LinkBreaks \/ StreamEnds

Next == \/ Agent \/ Link \/ HandleEvent \/ Autosave \/ Restart
        \/ \E r \in Request : Serve(r) \/ UserAsks(r)

Spec == Init /\ [][Next]_vars

\* Timers fire, attempts and requests end one way or the other, a closed socket
\* is noticed, what arrived is handled, Docker restarts the controller, and the
\* agent's watch cycles announce every container again and again.
Fairness ==
  /\ WF_vars(TimerFires) /\ WF_vars(SubscribeEvents \/ SubscribeFails)
  /\ WF_vars(StreamEnds) /\ WF_vars(HandleEvent) /\ WF_vars(Restart)
  /\ \A r \in Request : WF_vars(Serve(r))
  /\ \A c \in Container : SF_vars(Announce(c))

LiveSpec == Spec /\ Fairness

-------------------------------------------------------------------------------
(* Properties. *)

\* Whatever answers overtake events, an agent that stays up ends up with every
\* container it has shown by the controller as it is: a stale answer of
\* processContainer (AgentClient.ts:155) is repaired by the next event.
Fresh ==
  <>[]agentUp => <>[](\A c \in Container : agentDocs[c] # 0 => docs[c] = agentDocs[c])

\* An agent that stays up is reported connected in the end, also when a
\* handshake failed, broke the controller or overlapped another (:114-153); one
\* that stays down is reported disconnected, although a late handshake may set
\* isConnected after the stream ended (:152, :186).
ShownAsItIs == /\ <>[]agentUp => <>[]isConnected
               /\ <>[]~agentUp => <>[]~isConnected

\* When watches of the agent keep being answered, the controller ends up with
\* exactly the agent's containers: a container that a late answer brought back
\* after its removal does not survive the next prune (:83-98, :363).
Mirrored ==
  <>[]agentUp /\ []<><<\E r \in Request : WatchApplied(r)>>_vars
    => <>[](docs = agentDocs)

\* AgentClient.ts:95 logs a pruned container as removed on the agent: an answer
\* prunes no container the agent has.  It does, when the agent's watch fails.
PrunedIsRemoved ==
  [][\A r \in Request : WatchApplied(r) =>
       \A c \in Container : docs[c] # 0 /\ docs'[c] = 0 => agentDocs[c] = 0]_vars
===============================================================================
