--------------------------- MODULE AgentLinkProofs ---------------------------
(***************************************************************************)
(* What holds of the mirror of an agent for any containers, any number of  *)
(* requests in flight and any bounds.                                      *)
(***************************************************************************)
EXTENDS AgentLink, SequenceTheorems, TLAPS

\* The parts of the type invariant, as the actions touch them.
AgentOK   == agentUp \in BOOLEAN /\ agentDocs \in Docs /\ version \in Doc
WireOK    == wire \in Seq(Event) /\ Len(wire) <= MaxWire
StoreOK   == docs \in Docs /\ saved \in Docs
ShownOK   == /\ phase \in Phase /\ isConnected \in BOOLEAN
             /\ registered \subseteq {"watcher", "trigger"}
RequestOK == request \in [Request -> {Idle} \cup Pending]
FaultsOK  == faults \in 0..MaxFaults

LEMMA Parts ==
  TypeOK <=> AgentOK /\ WireOK /\ StoreOK /\ ShownOK /\ RequestOK /\ FaultsOK
  BY DEF TypeOK, AgentOK, WireOK, StoreOK, ShownOK, RequestOK, FaultsOK

\* Processing an answer and pruning against it leaves exactly the answer.
LEMMA AnswerReplacesStore ==
  ASSUME NEW snap \in Docs
  PROVE  PruneOldContainers(Container, snap, Processed(snap)) = snap
  BY DEF PruneOldContainers, Processed, Docs

\* Forgetting one container leaves documents.
LEMMA ForgetType ==
  ASSUME NEW d \in Docs, NEW c  PROVE [d EXCEPT ![c] = 0] \in Docs
<1>1. 0 \in Doc  BY BoundsAssumption DEF Doc
<1>2. QED  BY <1>1 DEF Docs

LEMMA SendType ==
  ASSUME WireOK, NEW m \in Event, SendSseEvent(m)
  PROVE  WireOK'
<1>1. CASE phase = "open"
  <2>1. wire' = Append(wire, m) /\ Len(wire) < MaxWire
    BY <1>1 DEF SendSseEvent
  <2>2. wire' \in Seq(Event) /\ Len(wire') = Len(wire) + 1
    BY <2>1, AppendProperties DEF WireOK
  <2>3. Len(wire) \in Nat  BY LenProperties DEF WireOK
  <2>4. QED  BY <2>1, <2>2, <2>3, BoundsAssumption DEF WireOK
<1>2. CASE phase # "open"
  BY <1>2 DEF SendSseEvent, WireOK
<1>3. QED  BY <1>1, <1>2

LEMMA NextEventType ==
  ASSUME WireOK, NEW type, NextEvent(type)
  PROVE  /\ WireOK'
         /\ Head(wire) \in Event /\ Head(wire).type = type
<1>1. wire \in Seq(Event) /\ wire # <<>>  BY DEF WireOK, NextEvent
<1>2. /\ Head(wire) \in Event /\ Tail(wire) \in Seq(Event)
      /\ Len(Tail(wire)) = Len(wire) - 1
  BY <1>1, HeadTailProperties
<1>3. Len(wire) \in Nat  BY <1>1, LenProperties
<1>4. QED  BY <1>2, <1>3, BoundsAssumption DEF NextEvent, WireOK

LEMMA EmptyWire ==
  <<>> \in Seq(Event) /\ Len(<<>>) <= MaxWire
  BY EmptySeq, BoundsAssumption

LEMMA AckWire ==
  <<Ack>> \in Seq(Event) /\ Len(<<Ack>>) <= MaxWire
<1>1. Ack \in Event  BY DEF Event
<1>2. <<Ack>> \in Seq(Event) /\ Len(<<Ack>>) = 1  BY <1>1
<1>3. QED  BY <1>2, BoundsAssumption

LEMMA FaultType == FaultsOK /\ Fault => FaultsOK'
  BY BoundsAssumption DEF FaultsOK, Fault

\* The shapes of a request after a step of it.
LEMMA EndsType == ASSUME RequestOK, NEW r \in Request, Ends(r) PROVE RequestOK'
  BY DEF RequestOK, Ends

LEMMA AskType ==
  ASSUME RequestOK, NEW r \in Request, NEW kind \in Calls,
         NEW ids \in SUBSET Container, Ask(r, kind, ids)
  PROVE  RequestOK'
<1>1. Empty \in Docs  BY BoundsAssumption DEF Empty, Docs, Doc
<1>2. [kind |-> kind, step |-> "asked", snap |-> Empty, ids |-> ids] \in Pending
  BY <1>1 DEF Pending
<1>3. QED  BY <1>2 DEF Ask, RequestOK

LEMMA PendingType ==
  ASSUME RequestOK, NEW r \in Request, request[r] # Idle
  PROVE  request[r] \in Pending
  BY DEF RequestOK

LEMMA MovesType ==
  ASSUME RequestOK, NEW r \in Request, request[r] # Idle,
         NEW step \in {"asked", "answered", "watchers", "triggers"},
         Moves(r, step)
  PROVE  RequestOK'
<1>1. request[r] \in Pending  BY PendingType
<1>2. [request[r] EXCEPT !.step = step] \in Pending  BY <1>1 DEF Pending
<1>3. request' = [request EXCEPT ![r] = [request[r] EXCEPT !.step = step]]
  BY DEF Moves
<1>4. QED  BY <1>2, <1>3 DEF RequestOK

LEMMA AnswerType ==
  ASSUME RequestOK, NEW r \in Request, request[r] # Idle, NEW snap \in Docs,
         request' = [request EXCEPT ![r].step = "answered", ![r].snap = snap]
  PROVE  RequestOK'
<1>1. request[r] \in Pending  BY PendingType
<1>2. DEFINE q == [request[r] EXCEPT !.step = "answered", !.snap = snap]
<1>3. q \in Pending  BY <1>1 DEF Pending
<1>4. request' = [request EXCEPT ![r] = q]
  BY DEF RequestOK
<1>5. QED  BY <1>3, <1>4 DEF RequestOK

-------------------------------------------------------------------------------
\* One lemma per group of actions of Next.

LEMMA AgentType == TypeOK /\ Agent => TypeOK'
<1> SUFFICES ASSUME TypeOK, Agent PROVE TypeOK'
  OBVIOUS
<1>0. WireOK /\ FaultsOK  BY Parts
<1>1. CASE AgentCrash
  <2>1. Empty \in Docs  BY BoundsAssumption DEF Empty, Docs, Doc
  <2>2. FaultsOK'  BY <1>0, <1>1, FaultType DEF AgentCrash
  <2>3. phase' \in Phase  BY <1>1 DEF AgentCrash, TypeOK, Phase
  <2>4. agentUp' \in BOOLEAN /\ agentDocs' \in Docs
    BY <1>1, <2>1 DEF AgentCrash
  <2>5. QED
    BY <1>1, <2>2, <2>3, <2>4 DEF AgentCrash, TypeOK, FaultsOK
<1>2. CASE AgentStart
  BY <1>2 DEF AgentStart, agentVars, linkVars, TypeOK
<1>3. ASSUME NEW c \in Container, Change(c) PROVE TypeOK'
  <2>1. version' \in Doc /\ version' \in Doc \ {0}
    BY <1>3, BoundsAssumption DEF Change, TypeOK, Doc
  <2>2. agentDocs' \in Docs  BY <1>3, <2>1 DEF Change, TypeOK, Docs
  <2>3. ContainerEvent(c, version') \in Event
    BY <2>1 DEF ContainerEvent, Event
  <2>4. WireOK'  BY <1>0, <1>3, <2>3, SendType DEF Change
  <2>5. QED  BY <1>3, <2>1, <2>2, <2>4 DEF Change, TypeOK, WireOK
<1>4. ASSUME NEW c \in Container, Announce(c) PROVE TypeOK'
  <2>1. agentDocs[c] \in Doc \ {0}  BY <1>4 DEF Announce, TypeOK, Docs
  <2>2. ContainerEvent(c, agentDocs[c]) \in Event
    BY <2>1 DEF ContainerEvent, Event
  <2>3. WireOK'  BY <1>0, <1>4, <2>2, SendType DEF Announce
  <2>4. QED  BY <1>4, <2>3 DEF Announce, agentVars, TypeOK, WireOK
<1>5. ASSUME NEW c \in Container, Remove(c) PROVE TypeOK'
  <2>1. agentDocs' \in Docs
    BY <1>5, ForgetType DEF Remove, TypeOK
  <2>2. RemovedEvent(c) \in Event  BY DEF RemovedEvent, Event
  <2>3. WireOK'  BY <1>0, <1>5, <2>2, SendType DEF Remove
  <2>4. QED  BY <1>5, <2>1, <2>3 DEF Remove, TypeOK, WireOK
<1>6. QED  BY <1>1, <1>2, <1>3, <1>4, <1>5 DEF Agent

LEMMA LinkType == TypeOK /\ Link => TypeOK'
<1> SUFFICES ASSUME TypeOK, Link PROVE TypeOK'
  OBVIOUS
<1>1. CASE TimerFires
  BY <1>1 DEF TimerFires, agentVars, TypeOK, Phase
<1>2. CASE SubscribeEvents
  BY <1>2, AckWire DEF SubscribeEvents, agentVars, TypeOK, Phase
<1>3. CASE SubscribeFails
  <2>1. faults' \in 0..MaxFaults
    BY <1>3, FaultType DEF SubscribeFails, TypeOK, FaultsOK
  <2>2. QED
    BY <1>3, <2>1, EmptyWire
       DEF SubscribeFails, ScheduleReconnect, agentVars, TypeOK, Phase
<1>4. CASE LinkBreaks
  <2>1. faults' \in 0..MaxFaults
    BY <1>4, FaultType DEF LinkBreaks, TypeOK, FaultsOK
  <2>2. QED  BY <1>4, <2>1 DEF LinkBreaks, agentVars, TypeOK, Phase
<1>5. CASE StreamEnds
  BY <1>5, EmptyWire DEF StreamEnds, ScheduleReconnect, agentVars, TypeOK, Phase
<1>6. QED  BY <1>1, <1>2, <1>3, <1>4, <1>5 DEF Link

LEMMA EventType == TypeOK /\ HandleEvent => TypeOK'
<1> SUFFICES ASSUME TypeOK, HandleEvent PROVE TypeOK'
  OBVIOUS
<1>0. WireOK /\ RequestOK  BY Parts
<1>1. CASE OnAck
  <2>1. WireOK'  BY <1>0, <1>1, NextEventType DEF OnAck
  <2>2. RequestOK'  BY <1>0, <1>1, AskType DEF OnAck, Calls
  <2>3. QED
    BY <1>1, <2>1, <2>2 DEF OnAck, agentVars, TypeOK, WireOK, RequestOK
<1>2. CASE OnContainer
  <2>1. WireOK' /\ Head(wire) \in Event /\ Head(wire).type = "container"
    BY <1>0, <1>2, NextEventType DEF OnContainer
  <2>2. Head(wire).doc \in Doc  BY <2>1 DEF Event, Ack
  <2>3. docs' \in Docs  BY <1>2, <2>2 DEF OnContainer, TypeOK, Docs
  <2>4. QED
    BY <1>2, <2>1, <2>3 DEF OnContainer, agentVars, TypeOK, WireOK
<1>3. CASE OnRemoved
  <2>1. WireOK'  BY <1>0, <1>3, NextEventType DEF OnRemoved
  <2>2. docs' \in Docs
    BY <1>3, ForgetType DEF OnRemoved, TypeOK
  <2>3. QED
    BY <1>3, <2>1, <2>2 DEF OnRemoved, agentVars, TypeOK, WireOK
<1>4. QED  BY <1>1, <1>2, <1>3 DEF HandleEvent

LEMMA UserType ==
  ASSUME TypeOK, NEW r \in Request, UserAsks(r)  PROVE TypeOK'
<1>0. RequestOK  BY Parts
<1>1. CASE AskWatch(r)
  <2>1. RequestOK'  BY <1>0, <1>1, AskType DEF AskWatch, Asks, Calls
  <2>2. QED
    BY <1>1, <2>1 DEF AskWatch, agentVars, linkVars, TypeOK, RequestOK
<1>2. ASSUME NEW c \in Container, AskWatchContainer(r, c) PROVE TypeOK'
  <2>1. RequestOK'  BY <1>0, <1>2, AskType DEF AskWatchContainer, Asks, Calls
  <2>2. QED
    BY <1>2, <2>1 DEF AskWatchContainer, agentVars, linkVars, TypeOK, RequestOK
<1>3. ASSUME NEW c \in Container, AskDelete(r, c) PROVE TypeOK'
  <2>1. RequestOK'  BY <1>0, <1>3, AskType DEF AskDelete, Asks, Calls
  <2>2. QED
    BY <1>3, <2>1 DEF AskDelete, agentVars, linkVars, TypeOK, RequestOK
<1>4. QED  BY <1>1, <1>2, <1>3 DEF UserAsks

LEMMA ServeType ==
  ASSUME TypeOK, NEW r \in Request, Serve(r)  PROVE TypeOK'
<1>0. /\ RequestOK /\ WireOK /\ FaultsOK
      /\ request[r] # Idle => request[r] \in Pending
  BY Parts, PendingType
<1>e. Empty \in Docs  BY BoundsAssumption DEF Empty, Docs, Doc
<1>1. CASE Answers(r)
  <2>1. RequestOK'
    BY <1>0, <1>1, AnswerType DEF Answers, Pends, TypeOK
  <2>2. QED
    BY <1>1, <2>1 DEF Answers, agentVars, linkVars, TypeOK, RequestOK
<1>2. CASE AnswersNothing(r)
  <2>1. RequestOK'
    BY <1>0, <1>e, <1>2, AnswerType DEF AnswersNothing, Pends
  <2>2. FaultsOK'  BY <1>0, <1>2, FaultType DEF AnswersNothing
  <2>3. QED
    BY <1>2, <2>1, <2>2
       DEF AnswersNothing, agentVars, linkVars, TypeOK, RequestOK, FaultsOK
<1>3. CASE AgentDeletes(r)
  <2>1. RequestOK'
    BY <1>0, <1>3, MovesType DEF AgentDeletes, Pends
  <2>2. PICK c \in request[r].ids :
          IF agentDocs[c] = 0
          THEN UNCHANGED <<agentDocs, wire>>
          ELSE /\ agentDocs' = [agentDocs EXCEPT ![c] = 0]
               /\ SendSseEvent(RemovedEvent(c))
    BY <1>3 DEF AgentDeletes
  <2>3. c \in Container  BY <1>0, <1>3, <2>2 DEF AgentDeletes, Pends, Pending
  <2>4. agentDocs' \in Docs
    BY <2>2, ForgetType DEF TypeOK
  <2>5. RemovedEvent(c) \in Event  BY <2>3 DEF RemovedEvent, Event
  <2>6. WireOK'
    <3>1. CASE agentDocs[c] = 0  BY <1>0, <2>2, <3>1 DEF WireOK
    <3>2. CASE agentDocs[c] # 0  BY <1>0, <2>2, <2>5, <3>2, SendType
    <3>3. QED  BY <3>1, <3>2
  <2>7. QED
    BY <1>3, <2>1, <2>4, <2>6 DEF AgentDeletes, TypeOK, RequestOK, WireOK
<1>4. CASE NotFound(r)
  <2>1. RequestOK'  BY <1>0, <1>4, EndsType DEF NotFound
  <2>2. QED
    BY <1>4, <2>1 DEF NotFound, agentVars, linkVars, TypeOK, RequestOK
<1>5. CASE HandshakeApplied(r)
  <2>1. RequestOK'
    BY <1>0, <1>5, MovesType DEF HandshakeApplied, Pends
  <2>2. docs' \in Docs
    <3>1. request[r].snap \in Docs
      BY <1>0, <1>5 DEF HandshakeApplied, Pends, Pending
    <3>2. QED  BY <1>5, <3>1, AnswerReplacesStore DEF HandshakeApplied
  <2>3. QED
    BY <1>5, <2>1, <2>2
       DEF HandshakeApplied, agentVars, linkVars, TypeOK, RequestOK
<1>6. CASE WatchApplied(r)
  <2>1. RequestOK'  BY <1>0, <1>6, EndsType DEF WatchApplied
  <2>2. docs' \in Docs
    <3>1. request[r].snap \in Docs
      BY <1>0, <1>6 DEF WatchApplied, Pends, Pending
    <3>2. QED  BY <1>6, <3>1, AnswerReplacesStore DEF WatchApplied
  <2>3. QED
    BY <1>6, <2>1, <2>2 DEF WatchApplied, agentVars, linkVars, TypeOK, RequestOK
<1>7. CASE WatchContainerApplied(r)
  <2>1. RequestOK'  BY <1>0, <1>7, EndsType DEF WatchContainerApplied
  <2>2. request[r].snap \in Docs
    BY <1>0, <1>7 DEF WatchContainerApplied, Pends, Pending
  <2>3. docs' \in Docs
    BY <1>7, <2>2 DEF WatchContainerApplied, TypeOK, Docs
  <2>4. QED
    BY <1>7, <2>1, <2>3
       DEF WatchContainerApplied, agentVars, linkVars, TypeOK, RequestOK
<1>8. CASE DeleteApplied(r)
  <2>1. RequestOK'  BY <1>0, <1>8, EndsType DEF DeleteApplied
  <2>2. docs' \in Docs
    BY <1>8, BoundsAssumption DEF DeleteApplied, TypeOK, Docs, Doc
  <2>3. QED
    BY <1>8, <2>1, <2>2 DEF DeleteApplied, agentVars, linkVars, TypeOK, RequestOK
<1>9. ASSUME NEW kind \in {"watcher", "trigger"}, Registers(kind)
      PROVE  registered' \subseteq {"watcher", "trigger"} /\ FaultsOK'
  BY <1>0, <1>9, FaultType DEF Registers, TypeOK, FaultsOK
<1>10. CASE WatchersFetched(r)
  <2>1. RequestOK'
    BY <1>0, <1>10, MovesType DEF WatchersFetched, Pends
  <2>2. registered' \subseteq {"watcher", "trigger"} /\ FaultsOK'
    BY <1>9, <1>10 DEF WatchersFetched
  <2>3. QED
    BY <1>10, <2>1, <2>2
       DEF WatchersFetched, agentVars, linkVars, TypeOK, RequestOK, FaultsOK
<1>11. CASE TriggersFetched(r)
  <2>1. RequestOK'  BY <1>0, <1>11, EndsType DEF TriggersFetched
  <2>2. registered' \subseteq {"watcher", "trigger"} /\ FaultsOK'
    BY <1>9, <1>11 DEF TriggersFetched
  <2>3. QED
    BY <1>11, <2>1, <2>2
       DEF TriggersFetched, agentVars, linkVars, TypeOK, RequestOK, FaultsOK
<1>12. CASE RequestFails(r)
  <2>1. FaultsOK'  BY <1>0, <1>12, FaultType DEF RequestFails, FaultsOK
  <2>2. CASE Is(r, {"handshake"})
    <3>1. request' \in [Request -> {Idle} \cup Pending]
      BY <1>12, <2>2 DEF RequestFails
    <3>2. QED
      BY <1>12, <2>1, <2>2, <3>1, EmptyWire
         DEF RequestFails, agentVars, TypeOK, FaultsOK, Phase
  <2>3. CASE ~Is(r, {"handshake"})
    <3>1. RequestOK'  BY <1>0, <1>12, <2>3, EndsType DEF RequestFails
    <3>2. QED
      BY <1>12, <2>1, <2>3, <3>1
         DEF RequestFails, agentVars, linkVars, TypeOK, FaultsOK, RequestOK
  <2>4. QED  BY <2>2, <2>3
<1>13. QED
  BY <1>1, <1>2, <1>3, <1>4, <1>5, <1>6, <1>7, <1>8, <1>10, <1>11, <1>12
     DEF Serve

-------------------------------------------------------------------------------
\* The types of the mirror hold in every state, for any number of containers
\* and of requests in flight: in particular nothing but watchers and triggers
\* is registered, and a request only ever carries documents.
THEOREM TypeCorrect == Spec => []TypeOK
<1>1. Init => TypeOK
  <2>1. Empty \in Docs /\ 0 \in Doc /\ 0 \in 0..MaxFaults
    BY BoundsAssumption DEF Empty, Docs, Doc
  <2>2. QED  BY <2>1, EmptyWire DEF Init, TypeOK, Phase
<1>2. TypeOK /\ [Next]_vars => TypeOK'
  <2> SUFFICES ASSUME TypeOK, [Next]_vars PROVE TypeOK'
    OBVIOUS
  <2>1. CASE Agent  BY <2>1, AgentType
  <2>2. CASE Link  BY <2>2, LinkType
  <2>3. CASE HandleEvent  BY <2>3, EventType
  <2>4. CASE Autosave
    BY <2>4 DEF Autosave, agentVars, linkVars, TypeOK
  <2>5. CASE Restart
    BY <2>5 DEF Restart, agentVars, TypeOK, Phase
  <2>6. ASSUME NEW r \in Request, Serve(r) PROVE TypeOK'
    BY <2>6, ServeType
  <2>7. ASSUME NEW r \in Request, UserAsks(r) PROVE TypeOK'
    BY <2>7, UserType
  <2>8. CASE UNCHANGED vars
    BY <2>8 DEF vars, agentVars, linkVars, TypeOK
  <2>9. QED
    BY <2>1, <2>2, <2>3, <2>4, <2>5, <2>6, <2>7, <2>8 DEF Next
<1>3. QED  BY <1>1, <1>2, PTL DEF Spec
===============================================================================
