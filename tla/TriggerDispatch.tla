---------------------------- MODULE TriggerDispatch ----------------------------
(***************************************************************************)
(* How reports reach the triggers (app/triggers/providers/Trigger.ts over  *)
(* the ordered handlers of app/event/index.ts): a report calls one handler *)
(* after the other and waits for each, several reports are under way at    *)
(* once, an update is itself a trigger that reports an applied update, and *)
(* that makes notifications be dismissed.  Handshakes with an agent        *)
(* (AgentLink) deregister and register the agent's triggers meanwhile.     *)
(*                                                                         *)
(* An action is the code up to the next await that really waits: for a     *)
(* message, an update or a dismissal to go out, or for an agent's answer.  *)
(***************************************************************************)
EXTENDS Naturals, Sequences, FiniteSets

CONSTANTS
  Trigger,       \* trigger ids, with auto = true
  Remote,        \* those that stand for a trigger of the agent
  Batch,         \* mode = batch
  Once,          \* once = true
  Resolves,      \* resolvenotifications = true
  Updates,       \* the Docker triggers: they update containers
  Container,
  Ignores,       \* containers a trigger ignores: thresholds, include, exclude
  Rank,          \* the place of a trigger by order and id
  Handshake,     \* slots for handshakes under way
  MaxReports,    \* bound: reports emitted
  MaxHandshakes, \* bound: handshakes
  None

ASSUME TriggerAssumption ==
  /\ Remote \cup Batch \cup Once \cup Resolves \cup Updates \subseteq Trigger
  /\ Updates \cap (Batch \cup Remote \cup Resolves) = {}
  /\ Remote \cap Resolves = {}     \* runRemoteTrigger returns no result
  /\ Ignores \subseteq Trigger \X Container
ASSUME RankAssumption ==
  /\ Rank \in [Trigger -> Nat]
  /\ \A t, u \in Trigger : Rank[t] = Rank[u] => t = u
ASSUME BoundsAssumption == MaxReports \in Nat /\ MaxHandshakes \in Nat

Number   == 1..MaxReports
Instance == 0..MaxHandshakes        \* 0: registered at start
Handler  == [id : Trigger, inst : Instance]
Message  == [by : Trigger, report : Number, of : Container]
Event    == [now : Resolves, msg : Message, left : SUBSET Resolves]
ASSUME NoneAssumption == None \notin Message \cup Event \cup Instance

VARIABLES
  handlers,    \* report handlers that are registered
  registered,  \* the registry: the instance of a trigger, or None
  handshake,   \* the triggers a handshake still has to register
  made,        \* handshakes so far
  report,      \* the reports emitted so far
  results,     \* notificationResults of each trigger
  shown,       \* messages people see
  applied,     \* update-applied events under way
  due,         \* history: messages stored when their update was applied
  obsolete,    \* history: messages whose update was applied
  failed,      \* history: messages whose dismissal failed
  twice        \* history: triggers called twice by one report

agentVars == <<registered, handshake, made>>
history   == <<due, obsolete, failed, twice>>
vars == <<handlers, agentVars, report, results, shown, applied, history>>

-------------------------------------------------------------------------------
(* app/event/index.ts *)

\* compareOrderedHandlers: order and id, then the registration.
Before(h, k) == \/ Rank[h.id] < Rank[k.id]
                \/ h.id = k.id /\ h.inst < k.inst

\* Mutant: the handlers are all called without waiting for each other.
IsAnyOf(h, left) == h \in left

\* The handler that is being called: the first of those left.
IsFirst(h, left) == h \in left /\ \A k \in left \ {h} : Before(h, k)

(* Trigger.ts: mustTrigger, isThresholdReached and the filters around them. *)

\* The containers of a report that a trigger acts on.
ActsOn(t, news, changed) ==
  {c \in news : (c \in changed \/ t \notin Once) /\ <<t, c>> \notin Ignores}

\* emitOrderedHandlers calls those registered now; the others return at once.
Called(batch, news, changed) ==
  {h \in handlers : (h.id \in Batch) = batch /\ ActsOn(h.id, news, changed) # {}}

Message1(t, n, c) == [by |-> t, report |-> n, of |-> c]
Acted(t, n) == ActsOn(t, report[n].news, report[n].changed)
Calls(n, h) == IsFirst(h, report[n].left) /\ ~report[n].waits

-------------------------------------------------------------------------------
(* Update-applied events: handleContainerUpdateApplied of each trigger. *)

\* The triggers with a result to dismiss, from those whose turn has not come.
Dismisses(res, c, left) == {t \in left : res[t][c] # None}

\* Mutant: the results are looked up by the id of the container, kept by name.
FindsNothing(res, c, left) == None

\* What is left of an event when res holds the results: None, or the next
\* dismissal, with the result as it is now.
Rest(res, c, left) ==
  LET some == Dismisses(res, c, left)
  IN IF some = {} THEN None
     ELSE LET t == CHOOSE u \in some : \A v \in some : Rank[u] <= Rank[v]
          IN [now |-> t, msg |-> res[t][c],
              left |-> {u \in left : Rank[u] > Rank[t]}]

\* An update caused by report n, or by a user (n = 0), is over.
StartApplied(c, n) ==
  /\ applied' = [applied EXCEPT ![c][n] = Rest(results, c, Resolves)]
  /\ due' = due \cup {results[t][c] : t \in Dismisses(results, c, Resolves)}
  /\ obsolete' = obsolete \cup
       {m \in Message : /\ m.by \in Resolves /\ m.of = c
                      /\ m.report <= IF n = 0 THEN Len(report) ELSE n}

UserUpdates(c) ==
  /\ Updates # {} /\ applied[c][0] = None
  /\ StartApplied(c, 0)
  /\ UNCHANGED <<handlers, agentVars, report, results, shown, failed, twice>>

\* Mutant: the result stays when its message is dismissed.
KeepsResult(c, n) ==
  /\ UNCHANGED results
  /\ applied' = [applied EXCEPT ![c][n] = Rest(results, c, @.left)]

\* The result is forgotten, whatever it is by now: the finally.
Forget(c, n) ==
  LET e   == applied[c][n]
      res == [results EXCEPT ![e.now][c] = None]
  IN /\ results' = res
     /\ applied' = [applied EXCEPT ![c][n] = Rest(res, c, e.left)]

Dismissed(c, n) ==
  /\ applied[c][n] # None
  /\ shown' = shown \ {applied[c][n].msg}
  /\ Forget(c, n)
  /\ UNCHANGED <<handlers, agentVars, report, history>>

DismissFails(c, n) ==
  /\ applied[c][n] # None
  /\ failed' = failed \cup {applied[c][n].msg}
  /\ Forget(c, n)
  /\ UNCHANGED <<handlers, agentVars, report, shown, due, obsolete, twice>>

-------------------------------------------------------------------------------
(* Reports: handleContainerReport and handleContainerReports. *)

\* watchContainer, processContainer or watch emits and does not wait.
Emit(news, changed, batch) ==
  /\ Len(report) < MaxReports
  /\ report' = Append(report,
       [news |-> news, changed |-> changed, waits |-> FALSE, over |-> {},
        left |-> Called(batch, news, changed)])
  /\ UNCHANGED <<handlers, agentVars, results, shown, applied, history>>

EmitReport == \E c \in Container, changed \in SUBSET Container :
                 changed \subseteq {c} /\ Emit({c}, changed, FALSE)
EmitReports == \E news \in SUBSET Container, changed \in SUBSET Container :
                  /\ news # {} /\ changed \subseteq news /\ Batch # {}
                  /\ Emit(news, changed, TRUE)

\* A handler returns: the next one is called.
Returns(n, h) ==
  /\ report' = [report EXCEPT ![n].left = @ \ {h}, ![n].over = @ \cup {h.id},
                              ![n].waits = FALSE]
  /\ twice' = IF h.id \in report[n].over THEN twice \cup {<<n, h.id>>} ELSE twice

\* A notification goes out; in simple mode its result is kept.
Sent(n, h) ==
  LET t == h.id
      messages == {Message1(t, n, c) : c \in Acted(t, n)}
  IN /\ Calls(n, h) /\ t \notin Updates
     /\ shown' = shown \cup messages
     /\ results' = IF t \notin Resolves \ Batch THEN results
                   ELSE [results EXCEPT ![t] = [c \in Container |->
                           IF c \in Acted(t, n) THEN Message1(t, n, c) ELSE @[c]]]
     /\ Returns(n, h)
     /\ UNCHANGED <<handlers, agentVars, applied, due, obsolete, failed>>

\* The provider, or the update, fails: a warning.
SendFails(n, h) ==
  /\ Calls(n, h)
  /\ Returns(n, h)
  /\ UNCHANGED <<handlers, agentVars, results, shown, applied, due, obsolete,
                 failed>>

\* The Docker trigger has updated its container and awaits the applied event.
Updated(n, h) ==
  /\ Calls(n, h) /\ h.id \in Updates
  /\ \E c \in Acted(h.id, n) : StartApplied(c, n)
  /\ report' = [report EXCEPT ![n].waits = TRUE]
  /\ UNCHANGED <<handlers, agentVars, results, shown, failed, twice>>

UpdateReturns(n, h) ==
  /\ IsFirst(h, report[n].left) /\ report[n].waits
  /\ \A c \in Container : applied[c][n] = None
  /\ Returns(n, h)
  /\ UNCHANGED <<handlers, agentVars, results, shown, applied, due, obsolete,
                 failed>>

-------------------------------------------------------------------------------
(* The triggers of an agent: handshake over app/registry/index.ts. *)

Known(t) == [id |-> t, inst |-> registered[t]]

\* Mutant: the component goes from the registry, its handler stays.
KeepsHandler(t) == {}

\* deregisterComponent: the trigger unregisters its handlers.
Unregistered(t) == IF registered[t] = None THEN {} ELSE {Known(t)}

\* The containers are processed; the components known now are deregistered.
Deregister(s) ==
  /\ handshake[s] = None /\ made < MaxHandshakes
  /\ made' = made + 1
  /\ handlers' = handlers \ UNION {Unregistered(t) : t \in Remote}
  /\ registered' = [t \in Trigger |-> IF t \in Remote THEN None ELSE registered[t]]
  /\ handshake' = [handshake EXCEPT ![s] = [left |-> Remote, inst |-> made']]
  /\ UNCHANGED <<report, results, shown, applied, history>>

\* Mutant: a report under way iterates over the handlers, not over a copy.
RegisterLive(s, t) ==
  /\ handshake[s] # None /\ t \in handshake[s].left
  /\ LET h == [id |-> t, inst |-> handshake[s].inst]
     IN /\ handlers' = handlers \cup {h}
        /\ report' = [n \in DOMAIN report |-> IF report[n].left = {} THEN report[n]
                        ELSE [report[n] EXCEPT !.left = @ \cup {h}]]
  /\ registered' = [registered EXCEPT ![t] = handshake[s].inst]
  /\ handshake' = [handshake EXCEPT ![s].left = @ \ {t}]
  /\ UNCHANGED <<made, results, shown, applied, history>>

\* The agent has answered: a trigger is created and registered.
Register(s, t) ==
  /\ handshake[s] # None /\ t \in handshake[s].left
  /\ handlers' = handlers \cup {[id |-> t, inst |-> handshake[s].inst]}
  /\ registered' = [registered EXCEPT ![t] = handshake[s].inst]
  /\ handshake' = [handshake EXCEPT ![s].left = @ \ {t}]
  /\ UNCHANGED <<made, report, results, shown, applied, history>>

\* All are registered, or the agent or a registration fails with a warning.
HandshakeEnds(s) ==
  /\ handshake[s] # None
  /\ handshake' = [handshake EXCEPT ![s] = None]
  /\ UNCHANGED <<handlers, registered, made, report, results, shown, applied,
                 history>>

-------------------------------------------------------------------------------
Init ==
  /\ handlers = [id : Trigger \ Remote, inst : {0}]
  /\ registered = [t \in Trigger |-> IF t \in Remote THEN None ELSE 0]
  /\ handshake = [s \in Handshake |-> None]
  /\ made = 0
  /\ report = <<>>
  /\ results = [t \in Trigger |-> [c \in Container |-> None]]
  /\ shown = {}
  /\ applied = [c \in Container |-> [n \in 0..MaxReports |-> None]]
  /\ due = {} /\ obsolete = {} /\ failed = {} /\ twice = {}

ReportStep(n) == \E h \in report[n].left :
  Sent(n, h) \/ SendFails(n, h) \/ Updated(n, h) \/ UpdateReturns(n, h)

AppliedStep(c, n) == Dismissed(c, n) \/ DismissFails(c, n)

HandshakeStep(s) == \/ Deregister(s) \/ HandshakeEnds(s)
                    \/ \E t \in Remote : Register(s, t)

Next ==
  \/ EmitReport \/ EmitReports
  \/ \E n \in DOMAIN report : ReportStep(n)
  \/ \E c \in Container : UserUpdates(c)
  \/ \E c \in Container, n \in 0..MaxReports : AppliedStep(c, n)
  \/ \E s \in Handshake : HandshakeStep(s)

Spec == Init /\ [][Next]_vars

-------------------------------------------------------------------------------
(* Properties. *)

Report == [news : SUBSET Container, changed : SUBSET Container, waits : BOOLEAN,
           over : SUBSET Trigger, left : SUBSET Handler]

TypeOK ==
  /\ handlers \in SUBSET Handler
  /\ registered \in [Trigger -> Instance \cup {None}]
  /\ handshake \in [Handshake -> {None} \cup [left : SUBSET Remote,
                                              inst : Instance]]
  /\ made \in 0..MaxHandshakes
  /\ report \in Seq(Report) /\ Len(report) <= MaxReports
  /\ results \in [Trigger -> [Container -> Message \cup {None}]]
  /\ shown \in SUBSET Message
  /\ applied \in [Container -> [0..MaxReports -> Event \cup {None}]]
  /\ due \in SUBSET Message /\ obsolete \in SUBSET Message
  /\ failed \in SUBSET Message /\ twice \in SUBSET (Number \X Trigger)

\* A trigger remembers no message that is gone, whatever reports and updates of
\* a container overlap: what one dismissal deleted is not kept by another (:403).
StoredIsShown ==
  \A t \in Trigger, c \in Container : results[t][c] # None => results[t][c] \in shown

Settled == /\ \A c \in Container, n \in 0..MaxReports : applied[c][n] = None
           /\ \A n \in DOMAIN report : report[n].left = {}

\* What a trigger remembered of a container when its update was applied is
\* dismissed, or the provider refused; a message that overtakes the dismissal
\* does not save it.  (With one resolving trigger: see README.)
DueIsDismissed ==
  (\A c \in Container, n \in 0..MaxReports : applied[c][n] = None)
    => due \cap shown \subseteq failed

\* A report calls no trigger twice, although handshakes replace the instances
\* of the agent's triggers while it is under way (:126-153 of AgentClient.ts).
CalledOnce == twice = {}

\* The handlers of reports are those of the triggers the registry knows: what
\* a handshake replaces does not go on listening.
NoHandlerLeaks ==
  handlers = {Known(t) : t \in {u \in Trigger : registered[u] # None}}

\* While the dismissals of an update are under way, its report has called only
\* the triggers ordered before the one that updates: later ones see them done.
InOrder ==
  \A n \in DOMAIN report, c \in Container :
     applied[c][n] # None =>
       \E h \in report[n].left : /\ h.id \in Updates
                                /\ \A t \in report[n].over : Rank[t] < Rank[h.id]

\* CHANGELOG.md:237: the message sent for an update is deleted once the Docker
\* trigger has applied the update.
UpdatedIsDismissed == Settled => obsolete \cap shown \subseteq failed
===============================================================================
