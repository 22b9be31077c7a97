------------------------ MODULE TriggerDispatchProofs ------------------------
(***************************************************************************)
(* What holds of the dispatch of reports for any triggers, containers and  *)
(* bounds: the types, and that a trigger remembers only what people see.   *)
(***************************************************************************)
EXTENDS TriggerDispatch, WellFoundedInduction, SequenceTheorems, TLAPS

\* The triggers of a set have a first one.
LEMMA First ==
  ASSUME NEW S \in SUBSET Trigger, S # {}
  PROVE  \E u \in S : \A v \in S : Rank[u] <= Rank[v]
<1>1. PICK s \in S : TRUE  OBVIOUS
<1> DEFINE ranks == {Rank[u] : u \in S}
           less  == OpToRel(<, Nat)
<1>2. ranks \subseteq Nat /\ ranks # {}
  BY <1>1, RankAssumption
<1>3. PICK m \in ranks : \A k \in ranks : <<k, m>> \notin less
  <2> HIDE DEF ranks, less
  <2>1. IsWellFoundedOn(less, Nat)  BY NatLessThanWellFounded DEF less
  <2>2. QED  BY <1>2, <2>1, WFMin
<1>4. \A k, l \in Nat : k < l => <<k, l>> \in less
  BY DEF OpToRel
<1>5. \A k \in ranks : m <= k
  <2> SUFFICES ASSUME NEW k \in ranks  PROVE m <= k
    OBVIOUS
  <2>1. m \in Nat /\ k \in Nat  BY <1>2
  <2>2. ~(k < m)
    <3> HIDE DEF less, ranks
    <3>1. QED  BY <2>1, <1>3, <1>4
  <2>3. QED  BY <2>1, <2>2
<1>6. QED  BY <1>5

\* What is left of an event: nothing, or the dismissal of a stored result.
LEMMA RestIs ==
  ASSUME NEW res, NEW c, NEW left \in SUBSET Resolves
  PROVE  \/ Rest(res, c, left) = None /\ \A t \in left : res[t][c] = None
         \/ \E t \in left :
              /\ res[t][c] # None
              /\ \E l \in SUBSET Resolves :
                    Rest(res, c, left) = [now |-> t, msg |-> res[t][c], left |-> l]
<1> DEFINE some == Dismisses(res, c, left)
<1>1. CASE some = {}
  BY <1>1 DEF Rest, Dismisses
<1>2. CASE some # {}
  <2>1. some \in SUBSET Trigger
    BY TriggerAssumption DEF Dismisses
  <2>2. PICK t : t = CHOOSE u \in some : \A v \in some : Rank[u] <= Rank[v]
    OBVIOUS
  <2>3. t \in some
    BY <2>1, <2>2, <1>2, First
  <2>4. Rest(res, c, left) = [now |-> t, msg |-> res[t][c],
                              left |-> {u \in left : Rank[u] > Rank[t]}]
    BY <1>2, <2>2 DEF Rest
  <2>5. {u \in left : Rank[u] > Rank[t]} \in SUBSET Resolves  OBVIOUS
  <2>6. t \in left /\ res[t][c] # None  BY <2>3 DEF Dismisses
  <2>7. QED  BY <2>4, <2>5, <2>6
<1>3. QED  BY <1>1, <1>2

-------------------------------------------------------------------------------
(* The types. *)

\* The parts of the type invariant, as the actions touch them.
AgentOK   == /\ handlers \in SUBSET Handler
             /\ registered \in [Trigger -> Instance \cup {None}]
             /\ handshake \in [Handshake -> {None} \cup [left : SUBSET Remote,
                                                         inst : Instance]]
             /\ made \in 0..MaxHandshakes
ReportOK  == report \in Seq(Report) /\ Len(report) <= MaxReports
ResultsOK == /\ results \in [Trigger -> [Container -> Message \cup {None}]]
             /\ shown \in SUBSET Message
AppliedOK == applied \in [Container -> [0..MaxReports -> Event \cup {None}]]
HistoryOK == /\ due \in SUBSET Message /\ obsolete \in SUBSET Message
             /\ failed \in SUBSET Message /\ twice \in SUBSET (Number \X Trigger)

LEMMA Parts ==
  TypeOK <=> AgentOK /\ ReportOK /\ ResultsOK /\ AppliedOK /\ HistoryOK
  BY DEF TypeOK, AgentOK, ReportOK, ResultsOK, AppliedOK, HistoryOK

LEMMA Reports ==
  ASSUME ReportOK
  PROVE  /\ DOMAIN report = 1..Len(report) /\ Len(report) \in 0..MaxReports
         /\ DOMAIN report \subseteq Number
         /\ \A n \in DOMAIN report : report[n] \in Report
<1>1. DOMAIN report = 1..Len(report) /\ Len(report) \in Nat
  BY LenProperties DEF ReportOK
<1>2. \A n \in DOMAIN report : report[n] \in Report
  BY <1>1, ElementOfSeq DEF ReportOK
<1>3. QED  BY <1>1, <1>2, BoundsAssumption DEF ReportOK, Number

\* Another record in the place of a report.
LEMMA Replaced ==
  ASSUME ReportOK, NEW n \in DOMAIN report, NEW r \in Report,
         report' = [report EXCEPT ![n] = r]
  PROVE  /\ ReportOK' /\ DOMAIN report' = DOMAIN report
         /\ report'[n] = r
         /\ \A k \in DOMAIN report : k # n => report'[k] = report[k]
<1>1. DOMAIN report = 1..Len(report) /\ Len(report) \in Nat
  BY Reports, BoundsAssumption
<1>2. /\ report' \in Seq(Report) /\ Len(report') = Len(report)
      /\ \A j \in 1..Len(report) : report'[j] = IF j = n THEN r ELSE report[j]
  BY <1>1, ExceptSeq DEF ReportOK
<1>3. DOMAIN report' = 1..Len(report')  BY <1>2, LenProperties
<1>4. QED  BY <1>1, <1>2, <1>3 DEF ReportOK

\* A handler that returns leaves its report to the others.
LEMMA ReturnsIs ==
  ASSUME ReportOK, NEW n \in DOMAIN report, NEW h \in report[n].left, Returns(n, h)
  PROVE  /\ ReportOK' /\ DOMAIN report' = DOMAIN report
         /\ report'[n].left = report[n].left \ {h}
         /\ report'[n].over = report[n].over \cup {h.id}
         /\ report'[n].waits = FALSE
         /\ \A k \in DOMAIN report : k # n => report'[k] = report[k]
<1> DEFINE r == [report[n] EXCEPT !.left = @ \ {h}, !.over = @ \cup {h.id},
                                  !.waits = FALSE]
<1>1. report[n] \in Report  BY Reports
<1>2. h \in Handler  BY <1>1 DEF Report
<1>3. /\ r \in Report /\ r.left = report[n].left \ {h}
      /\ r.over = report[n].over \cup {h.id} /\ r.waits = FALSE
  BY <1>1, <1>2 DEF Report, Handler
<1>4. report' = [report EXCEPT ![n] = r]
  BY <1>1 DEF Returns, Report
<1> HIDE DEF r
<1>5. QED  BY <1>3, <1>4, Replaced

\* A report that waits for an update is otherwise as it was.
LEMMA WaitsIs ==
  ASSUME ReportOK, NEW n \in DOMAIN report,
         report' = [report EXCEPT ![n].waits = TRUE]
  PROVE  /\ ReportOK' /\ DOMAIN report' = DOMAIN report
         /\ report'[n].left = report[n].left /\ report'[n].over = report[n].over
         /\ report'[n].waits = TRUE
         /\ \A k \in DOMAIN report : k # n => report'[k] = report[k]
<1> DEFINE r == [report[n] EXCEPT !.waits = TRUE]
<1>1. report[n] \in Report  BY Reports
<1>2. /\ r \in Report /\ r.left = report[n].left /\ r.over = report[n].over
      /\ r.waits = TRUE
  BY <1>1 DEF Report
<1>3. report' = [report EXCEPT ![n] = r]
  BY <1>1 DEF Report
<1> HIDE DEF r
<1>4. QED  BY <1>2, <1>3, Replaced

\* A new report calls handlers that are registered.
LEMMA EmitIs ==
  ASSUME ReportOK, AgentOK, NEW news \in SUBSET Container,
         NEW changed \in SUBSET Container, NEW batch, Emit(news, changed, batch)
  PROVE  /\ ReportOK'
         /\ DOMAIN report' = DOMAIN report \cup {Len(report) + 1}
         /\ Len(report) + 1 \notin DOMAIN report
         /\ report'[Len(report) + 1].left \subseteq handlers
         /\ report'[Len(report) + 1].over = {}
         /\ report'[Len(report) + 1].waits = FALSE
         /\ \A k \in DOMAIN report : report'[k] = report[k]
<1> DEFINE r == [news |-> news, changed |-> changed, waits |-> FALSE,
                 over |-> {}, left |-> Called(batch, news, changed)]
<1>1. Called(batch, news, changed) \subseteq handlers
  BY DEF Called
<1>2. /\ r \in Report /\ r.left \subseteq handlers /\ r.over = {}
      /\ r.waits = FALSE
  BY <1>1 DEF Report, AgentOK
<1>3. report' = Append(report, r) /\ Len(report) < MaxReports
  BY DEF Emit
<1> HIDE DEF r
<1>4. /\ report' \in Seq(Report) /\ Len(report') = Len(report) + 1
      /\ \A i \in 1..Len(report) : report'[i] = report[i]
      /\ report'[Len(report) + 1] = r
  BY <1>2, <1>3, AppendProperties DEF ReportOK
<1>5. /\ DOMAIN report = 1..Len(report) /\ Len(report) \in Nat
      /\ DOMAIN report' = 1..Len(report')
  BY <1>4, Reports, LenProperties DEF ReportOK
<1>6. ReportOK'  BY <1>3, <1>4, <1>5, BoundsAssumption DEF ReportOK
<1>7. DOMAIN report' = DOMAIN report \cup {Len(report) + 1}
  BY <1>4, <1>5
<1>8. Len(report) + 1 \notin DOMAIN report  BY <1>5
<1>9. \A k \in DOMAIN report : report'[k] = report[k]
  BY <1>4, <1>5
<1>10. QED  BY <1>2, <1>4, <1>6, <1>7, <1>8, <1>9

\* What is left of an event is an event.
LEMMA RestType ==
  ASSUME NEW res \in [Trigger -> [Container -> Message \cup {None}]],
         NEW c \in Container, NEW left \in SUBSET Resolves
  PROVE  /\ Rest(res, c, left) \in Event \cup {None}
         /\ Rest(res, c, left) # None =>
              /\ Rest(res, c, left).now \in left
              /\ Rest(res, c, left).msg = res[Rest(res, c, left).now][c]
              /\ Rest(res, c, left).msg # None
<1>1. CASE Rest(res, c, left) = None  BY <1>1
<1>2. CASE Rest(res, c, left) # None
  <2>1. PICK t \in left :
          /\ res[t][c] # None
          /\ \E l \in SUBSET Resolves :
                Rest(res, c, left) = [now |-> t, msg |-> res[t][c], left |-> l]
    BY <1>2, RestIs
  <2>2. PICK l \in SUBSET Resolves :
          Rest(res, c, left) = [now |-> t, msg |-> res[t][c], left |-> l]
    BY <2>1
  <2>3. t \in Trigger /\ t \in Resolves  BY TriggerAssumption
  <2>4. res[t][c] \in Message  BY <2>1, <2>3
  <2>5. QED  BY <2>1, <2>2, <2>3, <2>4 DEF Event
<1>3. QED  BY <1>1, <1>2

LEMMA StartAppliedType ==
  ASSUME TypeOK, NEW c \in Container, NEW n \in 0..MaxReports, StartApplied(c, n)
  PROVE  AppliedOK' /\ due' \in SUBSET Message /\ obsolete' \in SUBSET Message
<1>1. Rest(results, c, Resolves) \in Event \cup {None}
  BY RestType DEF TypeOK
<1>2. AppliedOK'  BY <1>1 DEF StartApplied, TypeOK, AppliedOK
<1>3. \A t \in Dismisses(results, c, Resolves) : results[t][c] \in Message
  BY TriggerAssumption DEF Dismisses, TypeOK
<1>4. QED  BY <1>2, <1>3 DEF StartApplied, TypeOK

LEMMA ForgetType ==
  ASSUME TypeOK, NEW c \in Container, NEW n \in 0..MaxReports,
         applied[c][n] # None, Forget(c, n)
  PROVE  AppliedOK' /\ results' \in [Trigger -> [Container -> Message \cup {None}]]
<1> DEFINE e   == applied[c][n]
           res == [results EXCEPT ![e.now][c] = None]
<1>1. e \in Event  BY DEF TypeOK
<1>2. res \in [Trigger -> [Container -> Message \cup {None}]]
  BY <1>1, TriggerAssumption DEF TypeOK, Event
<1>3. Rest(res, c, e.left) \in Event \cup {None}
  <2> HIDE DEF res, e
  <2>1. e.left \in SUBSET Resolves  BY <1>1 DEF Event
  <2>2. QED  BY <1>2, <2>1, RestType
<1>4. applied' = [applied EXCEPT ![c][n] = Rest(res, c, e.left)] /\ results' = res
  BY DEF Forget
<1> HIDE DEF res, e
<1>5. QED  BY <1>2, <1>3, <1>4 DEF TypeOK, AppliedOK

LEMMA ReturnsType ==
  ASSUME TypeOK, NEW n \in DOMAIN report, NEW h \in report[n].left, Returns(n, h)
  PROVE  ReportOK' /\ twice' \in SUBSET (Number \X Trigger)
<1>1. ReportOK  BY Parts
<1>2. n \in Number /\ h.id \in Trigger  BY <1>1, Reports DEF Report, Handler
<1>3. ReportOK'  BY <1>1, ReturnsIs
<1>4. QED  BY <1>2, <1>3 DEF Returns, TypeOK

\* A notification is about the containers its trigger acts on.
LEMMA SentIs ==
  ASSUME TypeOK, NEW n \in DOMAIN report, NEW h \in report[n].left, Sent(n, h)
  PROVE  /\ h.id \in Trigger /\ n \in Number
         /\ Acted(h.id, n) \subseteq Container
         /\ shown' = shown \cup {Message1(h.id, n, c) : c \in Acted(h.id, n)}
         /\ \A c \in Container : Message1(h.id, n, c) \in Message
         /\ results' \in [Trigger -> [Container -> Message \cup {None}]]
         /\ \A t \in Trigger, c \in Container :
               \/ results'[t][c] = results[t][c]
               \/ /\ t = h.id /\ c \in Acted(t, n)
                  /\ results'[t][c] = Message1(t, n, c)
<1>1. report[n] \in Report /\ n \in Number  BY Reports DEF TypeOK, ReportOK
<1>2. h.id \in Trigger  BY <1>1 DEF Report, Handler
<1>3. Acted(h.id, n) \subseteq Container
  BY <1>1 DEF Acted, ActsOn, Report
<1>4. \A c \in Container : Message1(h.id, n, c) \in Message
  BY <1>1, <1>2 DEF Message1, Message
<1>5. shown' = shown \cup {Message1(h.id, n, c) : c \in Acted(h.id, n)}
  BY DEF Sent
<1> DEFINE new == [c \in Container |-> IF c \in Acted(h.id, n)
                     THEN Message1(h.id, n, c) ELSE results[h.id][c]]
<1>6. results' = results \/ results' = [results EXCEPT ![h.id] = new]
  BY <1>2 DEF Sent, TypeOK
<1>7. results \in [Trigger -> [Container -> Message \cup {None}]]  BY DEF TypeOK
<1>8. /\ new \in [Container -> Message \cup {None}]
      /\ \A c \in Container : \/ new[c] = results[h.id][c]
                              \/ /\ c \in Acted(h.id, n)
                                 /\ new[c] = Message1(h.id, n, c)
  BY <1>2, <1>4, <1>7
<1> HIDE DEF new
<1>9. /\ results' \in [Trigger -> [Container -> Message \cup {None}]]
      /\ \A t \in Trigger, c \in Container :
            \/ results'[t][c] = results[t][c]
            \/ t = h.id /\ results'[t][c] = new[c]
  <2>1. CASE results' = results  BY <2>1, <1>7
  <2>2. CASE results' = [results EXCEPT ![h.id] = new]
    <3>1. \A t \in Trigger : results'[t] = IF t = h.id THEN new ELSE results[t]
      BY <2>2, <1>7
    <3>2. results' \in [Trigger -> [Container -> Message \cup {None}]]
      BY <2>2, <1>7, <1>8
    <3>3. QED  BY <3>1, <3>2
  <2>3. QED  BY <1>6, <2>1, <2>2
<1>10. QED  BY <1>1, <1>2, <1>3, <1>4, <1>5, <1>8, <1>9

LEMMA ReportStepTyped ==
  ASSUME TypeOK, NEW n \in DOMAIN report, ReportStep(n)
  PROVE  TypeOK'
<1>1. PICK h \in report[n].left :
        Sent(n, h) \/ SendFails(n, h) \/ Updated(n, h) \/ UpdateReturns(n, h)
  BY DEF ReportStep
<1>2. AgentOK /\ ReportOK /\ ResultsOK /\ AppliedOK /\ HistoryOK  BY Parts
<1>3. n \in Number /\ n \in 0..MaxReports
  BY <1>2, Reports, BoundsAssumption DEF Number
<1>4. CASE Sent(n, h)
  <2>1. ResultsOK'
    <3>1. /\ results' \in [Trigger -> [Container -> Message \cup {None}]]
          /\ shown' = shown \cup {Message1(h.id, n, c) : c \in Acted(h.id, n)}
          /\ Acted(h.id, n) \subseteq Container /\ \A c \in Container : Message1(h.id, n, c) \in Message
      BY <1>4, SentIs, Zenon
    <3> QED BY <1>2, <3>1 DEF ResultsOK
  <2>2. ReportOK' /\ twice' \in SUBSET (Number \X Trigger)
    BY <1>4, ReturnsType DEF Sent
  <2>3. AgentOK' /\ AppliedOK' /\ HistoryOK'
    BY <1>2, <1>4, <2>2 DEF Sent, AgentOK, AppliedOK, HistoryOK, agentVars
  <2>4. QED  BY <2>1, <2>2, <2>3, Parts DEF TypeOK, AgentOK, ReportOK, ResultsOK, AppliedOK, HistoryOK
<1>5. CASE SendFails(n, h) \/ UpdateReturns(n, h)
  <2>1. ReportOK' /\ twice' \in SUBSET (Number \X Trigger)
    BY <1>5, ReturnsType DEF SendFails, UpdateReturns
  <2>2. QED
    BY <1>2, <1>5, <2>1 DEF SendFails, UpdateReturns, TypeOK, ReportOK, agentVars
<1>6. CASE Updated(n, h)
  <2>1. PICK c \in Acted(h.id, n) : StartApplied(c, n)  BY <1>6 DEF Updated
  <2>2. c \in Container
    BY <1>2, Reports DEF Acted, ActsOn, Report
  <2>3. AppliedOK' /\ due' \in SUBSET Message /\ obsolete' \in SUBSET Message
    BY <1>3, <2>1, <2>2, StartAppliedType
  <2>4. ReportOK'  BY <1>2, <1>6, WaitsIs DEF Updated
  <2>5. QED  BY <1>6, <2>3, <2>4 DEF Updated, TypeOK, ReportOK, AppliedOK, agentVars
<1>7. QED  BY <1>1, <1>4, <1>5, <1>6

LEMMA HandshakeStepTyped ==
  ASSUME TypeOK, NEW s \in Handshake, HandshakeStep(s)
  PROVE  TypeOK'
<1>1. made \in Nat /\ made \in 0..MaxHandshakes /\ Remote \subseteq Trigger
  BY BoundsAssumption, TriggerAssumption DEF TypeOK
<1>2. CASE Deregister(s)
  <2>1. made' \in Instance /\ made' \in 0..MaxHandshakes
    BY <1>1, <1>2, BoundsAssumption DEF Deregister, Instance
  <2>2. handlers' \in SUBSET Handler  BY <1>2 DEF Deregister, TypeOK
  <2>3. registered' \in [Trigger -> Instance \cup {None}]
    BY <1>2 DEF Deregister, TypeOK
  <2>4. handshake' \in [Handshake -> {None} \cup [left : SUBSET Remote,
                                                  inst : Instance]]
    BY <1>2, <2>1 DEF Deregister, TypeOK
  <2>5. QED
    BY <1>2, <2>1, <2>2, <2>3, <2>4 DEF Deregister, TypeOK, history
<1>3. ASSUME NEW t \in Remote, Register(s, t)  PROVE TypeOK'
  <2>1. handshake[s] \in [left : SUBSET Remote, inst : Instance]
    BY <1>3 DEF Register, TypeOK
  <2>2. [id |-> t, inst |-> handshake[s].inst] \in Handler
    BY <1>1, <2>1 DEF Handler
  <2>3. [handshake[s] EXCEPT !.left = @ \ {t}] \in [left : SUBSET Remote,
                                                    inst : Instance]
    BY <2>1
  <2>4. QED
    BY <1>1, <1>3, <2>1, <2>2, <2>3 DEF Register, TypeOK, history
<1>4. CASE HandshakeEnds(s)
  BY <1>4 DEF HandshakeEnds, TypeOK, history
<1>5. QED  BY <1>2, <1>3, <1>4 DEF HandshakeStep

LEMMA AppliedStepTyped ==
  ASSUME TypeOK, NEW c \in Container, NEW n \in 0..MaxReports, AppliedStep(c, n)
  PROVE  TypeOK'
<1>1. applied[c][n] # None /\ Forget(c, n)
  BY DEF AppliedStep, Dismissed, DismissFails
<1>2. applied[c][n].msg \in Message
  <2>1. applied[c][n] \in Event  BY <1>1 DEF TypeOK
  <2>2. QED  BY <2>1 DEF Event
<1>3. AppliedOK' /\ results' \in [Trigger -> [Container -> Message \cup {None}]]
  BY <1>1, ForgetType
<1>4. QED
  BY <1>2, <1>3 DEF AppliedStep, Dismissed, DismissFails, TypeOK, AppliedOK,
                    agentVars, history

LEMMA EmitTyped ==
  ASSUME TypeOK, EmitReport \/ EmitReports
  PROVE  TypeOK'
<1>1. PICK news \in SUBSET Container, changed \in SUBSET Container,
           batch \in BOOLEAN : Emit(news, changed, batch)
  BY DEF EmitReport, EmitReports
<1>2. ReportOK'  BY <1>1, Parts, EmitIs
<1>3. QED  BY <1>1, <1>2 DEF Emit, TypeOK, ReportOK, agentVars, history

LEMMA InitTyped == ASSUME Init  PROVE TypeOK
<1>1. 0 \in Instance /\ 0 \in 0..MaxHandshakes  BY BoundsAssumption DEF Instance
<1>2. ReportOK  BY EmptySeq, BoundsAssumption DEF Init, ReportOK
<1>3. QED  BY <1>1, <1>2 DEF Init, TypeOK, Handler, ReportOK

LEMMA NextTyped == ASSUME TypeOK, [Next]_vars  PROVE TypeOK'
<1>1. CASE EmitReport \/ EmitReports  BY <1>1, EmitTyped
<1>2. ASSUME NEW n \in DOMAIN report, ReportStep(n)  PROVE TypeOK'
  BY <1>2, ReportStepTyped
<1>3. ASSUME NEW c \in Container, UserUpdates(c)  PROVE TypeOK'
  <2>1. 0 \in 0..MaxReports  BY BoundsAssumption
  <2>2. AppliedOK' /\ due' \in SUBSET Message /\ obsolete' \in SUBSET Message
    BY <1>3, <2>1, StartAppliedType DEF UserUpdates
  <2>3. QED  BY <1>3, <2>2 DEF UserUpdates, TypeOK, AppliedOK, agentVars
<1>4. ASSUME NEW c \in Container, NEW n \in 0..MaxReports, AppliedStep(c, n)
      PROVE  TypeOK'
  BY <1>4, AppliedStepTyped
<1>5. ASSUME NEW s \in Handshake, HandshakeStep(s)  PROVE TypeOK'
  BY <1>5, HandshakeStepTyped
<1>6. CASE UNCHANGED vars
  BY <1>6 DEF vars, agentVars, history, TypeOK
<1>7. QED  BY <1>1, <1>2, <1>3, <1>4, <1>5, <1>6 DEF Next

(***************************************************************************)
(* The registry, the handlers, the reports, the results and the events     *)
(* keep their types: what is left of an event is always the dismissal of a *)
(* stored result (Trigger.ts:391), never of nothing.                       *)
(***************************************************************************)
THEOREM TypeCorrect == Spec => []TypeOK
<1>1. Init => TypeOK  BY InitTyped
<1>2. TypeOK /\ [Next]_vars => TypeOK'  BY NextTyped
<1>3. QED  BY <1>1, <1>2, PTL DEF Spec

-------------------------------------------------------------------------------
(* What a trigger remembers is what people see. *)

\* Results and events are kept where their messages belong.
ResultsKeyed == \A t \in Trigger, c \in Container : results[t][c] # None =>
                   results[t][c].by = t /\ results[t][c].of = c
EventsKeyed == \A c \in Container, n \in 0..MaxReports : applied[c][n] # None =>
                  /\ applied[c][n].msg.by = applied[c][n].now
                  /\ applied[c][n].msg.of = c
RememberInv == TypeOK /\ ResultsKeyed /\ EventsKeyed /\ StoredIsShown

\* The next event at a place is one of the results.
IsResult(res, e, c) == /\ e \in Event /\ e.now \in Trigger
                       /\ e.msg = res[e.now][c] /\ e.msg # None

LEMMA StartAppliedIs ==
  ASSUME TypeOK, NEW c \in Container, NEW n \in 0..MaxReports, StartApplied(c, n)
  PROVE  /\ \A d \in Container, k \in 0..MaxReports :
              (d # c \/ k # n) => applied'[d][k] = applied[d][k]
         /\ applied'[c][n] = Rest(results, c, Resolves)
         /\ applied'[c][n] # None => IsResult(results, applied'[c][n], c)
<1>1. /\ Rest(results, c, Resolves) \in Event \cup {None}
      /\ Rest(results, c, Resolves) # None =>
           IsResult(results, Rest(results, c, Resolves), c)
  BY RestType, TriggerAssumption DEF TypeOK, IsResult
<1>2. applied' = [applied EXCEPT ![c][n] = Rest(results, c, Resolves)]
  BY DEF StartApplied
<1>3. /\ \A d \in Container, k \in 0..MaxReports :
           (d # c \/ k # n) => applied'[d][k] = applied[d][k]
      /\ applied'[c][n] = Rest(results, c, Resolves)
  BY <1>2 DEF TypeOK
<1>4. QED  BY <1>1, <1>3

LEMMA ForgetIs ==
  ASSUME TypeOK, NEW c \in Container, NEW n \in 0..MaxReports,
         applied[c][n] # None, Forget(c, n)
  PROVE  /\ \A d \in Container, k \in 0..MaxReports :
              (d # c \/ k # n) => applied'[d][k] = applied[d][k]
         /\ applied'[c][n] # None => IsResult(results', applied'[c][n], c)
         /\ applied[c][n] \in Event /\ applied[c][n].now \in Trigger
         /\ results'[applied[c][n].now][c] = None
         /\ \A t \in Trigger, d \in Container :
              (t # applied[c][n].now \/ d # c) => results'[t][d] = results[t][d]
<1> DEFINE e   == applied[c][n]
           res == [results EXCEPT ![e.now][c] = None]
<1>1. e \in Event /\ e.now \in Trigger /\ e.left \in SUBSET Resolves
  <2>1. e \in Event  BY DEF TypeOK
  <2>2. QED  BY <2>1, TriggerAssumption DEF Event
<1>2. /\ res \in [Trigger -> [Container -> Message \cup {None}]]
      /\ res[e.now][c] = None
      /\ \A t \in Trigger, d \in Container :
           (t # e.now \/ d # c) => res[t][d] = results[t][d]
  BY <1>1 DEF TypeOK
<1>3. results' = res /\ applied' = [applied EXCEPT ![c][n] = Rest(res, c, e.left)]
  BY DEF Forget
<1> HIDE DEF res, e
<1>4. Rest(res, c, e.left) # None => IsResult(res, Rest(res, c, e.left), c)
  BY <1>1, <1>2, RestType, TriggerAssumption DEF IsResult
<1>5. /\ \A d \in Container, k \in 0..MaxReports :
           (d # c \/ k # n) => applied'[d][k] = applied[d][k]
      /\ applied'[c][n] = Rest(res, c, e.left)
  BY <1>3 DEF TypeOK
<1>6. QED  BY <1>1, <1>2, <1>3, <1>4, <1>5 DEF e

LEMMA SentRemembers ==
  ASSUME RememberInv, NEW n \in DOMAIN report, NEW h \in report[n].left, Sent(n, h)
  PROVE  ResultsKeyed' /\ EventsKeyed' /\ StoredIsShown'
<1> USE DEF RememberInv
<1>1. applied' = applied  BY DEF Sent
<1>2. /\ Acted(h.id, n) \subseteq Container
      /\ shown' = shown \cup {Message1(h.id, n, c) : c \in Acted(h.id, n)}
      /\ \A t \in Trigger, c \in Container :
            \/ results'[t][c] = results[t][c]
            \/ /\ t = h.id /\ c \in Acted(t, n)
               /\ results'[t][c] = Message1(t, n, c)
  BY SentIs
<1>3. ASSUME NEW t \in Trigger, NEW c \in Container, results'[t][c] # None
      PROVE  /\ results'[t][c].by = t /\ results'[t][c].of = c
             /\ results'[t][c] \in shown'
  <2>1. CASE results'[t][c] = results[t][c]
    BY <1>2, <1>3, <2>1 DEF ResultsKeyed, StoredIsShown
  <2>2. CASE /\ t = h.id /\ c \in Acted(t, n)
             /\ results'[t][c] = Message1(t, n, c)
    BY <1>2, <2>2 DEF Message1
  <2>3. QED  BY <1>2, <2>1, <2>2
<1>4. QED  BY <1>1, <1>3 DEF EventsKeyed, ResultsKeyed, StoredIsShown

LEMMA StartAppliedRemembers ==
  ASSUME RememberInv, NEW c \in Container, NEW n \in 0..MaxReports,
         StartApplied(c, n), UNCHANGED <<results, shown>>
  PROVE  ResultsKeyed' /\ EventsKeyed' /\ StoredIsShown'
<1>1. EventsKeyed'
  BY StartAppliedIs DEF RememberInv, EventsKeyed, ResultsKeyed, IsResult
<1>2. QED  BY <1>1 DEF RememberInv, ResultsKeyed, StoredIsShown

\* Only the result that was dismissed can have had the message that is gone.
LEMMA AppliedStepRemembers ==
  ASSUME RememberInv, NEW c \in Container, NEW n \in 0..MaxReports,
         AppliedStep(c, n)
  PROVE  ResultsKeyed' /\ EventsKeyed' /\ StoredIsShown'
<1> USE DEF RememberInv
<1>1. /\ applied[c][n] # None /\ Forget(c, n)
      /\ shown' = shown \ {applied[c][n].msg} \/ shown' = shown
  BY DEF AppliedStep, Dismissed, DismissFails
<1>2. ResultsKeyed'
  BY <1>1, ForgetIs DEF ResultsKeyed
<1>3. EventsKeyed'
  BY <1>1, <1>2, ForgetIs DEF EventsKeyed, ResultsKeyed, IsResult
<1>4. StoredIsShown'
  <2> SUFFICES ASSUME NEW t \in Trigger, NEW d \in Container, results'[t][d] # None
               PROVE  results'[t][d] \in shown'
    BY DEF StoredIsShown
  <2>1. t # applied[c][n].now \/ d # c
    BY <1>1, ForgetIs
  <2>2. results'[t][d] = results[t][d]  BY <1>1, <2>1, ForgetIs
  <2>3. results[t][d].by = t /\ results[t][d].of = d /\ results[t][d] \in shown
    BY <2>2 DEF ResultsKeyed, StoredIsShown
  <2>4. results[t][d] # applied[c][n].msg
    BY <1>1, <2>1, <2>3 DEF EventsKeyed
  <2>5. QED  BY <1>1, <2>2, <2>3, <2>4
<1>5. QED  BY <1>2, <1>3, <1>4

LEMMA RememberInductive ==
  ASSUME RememberInv, [Next]_vars  PROVE RememberInv'
<1>1. TypeOK'  BY NextTyped DEF RememberInv
<1> SUFFICES ResultsKeyed' /\ EventsKeyed' /\ StoredIsShown'
  BY <1>1 DEF RememberInv
<1>2. CASE UNCHANGED <<results, shown, applied>>
  BY <1>2 DEF RememberInv, ResultsKeyed, EventsKeyed, StoredIsShown
<1>3. ASSUME NEW n \in DOMAIN report, ReportStep(n)
      PROVE  ResultsKeyed' /\ EventsKeyed' /\ StoredIsShown'
  <2>1. PICK h \in report[n].left :
          Sent(n, h) \/ SendFails(n, h) \/ Updated(n, h) \/ UpdateReturns(n, h)
    BY <1>3 DEF ReportStep
  <2>2. CASE Sent(n, h)  BY <2>2, SentRemembers
  <2>3. CASE SendFails(n, h) \/ UpdateReturns(n, h)
    BY <2>3, <1>2 DEF SendFails, UpdateReturns
  <2>4. CASE Updated(n, h)
    <3>1. PICK c \in Acted(h.id, n) : StartApplied(c, n)  BY <2>4 DEF Updated
    <3>2. report[n] \in Report /\ n \in 0..MaxReports
      BY Reports, BoundsAssumption DEF RememberInv, TypeOK, ReportOK, Number
    <3>3. c \in Container  BY <3>2 DEF Acted, ActsOn, Report
    <3>4. QED  BY <2>4, <3>1, <3>2, <3>3, StartAppliedRemembers DEF Updated
  <2>5. QED  BY <2>1, <2>2, <2>3, <2>4
<1>4. ASSUME NEW c \in Container, UserUpdates(c)
      PROVE  ResultsKeyed' /\ EventsKeyed' /\ StoredIsShown'
  BY <1>4, BoundsAssumption, StartAppliedRemembers DEF UserUpdates
<1>5. ASSUME NEW c \in Container, NEW n \in 0..MaxReports, AppliedStep(c, n)
      PROVE  ResultsKeyed' /\ EventsKeyed' /\ StoredIsShown'
  BY <1>5, AppliedStepRemembers
<1>6. CASE EmitReport \/ EmitReports \/ UNCHANGED vars
  BY <1>6, <1>2 DEF EmitReport, EmitReports, Emit, vars
<1>7. CASE \E s \in Handshake : HandshakeStep(s)
  BY <1>7, <1>2 DEF HandshakeStep, Deregister, Register, HandshakeEnds
<1>8. QED  BY <1>3, <1>4, <1>5, <1>6, <1>7 DEF Next

(***************************************************************************)
(* Whatever reports, updates and dismissals of a container overlap, and    *)
(* whatever fails, no trigger remembers a message that is gone: a stored   *)
(* result can always be dismissed (Trigger.ts:391-404).                    *)
(***************************************************************************)
THEOREM Remembered == Spec => []StoredIsShown
<1>1. Init => RememberInv
  BY InitTyped DEF Init, RememberInv, ResultsKeyed, EventsKeyed, StoredIsShown
<1>2. RememberInv /\ [Next]_vars => RememberInv'  BY RememberInductive
<1>3. RememberInv => StoredIsShown  BY DEF RememberInv
<1>4. QED  BY <1>1, <1>2, <1>3, PTL DEF Spec

-------------------------------------------------------------------------------
(* One handshake at a time: handlers, calls and their order. *)

OneHandshake == \A r, s \in Handshake : r = s

\* A trigger that a handshake has still to register is not in the registry.
LeftUnknown == \A s \in Handshake : handshake[s] # None =>
                  \A t \in handshake[s].left : registered[t] = None
HandlerInv == NoHandlerLeaks /\ LeftUnknown

LEMMA HandlersAre ==
  ASSUME NoHandlerLeaks
  PROVE  \A h : h \in handlers <=>
            \E t \in Trigger : registered[t] # None /\ h = Known(t)
  BY DEF NoHandlerLeaks

LEMMA DeregisterLeaksNothing ==
  ASSUME OneHandshake, TypeOK, HandlerInv, NEW s \in Handshake, Deregister(s)
  PROVE  HandlerInv'
<1>1. Remote \subseteq Trigger  BY TriggerAssumption
<1>2. \A t \in Trigger :
        registered'[t] = IF t \in Remote THEN None ELSE registered[t]
  BY DEF Deregister
<1>3. \A h : h \in handlers' <=> h \in handlers /\ h.id \notin Remote
  <2>1. \A t \in Remote : Unregistered(t) =
          IF registered[t] = None THEN {} ELSE {Known(t)}
    BY DEF Unregistered
  <2>2. \A h \in handlers : h.id \in Remote => h \in Unregistered(h.id)
    BY <2>1, HandlersAre DEF HandlerInv, Known
  <2>3. \A t \in Remote : \A h \in Unregistered(t) : h.id = t
    BY <2>1 DEF Known
  <2>4. handlers' = handlers \ UNION {Unregistered(t) : t \in Remote}
    BY DEF Deregister
  <2>5. QED  BY <2>2, <2>3, <2>4
<1>4. \A h : h \in handlers' <=>
         \E t \in Trigger : registered'[t] # None /\ h = Known(t)'
  BY <1>2, <1>3, HandlersAre DEF HandlerInv, Known
<1>5. NoHandlerLeaks'
  BY <1>4 DEF NoHandlerLeaks
<1>6. handshake'[s].left = Remote
  BY DEF Deregister, TypeOK
<1>7. LeftUnknown'
  BY <1>1, <1>2, <1>6 DEF LeftUnknown, OneHandshake
<1>8. QED  BY <1>5, <1>7 DEF HandlerInv

LEMMA RegisterLeaksNothing ==
  ASSUME OneHandshake, TypeOK, HandlerInv, NEW s \in Handshake, NEW t \in Remote,
         Register(s, t)
  PROVE  HandlerInv'
<1> DEFINE i == handshake[s].inst
<1>1. /\ t \in Trigger /\ handshake[s] \in [left : SUBSET Remote, inst : Instance]
      /\ registered[t] = None
  BY TriggerAssumption DEF Register, TypeOK, HandlerInv, LeftUnknown
<1>2. i \in Instance /\ i # None  BY <1>1, NoneAssumption
<1>3. \A u \in Trigger : registered'[u] = IF u = t THEN i ELSE registered[u]
  BY DEF Register, TypeOK
<1>4. handlers' = handlers \cup {[id |-> t, inst |-> i]}  BY DEF Register
<1> HIDE DEF i
<1>5. \A h : h \in handlers' <=>
         \E u \in Trigger : registered'[u] # None /\ h = Known(u)'
  BY <1>1, <1>2, <1>3, <1>4, HandlersAre DEF HandlerInv, Known
<1>6. NoHandlerLeaks'  BY <1>5 DEF NoHandlerLeaks
<1>7. handshake'[s].left = handshake[s].left \ {t}
  BY <1>1 DEF Register, TypeOK
<1>8. handshake[s].left \subseteq Trigger /\ handshake[s] # None
  BY <1>1, TriggerAssumption DEF Register
<1>9. LeftUnknown'
  BY <1>3, <1>7, <1>8 DEF LeftUnknown, OneHandshake, HandlerInv
<1>10. QED  BY <1>6, <1>9 DEF HandlerInv

LEMMA HandlerInductive ==
  ASSUME OneHandshake, TypeOK, HandlerInv, [Next]_vars  PROVE HandlerInv'
<1>1. CASE UNCHANGED <<handlers, registered, handshake>>
  BY <1>1 DEF HandlerInv, NoHandlerLeaks, Known, LeftUnknown
<1>2. ASSUME NEW s \in Handshake, HandshakeStep(s)  PROVE HandlerInv'
  <2>1. CASE HandshakeEnds(s)
    BY <2>1 DEF HandshakeEnds, HandlerInv, NoHandlerLeaks, Known, LeftUnknown,
                OneHandshake, TypeOK
  <2>2. QED
    BY <1>2, <2>1, DeregisterLeaksNothing, RegisterLeaksNothing DEF HandshakeStep
<1>3. CASE EmitReport \/ EmitReports \/ UNCHANGED vars
  BY <1>3, <1>1 DEF EmitReport, EmitReports, Emit, vars, agentVars
<1>4. CASE \E n \in DOMAIN report : ReportStep(n)
  BY <1>4, <1>1 DEF ReportStep, Sent, SendFails, Updated, UpdateReturns, agentVars
<1>5. CASE \E c \in Container : UserUpdates(c)
  BY <1>5, <1>1 DEF UserUpdates, agentVars
<1>6. CASE \E c \in Container, n \in 0..MaxReports : AppliedStep(c, n)
  BY <1>6, <1>1 DEF AppliedStep, Dismissed, DismissFails, agentVars
<1>7. QED  BY <1>2, <1>3, <1>4, <1>5, <1>6 DEF Next

LEMMA HandlerInit == ASSUME Init  PROVE HandlerInv
<1>1. 0 # None  BY NoneAssumption, BoundsAssumption DEF Instance
<1>2. \A h : h \in handlers <=>
         \E u \in Trigger : registered[u] # None /\ h = Known(u)
  BY <1>1 DEF Init, Known
<1>3. NoHandlerLeaks  BY <1>2 DEF NoHandlerLeaks
<1>4. QED  BY <1>3 DEF Init, HandlerInv, LeftUnknown

(***************************************************************************)
(* If handshakes with an agent do not overlap, the handlers of reports are *)
(* those of the triggers the registry knows: no replaced trigger listens   *)
(* (AgentClient.ts:126-153).  Overlapping handshakes leak: see README.     *)
(***************************************************************************)
THEOREM NothingLeaks == ASSUME OneHandshake  PROVE Spec => []NoHandlerLeaks
<1>1. Init => TypeOK /\ HandlerInv  BY InitTyped, HandlerInit
<1>2. TypeOK /\ HandlerInv /\ [Next]_vars => TypeOK' /\ HandlerInv'
  BY NextTyped, HandlerInductive
<1>3. HandlerInv => NoHandlerLeaks  BY DEF HandlerInv
<1>4. QED  BY <1>1, <1>2, <1>3, PTL DEF Spec

\* A report under way has one handler left for each trigger, and it has not
\* called that trigger; those it called are ordered before those left.
LeftOnce == \A n \in DOMAIN report :
  /\ \A h, k \in report[n].left : h.id = k.id => h = k
  /\ \A h \in report[n].left : h.id \notin report[n].over
OverBefore == \A n \in DOMAIN report :
  \A t \in report[n].over, h \in report[n].left : Rank[t] < Rank[h.id]

\* A report waits for an update only, and events are part of one.
WaitsForUpdate == \A n \in DOMAIN report : report[n].waits =>
  \E h \in report[n].left : h.id \in Updates /\ IsFirst(h, report[n].left)
EventsOfUpdates == \A c \in Container, n \in Number :
  applied[c][n] # None => n \in DOMAIN report /\ report[n].waits

CallInv == LeftOnce /\ OverBefore /\ WaitsForUpdate /\ EventsOfUpdates /\ CalledOnce

\* What the reports' part of the invariant says of one report.
ReportIn(r) == /\ \A h, k \in r.left : h.id = k.id => h = k
               /\ \A h \in r.left : h.id \notin r.over
               /\ \A t \in r.over, h \in r.left : Rank[t] < Rank[h.id]
               /\ r.waits => \E h \in r.left : h.id \in Updates /\ IsFirst(h, r.left)

LEMMA ReportsIn ==
  (LeftOnce /\ OverBefore /\ WaitsForUpdate) <=> \A n \in DOMAIN report : ReportIn(report[n])
  BY DEF LeftOnce, OverBefore, WaitsForUpdate, ReportIn

\* The first handler returns: those left are all behind it.
LEMMA ReturnsIn ==
  ASSUME ReportOK, CallInv, NEW n \in DOMAIN report, NEW h \in report[n].left,
         IsFirst(h, report[n].left), Returns(n, h)
  PROVE  (LeftOnce /\ OverBefore /\ WaitsForUpdate)' /\ CalledOnce'
<1>1. /\ report'[n].left = report[n].left \ {h}
      /\ report'[n].over = report[n].over \cup {h.id}
      /\ report'[n].waits = FALSE /\ DOMAIN report' = DOMAIN report
      /\ \A k \in DOMAIN report : k # n => report'[k] = report[k]
  BY ReturnsIs
<1>2. /\ \A k \in DOMAIN report : ReportIn(report[k])
      /\ report[n] \in Report
  BY ReportsIn, Reports DEF CallInv
<1>3. \A k \in report[n].left \ {h} : k.id # h.id /\ Rank[h.id] < Rank[k.id]
  BY <1>2 DEF ReportIn, IsFirst, Before
<1>4. ReportIn(report'[n])
  BY <1>1, <1>2, <1>3 DEF ReportIn
<1>5. CalledOnce'
  BY <1>2 DEF Returns, CallInv, CalledOnce, ReportIn
<1>6. \A k \in DOMAIN report' : ReportIn(report'[k])
  BY <1>1, <1>2, <1>4
<1>7. QED  BY <1>5, <1>6 DEF LeftOnce, OverBefore, WaitsForUpdate, ReportIn

LEMMA ReportStepCalls ==
  ASSUME TypeOK, CallInv, NEW n \in DOMAIN report, ReportStep(n)
  PROVE  CallInv'
<1>1. PICK h \in report[n].left :
        Sent(n, h) \/ SendFails(n, h) \/ Updated(n, h) \/ UpdateReturns(n, h)
  BY DEF ReportStep
<1>2. ReportOK /\ n \in Number /\ report[n] \in Report  BY Parts, Reports
<1>3. CASE Sent(n, h) \/ SendFails(n, h) \/ UpdateReturns(n, h)
  <2>1. IsFirst(h, report[n].left) /\ Returns(n, h) /\ applied' = applied
    BY <1>3 DEF Sent, SendFails, UpdateReturns, Calls
  <2>2. \A c \in Container : applied[c][n] = None
    BY <1>2, <1>3 DEF Sent, SendFails, UpdateReturns, Calls, CallInv, EventsOfUpdates
  <2>3. (LeftOnce /\ OverBefore /\ WaitsForUpdate)' /\ CalledOnce'
    BY <1>2, <2>1, ReturnsIn
  <2>4. EventsOfUpdates'
    BY <1>2, <2>1, <2>2, ReturnsIs DEF CallInv, EventsOfUpdates
  <2>5. QED  BY <2>3, <2>4 DEF CallInv
<1>4. CASE Updated(n, h)
  <2>1. /\ report' = [report EXCEPT ![n].waits = TRUE] /\ twice' = twice
        /\ h.id \in Updates /\ IsFirst(h, report[n].left)
    BY <1>4 DEF Updated, Calls
  <2>2. /\ report'[n].left = report[n].left /\ report'[n].over = report[n].over
        /\ report'[n].waits = TRUE /\ DOMAIN report' = DOMAIN report
        /\ \A k \in DOMAIN report : k # n => report'[k] = report[k]
    BY <1>2, <2>1, WaitsIs
  <2>3. \A k \in DOMAIN report : ReportIn(report[k])  BY ReportsIn DEF CallInv
  <2>4. \A k \in DOMAIN report' : ReportIn(report'[k])
    BY <2>1, <2>2, <2>3 DEF ReportIn
  <2>5. PICK c \in Acted(h.id, n) : StartApplied(c, n)  BY <1>4 DEF Updated
  <2>6. c \in Container /\ n \in 0..MaxReports
    BY <1>2, BoundsAssumption DEF Acted, ActsOn, Report, Number
  <2>7. \A d \in Container, k \in 0..MaxReports :
          (d # c \/ k # n) => applied'[d][k] = applied[d][k]
    BY <2>5, <2>6, StartAppliedIs
  <2>8. Number \subseteq 0..MaxReports  BY BoundsAssumption DEF Number
  <2>9. EventsOfUpdates'
    BY <2>2, <2>7, <2>8 DEF CallInv, EventsOfUpdates
  <2>10. QED
    BY <2>1, <2>4, <2>9 DEF CallInv, CalledOnce, LeftOnce, OverBefore,
                            WaitsForUpdate, ReportIn
<1>5. QED  BY <1>1, <1>3, <1>4

LEMMA EmitCalls ==
  ASSUME TypeOK, NoHandlerLeaks, CallInv, EmitReport \/ EmitReports
  PROVE  CallInv'
<1>1. PICK news \in SUBSET Container, changed \in SUBSET Container,
           batch \in BOOLEAN : Emit(news, changed, batch)
  BY DEF EmitReport, EmitReports
<1> DEFINE n == Len(report) + 1
<1>2. /\ DOMAIN report' = DOMAIN report \cup {n} /\ n \notin DOMAIN report
      /\ report'[n].left \subseteq handlers /\ report'[n].over = {}
      /\ report'[n].waits = FALSE
      /\ \A k \in DOMAIN report : report'[k] = report[k]
  BY <1>1, Parts, EmitIs
<1> HIDE DEF n
<1>3. \A h, k \in handlers : h.id = k.id => h = k
  BY HandlersAre DEF Known
<1>4. ReportIn(report'[n])  BY <1>2, <1>3 DEF ReportIn
<1>5. \A k \in DOMAIN report : ReportIn(report[k])  BY ReportsIn DEF CallInv
<1>6. \A k \in DOMAIN report' : ReportIn(report'[k])  BY <1>2, <1>4, <1>5
<1>7. applied' = applied /\ twice' = twice  BY <1>1 DEF Emit, history
<1>8. EventsOfUpdates'  BY <1>2, <1>7 DEF CallInv, EventsOfUpdates
<1>9. QED
  BY <1>6, <1>7, <1>8 DEF CallInv, CalledOnce, LeftOnce, OverBefore,
                          WaitsForUpdate, ReportIn

LEMMA CallInductive ==
  ASSUME TypeOK, NoHandlerLeaks, CallInv, [Next]_vars  PROVE CallInv'
<1> USE DEF CallInv, LeftOnce, OverBefore, WaitsForUpdate, EventsOfUpdates, CalledOnce
<1>1. CASE UNCHANGED <<report, applied, twice>>
  BY <1>1
<1>2. CASE \E n \in DOMAIN report : ReportStep(n)  BY <1>2, ReportStepCalls
<1>3. CASE EmitReport \/ EmitReports  BY <1>3, EmitCalls
<1>4. ASSUME NEW c \in Container, UserUpdates(c)  PROVE CallInv'
  <2>1. 0 \in 0..MaxReports /\ \A n \in Number : n \in 0..MaxReports /\ n # 0
    BY BoundsAssumption DEF Number
  <2>2. \A d \in Container, n \in Number : applied'[d][n] = applied[d][n]
    BY <1>4, <2>1, StartAppliedIs DEF UserUpdates
  <2>3. QED  BY <1>4, <2>2 DEF UserUpdates
<1>5. ASSUME NEW c \in Container, NEW n \in 0..MaxReports, AppliedStep(c, n)
      PROVE  CallInv'
  <2>1. /\ applied[c][n] # None /\ Forget(c, n) /\ report' = report
        /\ twice' = twice
    BY <1>5 DEF AppliedStep, Dismissed, DismissFails, history
  <2>2. \A d \in Container, k \in 0..MaxReports :
          (d # c \/ k # n) => applied'[d][k] = applied[d][k]
    BY <2>1, ForgetIs
  <2>3. \A k \in Number : k \in 0..MaxReports  BY BoundsAssumption DEF Number
  <2>4. EventsOfUpdates'  BY <2>1, <2>2, <2>3
  <2>5. QED  BY <2>1, <2>4
<1>6. CASE \E s \in Handshake : HandshakeStep(s)
  BY <1>6, <1>1 DEF HandshakeStep, Deregister, Register, HandshakeEnds, history
<1>7. CASE UNCHANGED vars  BY <1>7, <1>1 DEF vars, history
<1>8. QED  BY <1>2, <1>3, <1>4, <1>5, <1>6, <1>7 DEF Next

LEMMA CallInit == ASSUME Init  PROVE CallInv
<1>1. DOMAIN report = {} /\ \A n \in Number : n \in 0..MaxReports
  BY BoundsAssumption DEF Init, Number
<1>2. QED
  BY <1>1 DEF Init, CallInv, LeftOnce, OverBefore, WaitsForUpdate,
              EventsOfUpdates, CalledOnce

DispatchInv == TypeOK /\ HandlerInv /\ CallInv

LEMMA DispatchInductive ==
  ASSUME OneHandshake  PROVE DispatchInv /\ [Next]_vars => DispatchInv'
  BY NextTyped, HandlerInductive, CallInductive DEF DispatchInv, HandlerInv

(***************************************************************************)
(* If handshakes do not overlap, a report calls no trigger twice, however  *)
(* many handshakes replace triggers while it is under way: it goes on with *)
(* the handlers that were registered when it began (event/index.ts:68).    *)
(***************************************************************************)
THEOREM NoneTwice == ASSUME OneHandshake  PROVE Spec => []CalledOnce
<1>1. Init => DispatchInv  BY InitTyped, HandlerInit, CallInit DEF DispatchInv
<1>2. DispatchInv /\ [Next]_vars => DispatchInv'  BY DispatchInductive
<1>3. DispatchInv => CalledOnce  BY DEF DispatchInv, CallInv
<1>4. QED  BY <1>1, <1>2, <1>3, PTL DEF Spec

(***************************************************************************)
(* If handshakes do not overlap, dismissals of an update happen before the *)
(* triggers ordered after the one that updates are called.                 *)
(***************************************************************************)
THEOREM Ordered == ASSUME OneHandshake  PROVE Spec => []InOrder
<1>1. Init => DispatchInv  BY InitTyped, HandlerInit, CallInit DEF DispatchInv
<1>2. DispatchInv /\ [Next]_vars => DispatchInv'  BY DispatchInductive
<1>3. DispatchInv => InOrder
  <2>1. ASSUME DispatchInv  PROVE DOMAIN report \subseteq Number
    BY <2>1, Parts, Reports DEF DispatchInv
  <2>2. QED
    BY <2>1 DEF DispatchInv, CallInv, InOrder, EventsOfUpdates, WaitsForUpdate,
                OverBefore
<1>4. QED  BY <1>1, <1>2, <1>3, PTL DEF Spec

-------------------------------------------------------------------------------
(* One trigger keeps results: what is due is dismissed. *)

OneResolves == \A t, u \in Resolves : t = u

InFlight(m) == \E c \in Container, n \in 0..MaxReports :
                  applied[c][n] # None /\ applied[c][n].msg = m

\* What is due is in flight, refused or gone; and no message is sent again.
DueGoes    == \A m \in due \cap shown : m \in failed \/ InFlight(m)
CalledFor(m) == m.report \in DOMAIN report /\ m.by \in report[m.report].over
DueSent    == \A m \in due : CalledFor(m)
ResultSent == \A t \in Trigger, c \in Container :
                 results[t][c] # None => CalledFor(results[t][c])
DueInv == DueGoes /\ DueSent /\ ResultSent

\* Handlers that have been called stay called.
LEMMA CalledStays ==
  ASSUME DOMAIN report \subseteq DOMAIN report',
         \A n \in DOMAIN report : report[n].over \subseteq report'[n].over,
         NEW m, CalledFor(m)
  PROVE  CalledFor(m)'
  BY DEF CalledFor

\* An applied event takes up what is remembered of its container.
LEMMA StartAppliedDue ==
  ASSUME OneResolves, TypeOK, DueGoes, ResultSent, DueSent, NEW c \in Container,
         NEW n \in 0..MaxReports, applied[c][n] = None, StartApplied(c, n),
         UNCHANGED <<results, shown, failed>>,
         \A m : CalledFor(m) => CalledFor(m)'
  PROVE  DueInv'
<1>1. /\ \A d \in Container, k \in 0..MaxReports :
           (d # c \/ k # n) => applied'[d][k] = applied[d][k]
      /\ applied'[c][n] = Rest(results, c, Resolves)
  BY StartAppliedIs
<1>2. \A m : InFlight(m) => InFlight(m)'
  <2> SUFFICES ASSUME NEW m, NEW d \in Container, NEW k \in 0..MaxReports,
                      applied[d][k] # None, applied[d][k].msg = m
               PROVE  InFlight(m)'
    BY DEF InFlight
  <2>1. applied'[d][k] = applied[d][k]  BY <1>1
  <2>2. QED  BY <2>1 DEF InFlight
<1>3. ASSUME NEW t \in Resolves, results[t][c] # None
      PROVE  InFlight(results[t][c])'
  <2>1. PICK u \in Resolves, l \in SUBSET Resolves :
          Rest(results, c, Resolves) = [now |-> u, msg |-> results[u][c], left |-> l]
    BY <1>3, RestIs
  <2>2. Rest(results, c, Resolves) \in Event
    <3>1. u = t  BY DEF OneResolves
    <3>2. t \in Trigger  BY TriggerAssumption
    <3>3. results[u][c] \in Message  BY <1>3, <3>1, <3>2 DEF TypeOK
    <3>4. QED  BY <2>1, <3>3 DEF Event
  <2>3. Rest(results, c, Resolves) # None  BY <2>2, NoneAssumption
  <2>4. Rest(results, c, Resolves).msg = results[t][c]
    BY <2>1 DEF OneResolves
  <2>5. QED  BY <1>1, <2>3, <2>4 DEF InFlight
<1>4. \A m \in due' : m \in due \/ \E t \in Resolves :
         results[t][c] # None /\ m = results[t][c]
  BY DEF StartApplied, Dismisses
<1>5. DueGoes'  BY <1>2, <1>3, <1>4 DEF DueGoes
<1>6. DueSent'
  BY <1>4, TriggerAssumption DEF DueSent, ResultSent
<1>7. ResultSent'  BY DEF ResultSent
<1>8. QED  BY <1>5, <1>6, <1>7 DEF DueInv

\* A dismissal that ends leaves its message dismissed or refused.
LEMMA AppliedStepDue ==
  ASSUME TypeOK, DueInv, NEW c \in Container, NEW n \in 0..MaxReports,
         AppliedStep(c, n)
  PROVE  DueInv'
<1>1. /\ applied[c][n] # None /\ Forget(c, n) /\ UNCHANGED <<report, due>>
      /\ shown' \subseteq shown /\ failed \subseteq failed'
      /\ applied[c][n].msg \notin shown' \/ applied[c][n].msg \in failed'
  BY DEF AppliedStep, Dismissed, DismissFails, history
<1>2. /\ \A d \in Container, k \in 0..MaxReports :
           (d # c \/ k # n) => applied'[d][k] = applied[d][k]
      /\ results'[applied[c][n].now][c] = None
      /\ \A t \in Trigger, d \in Container :
           (t # applied[c][n].now \/ d # c) => results'[t][d] = results[t][d]
  BY <1>1, ForgetIs
<1>3. \A m : InFlight(m) => m = applied[c][n].msg \/ InFlight(m)'
  <2> SUFFICES ASSUME NEW m, NEW d \in Container, NEW k \in 0..MaxReports,
                      applied[d][k] # None, applied[d][k].msg = m,
                      m # applied[c][n].msg
               PROVE  InFlight(m)'
    BY DEF InFlight
  <2>1. applied'[d][k] = applied[d][k]  BY <1>2
  <2>2. QED  BY <2>1 DEF InFlight
<1>4. DueGoes'  BY <1>1, <1>3 DEF DueInv, DueGoes
<1>5. \A m : CalledFor(m)' = CalledFor(m)  BY <1>1 DEF CalledFor
<1>6. DueSent' /\ ResultSent'
  BY <1>1, <1>2, <1>5 DEF DueInv, DueSent, ResultSent
<1>7. QED  BY <1>4, <1>6 DEF DueInv

LEMMA ReturnsCalled ==
  ASSUME ReportOK, NEW n \in DOMAIN report, NEW h \in report[n].left, Returns(n, h)
  PROVE  /\ \A m : CalledFor(m) => CalledFor(m)'
         /\ n \in DOMAIN report' /\ h.id \in report'[n].over
<1>1. /\ DOMAIN report' = DOMAIN report
      /\ report'[n].over = report[n].over \cup {h.id}
      /\ \A k \in DOMAIN report : k # n => report'[k] = report[k]
  BY ReturnsIs
<1>2. \A k \in DOMAIN report : report[k].over \subseteq report'[k].over
  BY <1>1
<1>3. QED  BY <1>1, <1>2, CalledStays

\* A message that is sent is new: it was not due.
LEMMA SentDue ==
  ASSUME TypeOK, LeftOnce, DueInv, NEW n \in DOMAIN report,
         NEW h \in report[n].left, Sent(n, h)
  PROVE  DueInv'
<1>1. ReportOK /\ Returns(n, h) /\ UNCHANGED <<applied, due, failed>>
  BY Parts DEF Sent
<1>2. /\ \A m : CalledFor(m) => CalledFor(m)'
      /\ n \in DOMAIN report' /\ h.id \in report'[n].over
  BY <1>1, ReturnsCalled
<1>3. /\ shown' = shown \cup {Message1(h.id, n, c) : c \in Acted(h.id, n)}
      /\ \A t \in Trigger, c \in Container :
            \/ results'[t][c] = results[t][c]
            \/ /\ t = h.id /\ c \in Acted(t, n)
               /\ results'[t][c] = Message1(t, n, c)
  BY SentIs
<1>4. \A c : ~CalledFor(Message1(h.id, n, c))
  BY DEF LeftOnce, CalledFor, Message1
<1>5. DueGoes'
  BY <1>1, <1>3, <1>4 DEF DueInv, DueGoes, DueSent, InFlight
<1>6. DueSent'  BY <1>1, <1>2 DEF DueInv, DueSent
<1>7. \A c : CalledFor(Message1(h.id, n, c))'
  BY <1>2 DEF CalledFor, Message1
<1>8. ResultSent'
  BY <1>2, <1>3, <1>7 DEF DueInv, ResultSent
<1>9. QED  BY <1>5, <1>6, <1>8 DEF DueInv

LEMMA ReportStepDue ==
  ASSUME OneResolves, TypeOK, CallInv, DueInv, NEW n \in DOMAIN report,
         ReportStep(n)
  PROVE  DueInv'
<1>1. PICK h \in report[n].left :
        Sent(n, h) \/ SendFails(n, h) \/ Updated(n, h) \/ UpdateReturns(n, h)
  BY DEF ReportStep
<1>2. ReportOK /\ n \in Number /\ report[n] \in Report  BY Parts, Reports
<1>3. CASE Sent(n, h)  BY <1>3, SentDue DEF CallInv
<1>4. CASE SendFails(n, h) \/ UpdateReturns(n, h)
  <2>1. Returns(n, h) /\ UNCHANGED <<applied, due, failed, results, shown>>
    BY <1>4 DEF SendFails, UpdateReturns
  <2>2. \A m : CalledFor(m) => CalledFor(m)'  BY <1>2, <2>1, ReturnsCalled
  <2>3. QED
    BY <2>1, <2>2 DEF DueInv, DueGoes, DueSent, ResultSent, InFlight
<1>5. CASE Updated(n, h)
  <2>1. /\ report' = [report EXCEPT ![n].waits = TRUE] /\ ~report[n].waits
        /\ UNCHANGED <<results, shown, failed>>
    BY <1>5 DEF Updated, Calls
  <2>2. PICK c \in Acted(h.id, n) : StartApplied(c, n)  BY <1>5 DEF Updated
  <2>3. c \in Container /\ n \in 0..MaxReports
    BY <1>2, BoundsAssumption DEF Acted, ActsOn, Report, Number
  <2>4. applied[c][n] = None
    BY <1>2, <2>1, <2>3 DEF CallInv, EventsOfUpdates
  <2>5. /\ DOMAIN report' = DOMAIN report
        /\ \A k \in DOMAIN report : report[k].over \subseteq report'[k].over
    BY <1>2, <2>1, WaitsIs
  <2>6. \A m : CalledFor(m) => CalledFor(m)'  BY <2>5, CalledStays
  <2>7. QED  BY <2>1, <2>2, <2>3, <2>4, <2>6, StartAppliedDue DEF DueInv
<1>6. QED  BY <1>1, <1>3, <1>4, <1>5

LEMMA DueInductive ==
  ASSUME OneResolves, TypeOK, CallInv, DueInv, [Next]_vars  PROVE DueInv'
<1>1. CASE UNCHANGED <<report, results, shown, applied, due, failed>>
  BY <1>1 DEF DueInv, DueGoes, DueSent, ResultSent, CalledFor, InFlight
<1>2. CASE \E n \in DOMAIN report : ReportStep(n)  BY <1>2, ReportStepDue
<1>3. CASE EmitReport \/ EmitReports
  <2>1. PICK news \in SUBSET Container, changed \in SUBSET Container,
             batch \in BOOLEAN : Emit(news, changed, batch)
    BY <1>3 DEF EmitReport, EmitReports
  <2>2. /\ DOMAIN report \subseteq DOMAIN report'
        /\ \A k \in DOMAIN report : report'[k] = report[k]
    BY <2>1, Parts, EmitIs
  <2>3. \A m : CalledFor(m) => CalledFor(m)'  BY <2>2, CalledStays
  <2>4. UNCHANGED <<results, shown, applied, due, failed>>
    BY <2>1 DEF Emit, history
  <2>5. QED  BY <2>3, <2>4 DEF DueInv, DueGoes, DueSent, ResultSent, InFlight
<1>4. ASSUME NEW c \in Container, UserUpdates(c)  PROVE DueInv'
  <2>1. /\ applied[c][0] = None /\ StartApplied(c, 0) /\ 0 \in 0..MaxReports
        /\ UNCHANGED <<report, results, shown, failed>>
    BY <1>4, BoundsAssumption DEF UserUpdates
  <2>2. \A m : CalledFor(m) => CalledFor(m)'  BY <2>1 DEF CalledFor
  <2>3. QED  BY <2>1, <2>2, StartAppliedDue DEF DueInv
<1>5. CASE \E c \in Container, n \in 0..MaxReports : AppliedStep(c, n)
  BY <1>5, AppliedStepDue
<1>6. CASE \E s \in Handshake : HandshakeStep(s)
  BY <1>6, <1>1 DEF HandshakeStep, Deregister, Register, HandshakeEnds, history
<1>7. CASE UNCHANGED vars  BY <1>7, <1>1 DEF vars, history
<1>8. QED  BY <1>2, <1>3, <1>4, <1>5, <1>6, <1>7 DEF Next

LEMMA DueInit == ASSUME Init  PROVE DueInv
  BY DEF Init, DueInv, DueGoes, DueSent, ResultSent

(***************************************************************************)
(* With one trigger that keeps results, and handshakes that do not         *)
(* overlap: what is remembered of a container when its update is applied   *)
(* is dismissed unless the provider refuses, whatever is sent meanwhile    *)
(* (Trigger.ts:391-405).                                                   *)
(***************************************************************************)
THEOREM DueDismissed ==
  ASSUME OneHandshake, OneResolves  PROVE Spec => []DueIsDismissed
<1>1. Init => DispatchInv /\ DueInv
  BY InitTyped, HandlerInit, CallInit, DueInit DEF DispatchInv
<1>2. DispatchInv /\ DueInv /\ [Next]_vars => DispatchInv' /\ DueInv'
  BY DispatchInductive, DueInductive DEF DispatchInv
<1>3. DueInv => DueIsDismissed
  BY DEF DueInv, DueGoes, InFlight, DueIsDismissed
<1>4. QED  BY <1>1, <1>2, <1>3, PTL DEF Spec
===============================================================================
