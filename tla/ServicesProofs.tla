----------------------------- MODULE ServicesProofs -----------------------------
(***************************************************************************)
(* Proofs about the components that keep a queue, a session or a store of  *)
(* their own: the watcher's timers, the credentials of a remote daemon,    *)
(* the health monitor, the start and stop of the process, the pages of the *)
(* user interface, the security gate, the file of the store and the stream *)
(* of Docker's events.                                                     *)
(***************************************************************************)
EXTENDS Watcher, RemoteAuth, HealthMonitor, Lifecycle, WebPages, SecurityGate, StoreFile,
        DockerEvents, OrderingProofs, FiniteSetTheorems, FunctionTheorems, SequenceTheorems, TLAPS

---------------------------------------------------------------------------------
(***************************************************************************)
(* A queued watch has exactly one poll timer, however the cron job, the    *)
(* timers, container events and the deregistration interleave.             *)
(***************************************************************************)
\* The flag, the handle and the pending timers of the maintenance queue move
\* together: two values of the queue are all there are.
Quiet == [asked |-> FALSE, handle |-> FALSE, polls |-> 0]
Waiting == [asked |-> TRUE, handle |-> TRUE, polls |-> 1]
InFire == [asked |-> TRUE, handle |-> FALSE, polls |-> 0]

TimersOK ==
  /\ cronRuns \in BOOLEAN /\ window \in {"none", "open", "closed"}
  /\ startTimer \in BOOLEAN /\ debounced \in BOOLEAN /\ quietTimer \in BOOLEAN
  /\ listen \in {"off", "timer", "auth", "open"} /\ owed \in BOOLEAN

IOnePoll == TimersOK /\ queue \in {Quiet, Waiting}

LEMMA QuietFields == Quiet.asked = FALSE /\ Quiet.handle = FALSE /\ Quiet.polls = 0
BY DEF Quiet
LEMMA WaitingFields == Waiting.asked = TRUE /\ Waiting.handle = TRUE /\ Waiting.polls = 1
BY DEF Waiting
LEMMA InFireFields == InFire.asked = TRUE /\ InFire.handle = FALSE /\ InFire.polls = 0
BY DEF InFire

LEMMA QueueWaits == Queued(Quiet) = Waiting /\ Queued(Waiting) = Waiting /\ Queued(InFire) = Waiting
<1>1. Queued(Quiet) = Waiting
  BY QuietFields DEF Queued, Waiting
<1>2. Queued(Waiting) = Waiting
  BY WaitingFields DEF Queued, Waiting
<1>3. Queued(InFire) = Waiting
  BY InFireFields DEF Queued, Waiting
<1> QED BY <1>1, <1>2, <1>3

LEMMA ClearQuiets == Cleared(Quiet) = Quiet /\ Cleared(Waiting) = Quiet /\ Cleared(InFire) = Quiet
<1>1. Cleared(Quiet) = Quiet
  BY QuietFields DEF Cleared, Quiet
<1>2. Cleared(Waiting) = Quiet
  <2>1. (IF Waiting.handle THEN Waiting.polls - 1 ELSE Waiting.polls) = 0
    BY WaitingFields
  <2> QED BY <2>1 DEF Cleared, Quiet
<1>3. Cleared(InFire) = Quiet
  BY InFireFields DEF Cleared, Quiet
<1> QED BY <1>1, <1>2, <1>3

LEMMA FireEnds == Fired(Waiting) = InFire
<1>1. Waiting.polls - 1 = 0
  BY WaitingFields
<1> QED BY <1>1, WaitingFields, Zenon DEF Fired, InFire

LEMMA QueueTyped ==
  /\ Quiet \in [asked : BOOLEAN, handle : BOOLEAN, polls : Nat]
  /\ Waiting \in [asked : BOOLEAN, handle : BOOLEAN, polls : Nat]
BY DEF Quiet, Waiting

\* watchFromCron leaves no watch queued, or one with its poll.
LEMMA WatchKeepsOnePoll ==
  ASSUME IOnePoll, WatchFromCron
  PROVE  queue' \in {Quiet, Waiting} /\ owed' \in BOOLEAN
BY QueueWaits, ClearQuiets, Zenon DEF IOnePoll, WatchFromCron

LEMMA WatcherStarts == WatcherInit => IOnePoll
<1> SUFFICES ASSUME WatcherInit PROVE IOnePoll
  OBVIOUS
<1>1. listen \in {"off", "timer", "auth", "open"}
  BY DEF WatcherInit
<1>2. queue = Quiet
  BY DEF WatcherInit, Quiet
<1> QED BY <1>1, <1>2, Zenon DEF WatcherInit, IOnePoll, TimersOK

LEMMA WatcherKeeps == IOnePoll /\ [WatcherNext]_watcherVars => IOnePoll'
<1> SUFFICES ASSUME IOnePoll, [WatcherNext]_watcherVars PROVE IOnePoll'
  OBVIOUS
<1>1. CASE CronFires
  BY <1>1, WatchKeepsOnePoll, Zenon DEF CronFires, IOnePoll, TimersOK, events
<1>2. CASE StartFires
  BY <1>2, WatchKeepsOnePoll, Zenon DEF StartFires, IOnePoll, TimersOK, events
<1>3. CASE QuietFires
  BY <1>3, WatchKeepsOnePoll, Zenon DEF QuietFires, IOnePoll, TimersOK, events
<1>4. CASE PollFires
  <2>1. queue = Waiting
    BY <1>4, QuietFields DEF PollFires, IOnePoll
  <2>2. queue' \in {Quiet, Waiting}
    BY <1>4, <2>1, FireEnds, QueueWaits, ClearQuiets, Zenon DEF PollFires
  <2>3. owed' \in BOOLEAN
    BY <1>4, Zenon DEF PollFires, IOnePoll, TimersOK
  <2> QED BY <1>4, <2>2, <2>3, Zenon DEF PollFires, IOnePoll, TimersOK, events
<1>5. CASE ListenFires \/ Listens \/ StreamEnds
  BY <1>5 DEF ListenFires, Listens, StreamEnds, IOnePoll, TimersOK
<1>6. CASE ContainerEvent
  BY <1>6, Zenon DEF ContainerEvent, IOnePoll, TimersOK, events
<1>7. CASE DeregisterWatcher
  <2>1. listen' \in {"off", "timer", "auth", "open"}
    BY <1>7 DEF DeregisterWatcher, IOnePoll, TimersOK
  <2>2. queue' \in {Quiet, Waiting}
    BY <1>7, ClearQuiets, Zenon DEF DeregisterWatcher, IOnePoll
  <2> QED BY <1>7, <2>1, <2>2, Zenon DEF DeregisterWatcher, IOnePoll, TimersOK
<1>8. CASE WindowOpens \/ WindowCloses
  BY <1>8, Zenon DEF WindowOpens, WindowCloses, IOnePoll, TimersOK, events
<1>9. CASE UNCHANGED watcherVars
  BY <1>9, Zenon DEF watcherVars, IOnePoll, TimersOK
<1> QED
  BY <1>1, <1>2, <1>3, <1>4, <1>5, <1>6, <1>7, <1>8, <1>9 DEF WatcherNext

LEMMA AlwaysOnePoll == WatcherSpec => []IOnePoll
BY WatcherStarts, WatcherKeeps, PTL DEF WatcherSpec

\* WatcherTypeCorrect: the timers, the queue and the stream of a watcher keep their
\* types.
THEOREM WatcherTypeCorrect == WatcherSpec => []WatcherTypeOK
<1>1. IOnePoll => WatcherTypeOK
  BY QueueTyped, Zenon DEF IOnePoll, TimersOK, WatcherTypeOK
<1> QED BY <1>1, AlwaysOnePoll, PTL

\* PolledOnce: the queue of the maintenance window has one pending timer with
\* its handle set while a watch is queued, and none otherwise.
THEOREM PolledOnce == WatcherSpec => []OnePoll
<1>1. IOnePoll => OnePoll
  BY QuietFields, WaitingFields, Zenon DEF IOnePoll, OnePoll
<1> QED BY <1>1, AlwaysOnePoll, PTL

---------------------------------------------------------------------------------
(***************************************************************************)
(* KeepsRefreshToken, for any number of callers and of refresh tokens. The *)
(* invariant follows a new token from its issue to its use: it is in an    *)
(* answer that no call has applied, in one answer only, accepted, and no   *)
(* request carries it yet.                                                 *)
(***************************************************************************)
ITyped ==
  /\ call \in [Caller -> Call] /\ refresh \in 0..Issues /\ issued \in 0..Issues
  /\ valid \subseteq RefreshToken /\ lost \in BOOLEAN

\* Nobody has a token that was not issued.
IIssued == /\ refresh <= issued
           /\ \A t \in valid : t <= issued
           /\ \A c \in Caller : call[c].sent <= issued /\ call[c].answer <= issued

\* A new token is accepted, and the watcher has it not yet.
INew == \A c \in Caller : call[c].answer # 0 =>
          call[c].at = "answered" /\ call[c].answer \in valid /\ call[c].answer # refresh

\* A new token is in one answer, and in no request.
IOwn == \A c, d \in Caller : call[c].answer # 0 =>
          /\ c # d => call[d].answer # call[c].answer
          /\ call[d].at = "ask" => call[d].sent # call[c].answer

\* A held token that was spent is about to be replaced.
IReplaced == ~lost /\ refresh # 0 /\ refresh \notin valid => \E c \in Caller : call[c].answer # 0

IAuth == ITyped /\ IIssued /\ INew /\ IOwn /\ IReplaced

\* The invariant at the start: one token at most, and no call.
LEMMA AuthStarts == AuthInit => IAuth
<1> SUFFICES ASSUME AuthInit PROVE IAuth
  OBVIOUS
<1>1. refresh \in {0, 1} /\ issued = refresh /\ valid = {refresh} \ {0} /\ lost = FALSE
  BY DEF AuthInit, ConfiguredTokens
<1>2. \A c \in Caller : call[c] = Idle
  BY DEF AuthInit
<1>3. Idle \in Call /\ Idle.at = "idle" /\ Idle.sent = 0 /\ Idle.answer = 0
  BY AuthAssumption DEF Idle, Call
<1>4. ITyped
  <2>1. call \in [Caller -> Call]
    BY <1>3 DEF AuthInit
  <2>2. refresh \in 0..Issues /\ valid \subseteq RefreshToken
    BY <1>1, AuthAssumption DEF RefreshToken
  <2> QED BY <1>1, <2>1, <2>2 DEF ITyped
<1>5. IIssued /\ INew /\ IOwn /\ IReplaced
  BY <1>1, <1>2, <1>3 DEF IIssued, INew, IOwn, IReplaced
<1> QED BY <1>4, <1>5 DEF IAuth

(***************************************************************************)
(* A step of one call that neither brings nor applies a token: the call    *)
(* moves on, and carries the token that is held, the one it carried, or    *)
(* none.                                                                   *)
(***************************************************************************)
Advances(c, r) ==
  /\ r \in Call /\ r.answer = 0
  /\ r.sent \in {0, refresh, call[c].sent}
  /\ r.at = "ask" => r.sent \in {0, refresh}
  /\ call' = [call EXCEPT ![c] = r]
  /\ UNCHANGED <<refresh, issued, valid>>

LEMMA AdvancesKeeps ==
  ASSUME IAuth, NEW c \in Caller, NEW r, Advances(c, r),
         call[c].answer = 0, lost' = lost
  PROVE  IAuth'
<1>1. /\ call \in [Caller -> Call] /\ refresh \in 0..Issues /\ issued \in 0..Issues
  BY DEF IAuth, ITyped
<1>2. \A d \in Caller : call'[d] = IF d = c THEN r ELSE call[d]
  BY <1>1 DEF Advances
<1>3. refresh' = refresh /\ issued' = issued /\ valid' = valid /\ lost' = lost
  BY DEF Advances
<1>4. ITyped'
  BY <1>3 DEF Advances, IAuth, ITyped
<1>5. /\ \A d \in Caller : call'[d].answer = call[d].answer
      /\ \A d \in Caller : d # c => call'[d] = call[d]
      /\ call'[c] = r
  BY <1>2 DEF Advances
<1>6. IIssued'
  BY <1>1, <1>2, <1>3, AuthAssumption DEF IAuth, IIssued, Advances
<1>7. INew'
  BY <1>2, <1>3 DEF IAuth, INew, Advances
<1>8. IOwn'
  <2> SUFFICES ASSUME NEW d \in Caller, NEW e \in Caller, call'[d].answer # 0
               PROVE  /\ d # e => call'[e].answer # call'[d].answer
                      /\ call'[e].at = "ask" => call'[e].sent # call'[d].answer
    BY DEF IOwn
  <2>1. call[d].answer # 0 /\ call'[d].answer = call[d].answer /\ call'[e].answer = call[e].answer
    BY <1>5
  <2>2. d # e => call'[e].answer # call'[d].answer
    BY <2>1 DEF IAuth, IOwn
  <2>3. CASE e = c
    BY <1>5, <2>1, <2>2, <2>3 DEF IAuth, INew, Advances
  <2>4. CASE e # c
    BY <1>5, <2>1, <2>2, <2>4 DEF IAuth, IOwn
  <2> QED BY <2>3, <2>4
<1>9. IReplaced'
  BY <1>3, <1>5 DEF IAuth, IReplaced
<1> QED BY <1>4, <1>6, <1>7, <1>8, <1>9 DEF IAuth

\* The fields of a call.
LEMMA FieldsOfCall ==
  ASSUME IAuth, NEW c \in Caller
  PROVE  /\ call[c] \in Call /\ call[c].sent \in 0..Issues
         /\ call[c].answer \in 0..Issues /\ call[c].polls \in 0..Polls
         /\ call[c].answer # 0 => call[c].at = "answered"
<1>1. call[c] \in Call
  BY DEF IAuth, ITyped
<1> QED BY <1>1 DEF Call, IAuth, INew

\* A call that brings or applies no token moves on.
LEMMA MoveKeeps ==
  ASSUME IAuth, NEW c \in Caller,
         NEW at \in {"answered", "device", "sleep", "poll", "ok", "failed"},
         NEW polls \in 0..Polls,
         call[c].answer = 0, Goes(c, at, 0, polls),
         UNCHANGED <<refresh, issued, valid, lost>>
  PROVE  IAuth'
<1> DEFINE r == [at |-> at, sent |-> call[c].sent, answer |-> 0, polls |-> polls]
<1>1. call[c].sent \in 0..Issues
  BY FieldsOfCall
<1>2. r \in Call /\ r.answer = 0 /\ r.sent = call[c].sent /\ r.at # "ask"
  BY <1>1, AuthAssumption DEF Call
<1>3. call' = [call EXCEPT ![c] = r]
  BY DEF Goes
<1> HIDE DEF r
<1>4. Advances(c, r)
  BY <1>2, <1>3 DEF Advances
<1> QED BY <1>4, AdvancesKeeps

\* A call begins.
LEMMA BeginKeeps ==
  ASSUME IAuth, NEW c \in Caller, call[c].at = "idle",
         NEW at \in {"ask", "device", "ok", "failed"}, NEW old \in {0, refresh},
         Begins(c, at, old), UNCHANGED <<refresh, issued, valid, lost>>
  PROVE  IAuth'
<1> DEFINE r == [at |-> at, sent |-> old, answer |-> 0, polls |-> 0]
<1>1. refresh \in 0..Issues /\ call[c].answer = 0
  BY FieldsOfCall DEF IAuth, ITyped
<1>2. r \in Call /\ r.answer = 0 /\ r.sent \in {0, refresh}
  BY <1>1, AuthAssumption DEF Call
<1>3. call' = [call EXCEPT ![c] = r]
  BY DEF Begins
<1> HIDE DEF r
<1>4. Advances(c, r)
  BY <1>2, <1>3 DEF Advances
<1> QED BY <1>1, <1>4, AdvancesKeeps

\* The endpoint exchanges a token: the new one is in the answer.
LEMMA ExchangeKeeps ==
  ASSUME IAuth, NEW c \in Caller, call[c].at = "ask", call[c].sent \in valid,
         Issue({call[c].sent}), Goes(c, "answered", issued', call[c].polls),
         UNCHANGED <<refresh, lost>>
  PROVE  IAuth'
<1> DEFINE r == [at |-> "answered", sent |-> call[c].sent, answer |-> issued', polls |-> call[c].polls]
<1>1. /\ call \in [Caller -> Call] /\ refresh \in 0..Issues /\ issued \in 0..Issues
      /\ valid \subseteq 1..Issues
  BY DEF IAuth, ITyped, RefreshToken
<1>2. /\ issued' = issued + 1 /\ issued' \in 1..Issues /\ issued' # 0
      /\ valid' = (valid \ {call[c].sent}) \cup {issued'} /\ refresh' = refresh /\ lost' = lost
  BY <1>1, AuthAssumption DEF Issue
<1>3. r \in Call /\ r.answer = issued' /\ r.sent = call[c].sent /\ r.at = "answered"
  BY <1>2, FieldsOfCall DEF Call
<1>4. call' = [call EXCEPT ![c] = r]
  BY DEF Goes
<1> HIDE DEF r
<1>5. /\ call'[c] = r /\ call' \in [Caller -> Call]
      /\ \A d \in Caller : d # c => call'[d] = call[d]
  BY <1>1, <1>3, <1>4
<1>6. \A d \in Caller : call[d].answer \in 0..Issues /\ call[d].sent \in 0..Issues
  BY FieldsOfCall
<1>7. \A d \in Caller : call[d].answer < issued' /\ call[d].sent < issued'
  BY <1>1, <1>2, <1>6 DEF IAuth, IIssued
<1>8. refresh < issued' /\ \A t \in valid : t < issued'
  BY <1>1, <1>2 DEF IAuth, IIssued
<1>9. ITyped'
  <2>1. valid' \subseteq 1..Issues
    BY <1>1, <1>2
  <2>2. refresh' \in 0..Issues /\ issued' \in 0..Issues
    BY <1>1, <1>2, AuthAssumption
  <2>3. lost' \in BOOLEAN
    BY <1>2 DEF IAuth, ITyped
  <2> QED BY <1>5, <2>1, <2>2, <2>3 DEF ITyped, RefreshToken
<1>10. IIssued'
  <2>1. refresh' <= issued' /\ \A t \in valid' : t <= issued'
    BY <1>1, <1>2, <1>8
  <2>2. ASSUME NEW d \in Caller PROVE call'[d].sent <= issued' /\ call'[d].answer <= issued'
    BY <1>2, <1>3, <1>5, <1>6, <1>7
  <2> QED BY <2>1, <2>2 DEF IIssued
<1>11. INew'
  <2> SUFFICES ASSUME NEW d \in Caller, call'[d].answer # 0
               PROVE  /\ call'[d].at = "answered" /\ call'[d].answer \in valid'
                      /\ call'[d].answer # refresh'
    BY DEF INew
  <2>1. CASE d = c
    BY <1>1, <1>2, <1>3, <1>5, <1>8, <2>1
  <2>2. CASE d # c
    <3>1. call'[d] = call[d] /\ call[c].sent # call[d].answer
      BY <1>5, <2>2 DEF IAuth, IOwn
    <3> QED BY <1>2, <3>1 DEF IAuth, INew
  <2> QED BY <2>1, <2>2
<1>12. IOwn'
  <2> SUFFICES ASSUME NEW d \in Caller, NEW e \in Caller, call'[d].answer # 0
               PROVE  /\ d # e => call'[e].answer # call'[d].answer
                      /\ call'[e].at = "ask" => call'[e].sent # call'[d].answer
    BY DEF IOwn
  <2>1. CASE d = c
    <3>1. call'[d].answer = issued'
      BY <1>3, <1>5, <2>1
    <3>2. CASE e = c
      BY <1>3, <1>5, <2>1, <3>2
    <3>3. CASE e # c
      <4>1. call'[e] = call[e] /\ call[e].answer \in Nat /\ call[e].sent \in Nat
        BY <1>5, <1>6, <3>3
      <4>2. call[e].answer < issued' /\ call[e].sent < issued' /\ issued' \in Nat
        BY <1>2, <1>7
      <4> QED BY <3>1, <4>1, <4>2
    <3> QED BY <3>2, <3>3
  <2>2. CASE d # c
    <3>1. call'[d] = call[d]
      BY <1>5, <2>2
    <3>2. CASE e = c
      <4>1. call'[e].answer = issued' /\ call'[e].at # "ask"
        BY <1>3, <1>5, <3>2
      <4>2. call[d].answer < issued' /\ call[d].answer \in Nat /\ issued' \in Nat
        BY <1>2, <1>6, <1>7
      <4> QED BY <3>1, <4>1, <4>2
    <3>3. CASE e # c
      BY <1>5, <3>1, <3>3 DEF IAuth, IOwn
    <3> QED BY <3>2, <3>3
  <2> QED BY <2>1, <2>2
<1>13. IReplaced'
  BY <1>2, <1>3, <1>5 DEF IReplaced
<1> QED BY <1>9, <1>10, <1>11, <1>12, <1>13 DEF IAuth

\* A new token is kept, whether it was in an answer or comes with a poll.
LEMMA ApplyKeeps ==
  ASSUME IAuth, NEW c \in Caller, NEW new \in RefreshToken, Apply(c, new),
         /\ new \in valid' /\ valid' = valid \cup {new}
         /\ issued' \in 0..Issues /\ issued <= issued' /\ new <= issued'
         /\ \A d \in Caller : d # c => call[d].answer # new
         /\ lost' = lost
  PROVE  IAuth'
<1> DEFINE r == [at |-> "ok", sent |-> call[c].sent, answer |-> 0, polls |-> call[c].polls]
<1>1. /\ call \in [Caller -> Call] /\ refresh \in 0..Issues /\ issued \in 0..Issues
      /\ valid \subseteq 1..Issues /\ new \in 1..Issues
  BY DEF IAuth, ITyped, RefreshToken
<1>2. r \in Call /\ r.answer = 0 /\ r.sent = call[c].sent /\ r.at = "ok"
  BY FieldsOfCall, AuthAssumption DEF Call
<1>3. call' = [call EXCEPT ![c] = r] /\ refresh' = new
  BY <1>1 DEF Apply, Goes
<1> HIDE DEF r
<1>4. /\ call'[c] = r /\ call' \in [Caller -> Call]
      /\ \A d \in Caller : d # c => call'[d] = call[d]
  BY <1>1, <1>2, <1>3
<1>5. \A d \in Caller : call[d].answer \in 0..Issues /\ call[d].sent \in 0..Issues
  BY FieldsOfCall
<1>6. ITyped'
  BY <1>1, <1>3, <1>4 DEF ITyped, RefreshToken, IAuth
<1>7. IIssued'
  <2>1. refresh' <= issued' /\ \A t \in valid' : t <= issued'
    BY <1>1, <1>3 DEF IAuth, IIssued
  <2>2. ASSUME NEW d \in Caller PROVE call'[d].sent <= issued' /\ call'[d].answer <= issued'
    BY <1>1, <1>2, <1>4, <1>5 DEF IAuth, IIssued
  <2> QED BY <2>1, <2>2 DEF IIssued
<1>8. INew'
  BY <1>2, <1>3, <1>4 DEF IAuth, INew
<1>9. IOwn'
  <2> SUFFICES ASSUME NEW d \in Caller, NEW e \in Caller, call'[d].answer # 0
               PROVE  /\ d # e => call'[e].answer # call'[d].answer
                      /\ call'[e].at = "ask" => call'[e].sent # call'[d].answer
    BY DEF IOwn
  <2>1. d # c /\ call'[d] = call[d]
    BY <1>2, <1>4
  <2>2. CASE e = c
    BY <1>2, <1>4, <2>1, <2>2
  <2>3. CASE e # c
    BY <1>4, <2>1, <2>3 DEF IAuth, IOwn
  <2> QED BY <2>2, <2>3
<1>10. IReplaced'
  BY <1>3 DEF IReplaced
<1> QED BY <1>6, <1>7, <1>8, <1>9, <1>10 DEF IAuth

\* An answer with a new token gets lost.
LEMMA LossKeeps ==
  ASSUME IAuth, NEW c \in Caller, Goes(c, "failed", 0, call[c].polls), lost' = TRUE,
         UNCHANGED <<refresh, issued, valid>>
  PROVE  IAuth'
<1> DEFINE r == [at |-> "failed", sent |-> call[c].sent, answer |-> 0, polls |-> call[c].polls]
<1>1. call \in [Caller -> Call] /\ issued \in 0..Issues
  BY DEF IAuth, ITyped
<1>2. r \in Call /\ r.answer = 0 /\ r.sent = call[c].sent /\ r.at = "failed"
  BY FieldsOfCall, AuthAssumption DEF Call
<1>3. call' = [call EXCEPT ![c] = r]
  BY DEF Goes
<1> HIDE DEF r
<1>4. /\ call'[c] = r /\ call' \in [Caller -> Call]
      /\ \A d \in Caller : d # c => call'[d] = call[d]
  BY <1>1, <1>2, <1>3
<1>5. ITyped' /\ IReplaced'
  BY <1>4 DEF ITyped, IReplaced, IAuth
<1>6. IIssued'
  <2>1. refresh' <= issued' /\ \A t \in valid' : t <= issued'
    BY DEF IAuth, IIssued
  <2>2. ASSUME NEW d \in Caller PROVE call'[d].sent <= issued' /\ call'[d].answer <= issued'
    BY <1>1, <1>2, <1>4 DEF IAuth, IIssued
  <2> QED BY <2>1, <2>2 DEF IIssued
<1>7. INew'
  BY <1>2, <1>4 DEF IAuth, INew
<1>8. IOwn'
  <2> SUFFICES ASSUME NEW d \in Caller, NEW e \in Caller, call'[d].answer # 0
               PROVE  /\ d # e => call'[e].answer # call'[d].answer
                      /\ call'[e].at = "ask" => call'[e].sent # call'[d].answer
    BY DEF IOwn
  <2>1. d # c /\ call'[d] = call[d]
    BY <1>2, <1>4
  <2>2. CASE e = c
    BY <1>2, <1>4, <2>1, <2>2
  <2>3. CASE e # c
    BY <1>4, <2>1, <2>3 DEF IAuth, IOwn
  <2> QED BY <2>2, <2>3
<1> QED BY <1>5, <1>6, <1>7, <1>8 DEF IAuth

(***************************************************************************)
(* The invariant, action by action.                                        *)
(***************************************************************************)
LEMMA EnsureKeeps == ASSUME IAuth, NEW c \in Caller, Ensure(c) PROVE IAuth'
<1>1. call[c].at = "idle" /\ UNCHANGED <<refresh, issued, valid, lost>>
  BY DEF Ensure, provider
<1>2. Sent \in {0, refresh}
  BY DEF Sent
<1>3. \/ Begins(c, "ok", 0) \/ Begins(c, "failed", 0)
      \/ Begins(c, "device", 0) \/ Begins(c, "ask", Sent)
  BY DEF Ensure
<1> QED BY <1>1, <1>2, <1>3, BeginKeeps

LEMMA StepKeeps == ASSUME IAuth, NEW c \in Caller, AuthStep(c) PROVE IAuth'
<1>1. /\ call \in [Caller -> Call] /\ refresh \in 0..Issues /\ issued \in 0..Issues
      /\ valid \subseteq 1..Issues /\ Issues \in Nat
  BY AuthAssumption DEF IAuth, ITyped, RefreshToken
<1>2. /\ call[c].polls \in 0..Polls /\ Polls \in Nat /\ call[c].answer \in 0..Issues
      /\ call[c].answer # 0 => call[c].at = "answered"
  BY FieldsOfCall, AuthAssumption
<1>3. CASE Answer(c)
  <2>1. call[c].at = "ask" /\ call[c].answer = 0 /\ UNCHANGED <<refresh, lost>>
    BY <1>2, <1>3 DEF Answer
  <2>2. CASE /\ call[c].sent \in valid /\ Issue({call[c].sent})
             /\ Goes(c, "answered", issued', call[c].polls)
    BY <2>1, <2>2, ExchangeKeeps
  <2>3. CASE /\ Goes(c, "answered", 0, call[c].polls) \/ Goes(c, "failed", 0, call[c].polls)
             /\ UNCHANGED <<issued, valid>>
    BY <1>2, <2>1, <2>3, MoveKeeps
  <2> QED BY <1>3, <2>1, <2>2, <2>3 DEF Answer, Move
<1>4. CASE Answered(c)
  <2>1. Apply(c, call[c].answer) /\ UNCHANGED <<issued, valid, lost>> /\ call[c].at = "answered"
    BY <1>4 DEF Answered, provider
  <2>2. CASE call[c].answer = 0
    <3>1. Goes(c, "ok", 0, call[c].polls) /\ refresh' = refresh
      BY <2>1, <2>2 DEF Apply
    <3> QED BY <1>2, <2>1, <2>2, <3>1, MoveKeeps
  <2>3. CASE call[c].answer # 0
    <3>1. call[c].answer \in RefreshToken /\ call[c].answer \in valid
      BY <1>1, <1>2, <2>3 DEF RefreshToken, IAuth, INew
    <3>2. valid' = valid \cup {call[c].answer} /\ call[c].answer \in valid'
      BY <2>1, <3>1
    <3>3. issued' \in 0..Issues /\ issued <= issued' /\ call[c].answer <= issued'
      BY <1>1, <2>1 DEF IAuth, IIssued
    <3>4. \A d \in Caller : d # c => call[d].answer # call[c].answer
      BY <2>3 DEF IAuth, IOwn
    <3>5. lost' = lost
      BY <2>1
    <3> QED BY <2>1, <3>1, <3>2, <3>3, <3>4, <3>5, ApplyKeeps
  <2> QED BY <2>2, <2>3
<1>5. CASE AnswerLost(c)
  <2>1. /\ Goes(c, "failed", 0, call[c].polls) /\ UNCHANGED <<refresh, issued, valid>>
        /\ lost' = (lost \/ call[c].answer # 0)
    BY <1>5 DEF AnswerLost
  <2>2. CASE call[c].answer = 0
    <3>1. lost' = lost
      BY <2>1, <2>2 DEF IAuth, ITyped
    <3> QED BY <1>2, <2>1, <2>2, <3>1, MoveKeeps
  <2>3. CASE call[c].answer # 0
    <3>1. lost' = TRUE
      BY <2>1, <2>3
    <3> QED BY <2>1, <3>1, LossKeeps
  <2> QED BY <2>2, <2>3
<1>6. CASE DeviceCode(c)
  <2>1. /\ call[c].answer = 0 /\ UNCHANGED <<refresh, issued, valid, lost>>
        /\ Goes(c, "sleep", 0, call[c].polls) \/ Goes(c, "failed", 0, call[c].polls)
    BY <1>2, <1>6 DEF DeviceCode, Move, provider
  <2> QED BY <1>2, <2>1, MoveKeeps
<1>7. CASE Sleep(c)
  <2>1. /\ call[c].answer = 0 /\ UNCHANGED <<refresh, issued, valid, lost>>
        /\ Goes(c, "failed", 0, call[c].polls) \/ Goes(c, "poll", 0, call[c].polls)
    BY <1>2, <1>7 DEF Sleep, Move, provider
  <2> QED BY <1>2, <2>1, MoveKeeps
<1>8. CASE Poll(c)
  <2>1. call[c].at = "poll" /\ call[c].answer = 0
    BY <1>2, <1>8 DEF Poll
  <2>2. CASE Issue({}) /\ Apply(c, issued') /\ UNCHANGED lost
    <3>1. /\ issued' = issued + 1 /\ issued' \in 1..Issues
          /\ valid' = valid \cup {issued'} /\ issued' \in valid' /\ lost' = lost
      <4>1. issued < Issues /\ issued' = issued + 1 /\ valid' = (valid \ {}) \cup {issued'}
        BY <2>2 DEF Issue
      <4>2. issued + 1 \in 1..Issues
        BY <1>1, <4>1
      <4> QED BY <2>2, <4>1, <4>2
    <3>2. issued' \in 0..Issues /\ issued <= issued' /\ issued' <= issued'
      BY <1>1, <3>1
    <3>3. \A d \in Caller : d # c => call[d].answer # issued'
      BY <1>1, <3>1, FieldsOfCall DEF IAuth, IIssued
    <3> HIDE DEF Issue
    <3>4. issued' \in RefreshToken
      BY <3>1 DEF RefreshToken
    <3> QED BY <2>2, <3>1, <3>2, <3>3, <3>4, ApplyKeeps
  <2>3. CASE Apply(c, 0) /\ UNCHANGED provider
    <3>1. /\ Goes(c, "ok", 0, call[c].polls) /\ UNCHANGED <<refresh, issued, valid, lost>>
      BY <2>3 DEF Apply, provider
    <3> QED BY <1>2, <2>1, <3>1, MoveKeeps
  <2>4. CASE /\ Goes(c, "sleep", call[c].answer, IF call[c].polls < Polls THEN call[c].polls + 1 ELSE Polls)
             /\ UNCHANGED <<refresh, provider>>
    <3>1. PICK p \in 0..Polls : Goes(c, "sleep", 0, p)
      <4>1. (IF call[c].polls < Polls THEN call[c].polls + 1 ELSE Polls) \in 0..Polls
        BY <1>2
      <4> QED BY <2>1, <2>4, <4>1
    <3>2. UNCHANGED <<refresh, issued, valid, lost>>
      BY <2>4 DEF provider
    <3> QED BY <2>1, <3>1, <3>2, MoveKeeps
  <2>5. CASE Move(c, "failed") /\ UNCHANGED <<refresh, provider>>
    <3>1. Goes(c, "failed", 0, call[c].polls) /\ UNCHANGED <<refresh, issued, valid, lost>>
      BY <2>1, <2>5 DEF Move, provider
    <3> QED BY <1>2, <2>1, <3>1, MoveKeeps
  <2> QED BY <1>8, <2>2, <2>3, <2>4, <2>5 DEF Poll
<1>9. CASE Return(c)
  <2>1. call[c].answer = 0 /\ UNCHANGED <<refresh, issued, valid, lost>> /\ call' = [call EXCEPT ![c] = Idle]
    BY <1>2, <1>9 DEF Return, provider
  <2>2. Idle \in Call /\ Idle.answer = 0 /\ Idle.sent = 0 /\ Idle.at # "ask"
    BY <1>1, <1>2 DEF Idle, Call
  <2> HIDE DEF Idle
  <2>3. Advances(c, Idle)
    BY <2>1, <2>2 DEF Advances
  <2> QED BY <2>1, <2>3, AdvancesKeeps
<1> QED BY <1>3, <1>4, <1>5, <1>6, <1>7, <1>8, <1>9 DEF AuthStep

\* What the invariant is about does not change.
LEMMA SameKeeps == ASSUME IAuth, UNCHANGED <<call, refresh, issued, valid, lost>> PROVE IAuth'
BY DEF IAuth, ITyped, IIssued, INew, IOwn, IReplaced

(***************************************************************************)
(* KeepsToken: the refresh token of ensureRemoteAuthHeaders stays good for *)
(* any number of concurrent callers, whatever the order of their answers.  *)
(***************************************************************************)
THEOREM KeepsToken == AuthSpec => []KeepsRefreshToken
<1>1. IAuth /\ [AuthNext]_authVars => IAuth'
  <2> SUFFICES ASSUME IAuth, [AuthNext]_authVars PROVE IAuth'
    OBVIOUS
  <2>1. CASE Expire
    BY <2>1, SameKeeps DEF Expire, provider
  <2>2. ASSUME NEW c \in Caller, Ensure(c) PROVE IAuth'
    BY <2>2, EnsureKeeps
  <2>3. ASSUME NEW c \in Caller, AuthStep(c) PROVE IAuth'
    BY <2>3, StepKeeps
  <2>4. CASE UNCHANGED authVars
    BY <2>4, SameKeeps DEF authVars
  <2> QED BY <2>1, <2>2, <2>3, <2>4 DEF AuthNext
<1>2. IAuth => KeepsRefreshToken
  BY DEF IAuth, INew, IReplaced, KeepsRefreshToken
<1> QED BY <1>1, <1>2, AuthStarts, PTL DEF AuthSpec

---------------------------------------------------------------------------------
(***************************************************************************)
(* A rollback of the health monitor that stopped the container puts the    *)
(* backup in its place, for any number of polls. The invariant: one poll at *)
(* most waits for its inspect or rolls back, and once the container is     *)
(* stopped that poll has the rest of the rollback in hand.                 *)
(***************************************************************************)
\* The stages of a poll that rolls the container back, and those that may still
\* begin to.
Rollback == {"inspect", "stop", "remove", "wait", "create", "start"}
Awake == Rollback \cup {"asked"}

\* One poll at most waits for its inspect or rolls back, and once one rolls back
\* no other begins.
OneAwake == \A p, q \in Beat : poll[p] \in Awake /\ poll[q] \in Awake => p = q
NoneBegins == \A p \in Beat : poll[p] \in Rollback => ~polling

\* While the old container runs nothing was removed; afterwards the poll that
\* stopped it has the rest of the rollback in hand, or is over with it.
NotYetStopped ==
  box = "up" => /\ replacement = "none"
                /\ \A p \in Beat : /\ poll[p] \notin {"remove", "wait", "create", "start"}
                                   /\ poll[p] = "stop" => up[p]
InHand(p) ==
  /\ up[p]
  /\ \/ poll[p] = "remove" /\ box = "down" /\ replacement = "none" /\ ~autoremove
     \/ poll[p] \in {"wait", "create"} /\ box = "gone" /\ replacement = "none"
     \/ poll[p] = "start"
Replaced == replacement = "up" /\ \A p \in Beat : poll[p] \in {"none", "done"}
OnceStopped == box # "up" => ~polling /\ (Replaced \/ \E p \in Beat : InHand(p))

Undone == OneAwake /\ NoneBegins /\ NotYetStopped /\ OnceStopped
IMonitor == MonitorTypeOK /\ (~slow /\ ~broke => Undone)

LEMMA MonitorStarts == MonitorInit => IMonitor
BY DEF MonitorInit, IMonitor, MonitorTypeOK, Undone, OneAwake, NoneBegins, NotYetStopped, OnceStopped,
       Awake, Rollback

\* What a step leaves when only its poll moves on.
LEMMA PollMoves ==
  ASSUME MonitorTypeOK, NEW p \in Beat, NEW s, Goto(p, s)
  PROVE  poll'[p] = s /\ \A o \in Beat : o # p => poll'[o] = poll[o]
BY DEF MonitorTypeOK, Goto

LEMMA MonitorTyped == MonitorTypeOK /\ [MonitorNext]_monitorVars => MonitorTypeOK'
<1> SUFFICES ASSUME MonitorTypeOK, [MonitorNext]_monitorVars PROVE MonitorTypeOK'
  OBVIOUS
<1>1. CASE Turns \/ WindowEnds \/ UserStops
  BY <1>1, ZenonT(60) DEF Turns, WindowEnds, UserStops, MonitorTypeOK
<1>2. ASSUME NEW p \in Beat, Tick(p) \/ Checked(p) \/ Inspect(p) PROVE MonitorTypeOK'
  BY <1>2, ZenonT(60) DEF Tick, Checked, Inspect, Goto, Cleanup, MonitorTypeOK
<1>3. ASSUME NEW p \in Beat, Stop(p) \/ RemoveBox(p) \/ Wait(p) PROVE MonitorTypeOK'
  BY <1>3, ZenonT(60) DEF Stop, RemoveBox, Wait, Goto, MonitorTypeOK
<1>4. ASSUME NEW p \in Beat, Create(p) \/ Start(p) \/ DaemonFails(p) PROVE MonitorTypeOK'
  BY <1>4, ZenonT(60) DEF Create, Start, DaemonFails, Goto, MonitorTypeOK
<1>5. CASE UNCHANGED monitorVars
  BY <1>5 DEF monitorVars, MonitorTypeOK
<1> QED BY <1>1, <1>2, <1>3, <1>4, <1>5 DEF MonitorNext

\* One poll at a time: a poll that moves on was awake, unless it is a tick.
LEMMA StaysAlone ==
  ASSUME MonitorTypeOK, OneAwake, NoneBegins, NEW p \in Beat, NEW s, Goto(p, s),
         poll[p] \in Awake, s \notin Rollback \/ ~polling', polling' \in {polling, FALSE}
  PROVE  OneAwake' /\ NoneBegins'
BY PollMoves DEF OneAwake, NoneBegins, Awake

LEMMA MonitorKeeps == IMonitor /\ [MonitorNext]_monitorVars => IMonitor'
<1> SUFFICES ASSUME IMonitor, [MonitorNext]_monitorVars PROVE IMonitor'
  OBVIOUS
<1> USE DEF IMonitor
<1>0. MonitorTypeOK'
  BY MonitorTyped
<1> SUFFICES ASSUME ~slow', ~broke' PROVE Undone'
  BY <1>0
<1>a. Undone
  BY DEF MonitorNext, Turns, WindowEnds, UserStops, Tick, Checked, Inspect, Stop, RemoveBox, Wait,
         Create, Start, DaemonFails, monitorVars, MonitorTypeOK
<1> USE DEF Undone
<1>1. CASE Turns \/ WindowEnds
  BY <1>1, <1>a DEF Turns, WindowEnds, OneAwake, NoneBegins, NotYetStopped, OnceStopped, Replaced, InHand
<1>2. ~UserStops
  BY DEF UserStops
<1>3. ASSUME NEW p \in Beat, Tick(p) PROVE Undone'
  <2>1. poll'[p] = "asked" /\ \A o \in Beat : o # p => poll'[o] = poll[o]
    BY <1>3, PollMoves DEF Tick
  <2>2. \A o \in Beat : poll[o] \notin Awake
    BY <1>3, <1>a DEF Tick, NoneBegins, Awake
  <2>3. OneAwake' /\ NoneBegins'
    BY <1>3, <2>1, <2>2 DEF OneAwake, NoneBegins, Awake, Rollback
  <2>4. box = "up" /\ UNCHANGED <<box, replacement, up>>
    BY <1>3, <1>a DEF Tick, OnceStopped
  <2> QED BY <2>1, <2>3, <2>4, <1>a DEF NotYetStopped, OnceStopped
<1>4. ASSUME NEW p \in Beat, Checked(p) PROVE Undone'
  <2>1. poll[p] = "asked" /\ poll[p] \in Awake /\ UNCHANGED <<box, replacement, up>>
    BY <1>4 DEF Checked, Awake
  <2>2. box = "up"
    BY <2>1, <1>a DEF OnceStopped, Replaced, InHand, OneAwake, Awake, Rollback
  <2>3. PICK s \in {"inspect", "done"} : Goto(p, s) /\ (s = "done" \/ ~polling') /\ polling' \in {polling, FALSE}
    BY <1>4 DEF Checked, Cleanup
  <2>4. OneAwake' /\ NoneBegins'
    BY <2>1, <2>3, <1>a, StaysAlone DEF Rollback
  <2>5. poll'[p] = s /\ \A o \in Beat : o # p => poll'[o] = poll[o]
    BY <2>3, PollMoves
  <2> QED BY <2>1, <2>2, <2>3, <2>4, <2>5, <1>a DEF NotYetStopped, OnceStopped
<1>5. ASSUME NEW p \in Beat, Inspect(p) PROVE Undone'
  <2>1. poll[p] = "inspect" /\ poll[p] \in Awake /\ ~polling /\ UNCHANGED <<polling, box, replacement>>
    BY <1>5, <1>a DEF Inspect, Awake, Rollback, NoneBegins
  <2>2. box = "up"
    BY <2>1, <1>a DEF OnceStopped, Replaced, InHand, OneAwake, Awake, Rollback
  <2>3. Goto(p, "stop") /\ up' = [up EXCEPT ![p] = TRUE]
    BY <1>5, <2>2 DEF Inspect
  <2>4. OneAwake' /\ NoneBegins'
    BY <2>1, <2>3, <1>a, StaysAlone
  <2>5. poll'[p] = "stop" /\ \A o \in Beat : o # p => poll'[o] = poll[o]
    BY <2>3, PollMoves
  <2>6. up'[p] /\ \A o \in Beat : o # p => up'[o] = up[o]
    BY <2>3 DEF MonitorTypeOK
  <2> QED BY <2>1, <2>2, <2>4, <2>5, <2>6, <1>a DEF NotYetStopped, OnceStopped
<1>6. ASSUME NEW p \in Beat, Stop(p) PROVE Undone'
  <2>1. poll[p] = "stop" /\ poll[p] \in Awake /\ ~polling /\ UNCHANGED <<polling, up, autoremove, replacement>>
    BY <1>6, <1>a DEF Stop, Awake, Rollback, NoneBegins
  <2>2. box = "up" /\ up[p] /\ replacement = "none"
    BY <2>1, <1>a DEF OnceStopped, Replaced, InHand, OneAwake, Awake, Rollback, NotYetStopped
  <2>3. PICK s \in {"wait", "remove"} : Goto(p, s) /\ s = (IF autoremove THEN "wait" ELSE "remove")
    BY <1>6, <2>2 DEF Stop
  <2>4. OneAwake' /\ NoneBegins'
    BY <2>1, <2>3, <1>a, StaysAlone
  <2>5. poll'[p] = s
    BY <2>3, PollMoves
  <2>6. box' = IF autoremove THEN "gone" ELSE "down"
    BY <1>6, <2>2 DEF Stop
  <2>7. InHand(p)'
    BY <2>1, <2>2, <2>3, <2>5, <2>6 DEF InHand, MonitorTypeOK
  <2> QED BY <2>1, <2>4, <2>6, <2>7 DEF NotYetStopped, OnceStopped
<1>7. ASSUME NEW p \in Beat, RemoveBox(p) \/ Wait(p) PROVE Undone'
  <2>1. /\ poll[p] \in {"remove", "wait"} /\ poll[p] \in Awake /\ ~polling
        /\ UNCHANGED <<polling, up, replacement>>
    BY <1>7, <1>a DEF RemoveBox, Wait, Awake, Rollback, NoneBegins
  <2>2. InHand(p)
    BY <2>1, <1>a DEF OnceStopped, Replaced, InHand, OneAwake, Awake, Rollback, NotYetStopped
  <2>3. Goto(p, "create") /\ box' = "gone"
    BY <1>7, <2>2 DEF RemoveBox, Wait, InHand, MonitorTypeOK
  <2>4. OneAwake' /\ NoneBegins'
    BY <2>1, <2>3, <1>a, StaysAlone
  <2>5. poll'[p] = "create"
    BY <2>3, PollMoves
  <2>6. InHand(p)'
    BY <2>1, <2>2, <2>3, <2>5 DEF InHand
  <2> QED BY <2>1, <2>3, <2>4, <2>6 DEF NotYetStopped, OnceStopped
<1>8. ASSUME NEW p \in Beat, Create(p) PROVE Undone'
  <2>1. poll[p] = "create" /\ poll[p] \in Awake /\ ~polling /\ UNCHANGED <<polling, up, box>>
    BY <1>8, <1>a DEF Create, Awake, Rollback, NoneBegins
  <2>2. InHand(p) /\ box = "gone"
    BY <2>1, <1>a DEF OnceStopped, Replaced, InHand, OneAwake, Awake, Rollback, NotYetStopped
  <2>3. Goto(p, "start")
    BY <1>8, <2>1, <2>2 DEF Create, InHand
  <2>4. OneAwake' /\ NoneBegins'
    BY <2>1, <2>3, <1>a, StaysAlone
  <2>5. poll'[p] = "start"
    BY <2>3, PollMoves
  <2>6. InHand(p)'
    BY <2>1, <2>2, <2>5 DEF InHand
  <2> QED BY <2>1, <2>2, <2>4, <2>6 DEF NotYetStopped, OnceStopped
<1>9. ASSUME NEW p \in Beat, Start(p) PROVE Undone'
  <2>1. poll[p] = "start" /\ poll[p] \in Awake /\ ~polling /\ UNCHANGED <<polling, up, box>>
    BY <1>9, <1>a DEF Start, Awake, Rollback, NoneBegins
  <2>2. box # "up"
    BY <2>1, <1>a DEF NotYetStopped
  <2>3. Goto(p, "done") /\ replacement' = "up"
    BY <1>9 DEF Start
  <2>4. OneAwake' /\ NoneBegins'
    BY <2>1, <2>3, <1>a, StaysAlone
  <2>5. poll'[p] = "done" /\ \A o \in Beat : o # p => poll'[o] = poll[o]
    BY <2>3, PollMoves
  <2>6. \A o \in Beat : o # p => poll[o] \in {"none", "done"}
    BY <2>1, <1>a DEF OneAwake, Awake, Rollback, MonitorTypeOK
  <2>7. Replaced'
    BY <2>3, <2>5, <2>6 DEF Replaced
  <2> QED BY <2>1, <2>2, <2>4, <2>7 DEF NotYetStopped, OnceStopped
<1>10. ASSUME NEW p \in Beat, DaemonFails(p) PROVE FALSE
  BY <1>10 DEF DaemonFails
<1>11. CASE UNCHANGED monitorVars
  BY <1>11, <1>a DEF monitorVars, OneAwake, NoneBegins, NotYetStopped, OnceStopped, Replaced, InHand
<1> QED
  BY <1>1, <1>2, <1>3, <1>4, <1>5, <1>6, <1>7, <1>8, <1>9, <1>10, <1>11 DEF MonitorNext

(***************************************************************************)
(* RollsBack: for any number of polls of the health monitor, whenever none *)
(* is under way the application runs, in the container that was updated or *)
(* in the one made of the backup (checkHealth, performRollback), unless    *)
(* the daemon or a user interfered or an inspect outlived the interval.    *)
(***************************************************************************)
THEOREM RollsBack == MonitorSpec => []RollbackCompletes
<1>1. IMonitor => RollbackCompletes
  BY DEF IMonitor, MonitorTypeOK, RollbackCompletes, Undone, OnceStopped, Replaced, InHand
<1> QED BY <1>1, MonitorStarts, MonitorKeeps, PTL DEF MonitorSpec

---------------------------------------------------------------------------------
(***************************************************************************)
(* What runs after the start is whole, and a stop leaves in order, for any *)
(* components and any number of signals. The invariant: the kinds register *)
(* in turn, each settled before the next, and a shutdown that is at a kind *)
(* has seen the kinds before it go.                                        *)
(***************************************************************************)
Kinds == {"trigger", "registry", "watcher", "authentication", "agent"}

LifeTypeOK ==
  /\ mode \in {"controller", "agent"} /\ configured \subseteq Component
  /\ phase \in Nat /\ comp \in [Component -> {"off", "loading", "on", "failed", "gone"}]
  /\ stopStage \in [Signal -> 0..5] /\ leaving \in [Signal -> SUBSET Component]
  /\ exited \in {"running", "clean", "error"}

\* A kind whose turn has come; only its components have left the start.
Begun(kind) == \E i \in 1..Len(Order) : i <= phase /\ Order[i] = kind
InTurn == \A c \in Component : comp[c] # "off" => Begun(KindOf[c])
OnlyWanted == \A c \in Component : comp[c] = "loading" => c \in Wanted(KindOf[c])

\* None of a kind registers any more, or one has failed: so it is of the kinds
\* whose turn is over.
NoneLoads(kind) == SomeFailed(kind) \/ \A c \in Of(kind) : comp[c] # "loading"
Awaited == \A i \in 1..Len(Order) : i < phase => NoneLoads(Order[i])

\* The kinds a shutdown is done with; what it waits for is of the one it is at.
NoneStays(kind) == SomeFailed(kind) \/ \A c \in Of(kind) : comp[c] \notin {"on", "loading"}
Stopping(s) ==
  stopStage[s] > 0 =>
    /\ phase >= Ready
    /\ \A n \in 1..5 : n < stopStage[s] => NoneStays(StopOrder[n])
    /\ \A c \in Of(StopOrder[stopStage[s]]) :
         comp[c] = "on" => c \in leaving[s] \/ SomeFailed(StopOrder[stopStage[s]])
Leaves == \A s \in Signal : \A c \in leaving[s] : comp[c] \in {"on", "gone"}

ILife == /\ LifeTypeOK /\ InTurn /\ OnlyWanted /\ Awaited /\ Leaves
         /\ \A s \in Signal : Stopping(s)
         /\ StartsWhole

LEMMA Orders ==
  ASSUME mode \in {"controller", "agent"}
  PROVE  /\ Len(Order) \in {3, 5}
         /\ Order[1] = "trigger" /\ Order[3] = "watcher"
         /\ mode = "controller" => Len(Order) = 5 /\ Order[4] = "authentication"
         /\ \A i \in 1..Len(Order) : Order[i] \in Kinds
         /\ \A i, j \in 1..Len(Order) : Order[i] = Order[j] => i = j
BY DEF Order, Kinds

LEMMA StopOrders == /\ Len(StopOrder) = 5
                    /\ \A kind \in Kinds : \E n \in 1..5 : StopOrder[n] = kind
                    /\ \A n \in 1..5 : StopOrder[n] \in Kinds
BY DEF StopOrder, Kinds

LEMMA WantedOfKind ==
  ASSUME NEW kind \in Kinds PROVE Wanted(kind) \subseteq Of(kind)
BY LifeAssumption DEF Wanted, Of

LEMMA LifeStarts == LifeInit => ILife
<1> SUFFICES ASSUME LifeInit PROVE ILife
  OBVIOUS
<1>1. LifeTypeOK
  BY LifeAssumption DEF LifeInit, LifeTypeOK
<1>2. InTurn /\ OnlyWanted /\ Awaited /\ Leaves /\ \A s \in Signal : Stopping(s)
  BY Orders DEF LifeInit, InTurn, OnlyWanted, Awaited, Leaves, Stopping
<1>3. StartsWhole
  BY Orders DEF LifeInit, StartsWhole, Serving
<1> QED BY <1>1, <1>2, <1>3 DEF ILife

\* The kinds register in their order: one whose turn has not come is not the kind
\* of a component that failed or registers.
LEMMA NextIsOff ==
  ASSUME ILife, phase < Len(Order), NEW c \in Of(Order[phase + 1])
  PROVE  comp[c] = "off"
<1>1. ~Begun(Order[phase + 1])
  BY Orders DEF Begun, ILife, LifeTypeOK
<1> QED BY <1>1 DEF ILife, InTurn, Of

\* Whatever failed stays so, and no component begins to register out of turn.
LEMMA FailedStays ==
  ASSUME ILife, LifeNext, NEW c \in Component, comp[c] = "failed"
  PROVE  comp'[c] = "failed"
<1> USE DEF ILife, LifeTypeOK
<1>1. CASE NextKind
  <2>1. c \notin Wanted(Order[phase + 1]) \/ ~(phase < Len(Order))
    BY NextIsOff, WantedOfKind, Orders
  <2> QED BY <1>1, <2>1 DEF NextKind
<1>2. CASE Install \/ Serve
  BY <1>2 DEF Install, Serve
<1>3. ASSUME NEW d \in Component, NEW how \in {"on", "failed"}, Registers(d, how) PROVE comp'[c] = "failed"
  BY <1>3 DEF Registers
<1>4. ASSUME NEW d \in Component, Reports(d) PROVE comp'[c] = "failed"
  BY <1>4 DEF Reports
<1>5. ASSUME NEW s \in Signal, Receive(s) \/ GoOnStopping(s) PROVE comp'[c] = "failed"
  BY <1>5 DEF Receive, GoOnStopping
<1>6. ASSUME NEW s \in Signal, NEW d \in Component, Leave(s, d) PROVE comp'[c] = "failed"
  BY <1>6 DEF Leave, Leaves
<1> QED BY <1>1, <1>2, <1>3, <1>4, <1>5, <1>6 DEF LifeNext

LEMMA FailureStays ==
  ASSUME ILife, LifeNext, NEW kind, SomeFailed(kind) PROVE SomeFailed(kind)'
BY FailedStays DEF SomeFailed, Of, In

\* A step that registers nothing new keeps the settled kinds settled.
NoneNew == \A c \in Component : comp'[c] \in {"on", "loading"} =>
             comp'[c] = comp[c] \/ (comp[c] = "loading" /\ comp'[c] = "on")

LEMMA KindsStaySettled ==
  ASSUME ILife, LifeNext, NoneNew, NEW kind
  PROVE  /\ NoneLoads(kind) => NoneLoads(kind)'
         /\ NoneStays(kind) => NoneStays(kind)'
<1>1. SomeFailed(kind) => SomeFailed(kind)'
  BY FailureStays
<1> QED BY <1>1 DEF NoneNew, NoneLoads, NoneStays, Of

\* The parts of the invariant that speak of each component by itself.
LEMMA ComponentsKeep == ASSUME ILife, LifeNext PROVE LifeTypeOK' /\ InTurn' /\ OnlyWanted' /\ Leaves'
<1> USE DEF LifeTypeOK, InTurn, OnlyWanted, Leaves
<1>a. LifeTypeOK /\ InTurn /\ OnlyWanted /\ Leaves
  BY DEF ILife
<1>b. mode' = mode /\ configured' = configured
  BY DEF LifeNext, NextKind, Install, Serve, Registers, Reports, Receive, Leave, GoOnStopping
<1>c. Order' = Order /\ Len(Order) \in {3, 5} /\ \A kind \in Kinds : Wanted(kind)' = Wanted(kind)
  BY <1>a, <1>b, Orders DEF Order, Wanted
<1>d. \A c \in Component : KindOf[c] \in Kinds
  BY LifeAssumption DEF Kinds
<1>e. phase' \in {phase, phase + 1} => \A kind \in Kinds : Begun(kind) => Begun(kind)'
  BY <1>a, <1>c DEF Begun
<1>1. CASE NextKind
  <2>1. CASE UNCHANGED <<phase, comp>>
    <3>1. UNCHANGED <<stopStage, leaving>> /\ exited' \in {exited, "error"}
      BY <1>1 DEF NextKind
    <3> QED BY <1>a, <1>b, <1>c, <1>d, <1>e, <2>1, <3>1
  <2>2. CASE ~UNCHANGED <<phase, comp>>
    <3>1. /\ phase < Len(Order) /\ phase' = phase + 1 /\ UNCHANGED <<exited, stopStage, leaving>>
          /\ comp' = [c \in Component |-> IF c \in Wanted(Order[phase + 1]) THEN "loading" ELSE comp[c]]
      BY <1>1, <2>2 DEF NextKind
    <3>a. phase + 1 \in 1..Len(Order)
      BY <1>a, <1>c, <3>1
    <3>b. PICK kind \in Kinds : kind = Order[phase + 1]
      BY <1>a, <3>a, Orders
    <3>2. Begun(kind)'
      BY <1>a, <1>c, <3>1, <3>a, <3>b DEF Begun
    <3>3. \A c \in Wanted(kind) : KindOf[c] = kind /\ comp[c] = "off"
      BY <3>1, <3>b, WantedOfKind, NextIsOff DEF Of
    <3>4. LifeTypeOK'
      BY <1>a, <1>b, <3>1
    <3>5. InTurn'
      BY <1>a, <1>d, <1>e, <3>1, <3>b, <3>2, <3>3
    <3>6. OnlyWanted'
      BY <1>a, <1>c, <1>d, <3>1, <3>b, <3>3
    <3>7. Leaves'
      BY <1>a, <3>1, <3>b, <3>3
    <3> QED BY <3>4, <3>5, <3>6, <3>7
  <2> QED BY <2>1, <2>2
<1>2. CASE Install \/ Serve
  <2>1. phase' \in {phase, Len(Order) + 1, Len(Order) + 2} /\ UNCHANGED <<comp, stopStage, leaving>> /\ exited' \in {exited, "error"}
    BY <1>2 DEF Install, Serve, Ready, Serving
  <2>2. phase' >= phase
    BY <1>2, <1>a, <1>c DEF Install, Serve, Ready, Serving
  <2>3. \A kind \in Kinds : Begun(kind) => Begun(kind)'
    BY <1>a, <1>c, <2>1, <2>2 DEF Begun
  <2> QED BY <1>a, <1>b, <1>c, <1>d, <2>1, <2>3
<1>3. ASSUME NEW c \in Component, NEW how \in {"on", "failed"}, Registers(c, how)
      PROVE  LifeTypeOK' /\ InTurn' /\ OnlyWanted' /\ Leaves'
  BY <1>3, <1>a, <1>b, <1>c, <1>d, <1>e DEF Registers
<1>4. ASSUME NEW w \in Component, Reports(w) PROVE LifeTypeOK' /\ InTurn' /\ OnlyWanted' /\ Leaves'
  BY <1>4, <1>a, <1>b, <1>c, <1>d, <1>e DEF Reports
<1>5. ASSUME NEW s \in Signal, Receive(s) \/ GoOnStopping(s)
      PROVE  LifeTypeOK' /\ InTurn' /\ OnlyWanted' /\ Leaves'
  <2>1. UNCHANGED <<phase, comp>> /\ exited' \in {exited, "clean"}
    BY <1>5 DEF Receive, GoOnStopping
  <2>2. stopStage' \in [Signal -> 0..5]
    BY <1>5, <1>a, StopOrders DEF Receive, GoOnStopping
  <2>3. leaving' = leaving \/ \E n \in 1..5 : leaving' = [leaving EXCEPT ![s] = Leavers(n)]
    BY <1>5, <1>a, StopOrders DEF Receive, GoOnStopping
  <2>4. leaving' \in [Signal -> SUBSET Component] /\ Leaves'
    BY <1>a, <2>1, <2>3 DEF Leavers, Of, In
  <2> QED BY <1>a, <1>b, <1>c, <1>d, <1>e, <2>1, <2>2, <2>4
<1>6. ASSUME NEW s \in Signal, NEW c \in Component, Leave(s, c)
      PROVE  LifeTypeOK' /\ InTurn' /\ OnlyWanted' /\ Leaves'
  <2>1. comp' = [comp EXCEPT ![c] = "gone"] /\ UNCHANGED <<phase, stopStage>> /\ exited' \in {exited, "error"}
    BY <1>6 DEF Leave
  <2>2. comp[c] \in {"on", "gone"}
    BY <1>6, <1>a DEF Leave
  <2>3. leaving' \in [Signal -> SUBSET Component] /\ \A o \in Signal : leaving'[o] \subseteq leaving[o]
    BY <1>6, <1>a DEF Leave
  <2> QED BY <1>a, <1>b, <1>c, <1>d, <1>e, <2>1, <2>2, <2>3
<1> QED BY <1>1, <1>2, <1>3, <1>4, <1>5, <1>6 DEF LifeNext

\* A kind is awaited before the next one's turn comes.
LEMMA AwaitedKeeps == ASSUME ILife, LifeNext PROVE Awaited'
<1>a. LifeTypeOK /\ Awaited /\ OnlyWanted /\ LifeTypeOK'
  BY ComponentsKeep DEF ILife
<1>b. Order' = Order /\ Len(Order) \in {3, 5} /\ \A i \in 1..Len(Order) : Order[i] \in Kinds
  BY <1>a, Orders DEF LifeNext, NextKind, Install, Serve, Registers, Reports, Receive, Leave, GoOnStopping, Order,
     LifeTypeOK
<1>s. ASSUME NEW kind \in Kinds, AllSettled(kind) PROVE NoneLoads(kind)
  BY <1>s, <1>a, LifeAssumption DEF AllSettled, NoneLoads, SomeFailed, OnlyWanted, In, Of, Wanted
<1>1. CASE NextKind
  <2>1. CASE UNCHANGED <<phase, comp>>
    BY <1>a, <1>b, <2>1 DEF Awaited, NoneLoads, SomeFailed, In
  <2>2. CASE ~UNCHANGED <<phase, comp>>
    <3>1. /\ phase < Len(Order) /\ phase' = phase + 1
          /\ phase > 0 => AllSettled(Order[phase])
          /\ comp' = [c \in Component |-> IF c \in Wanted(Order[phase + 1]) THEN "loading" ELSE comp[c]]
      BY <1>1, <2>2 DEF NextKind
    <3>2. Wanted(Order[phase + 1]) \subseteq Of(Order[phase + 1])
      BY <1>a, <1>b, <3>1, WantedOfKind DEF LifeTypeOK
    <3>3. ASSUME NEW i \in 1..Len(Order), i <= phase PROVE NoneLoads(Order[i])'
      <4>1. NoneLoads(Order[i])
        BY <1>a, <1>b, <1>s, <3>1, <3>3 DEF Awaited, LifeTypeOK
      <4>2. Order[i] # Order[phase + 1]
        BY <1>a, <1>b, <3>1, <3>3, Orders DEF LifeTypeOK
      <4>3. PICK kind \in Kinds : kind = Order[i]
        BY <1>b
      <4>4. \A c \in Of(kind) : comp'[c] = comp[c]
        BY <1>a, <3>1, <3>2, <4>2, <4>3 DEF Of, LifeTypeOK
      <4>5. NoneLoads(kind)'
        BY <4>1, <4>3, <4>4 DEF NoneLoads, SomeFailed, In, Of
      <4> QED BY <1>b, <4>3, <4>5
    <3> QED BY <1>a, <1>b, <3>1, <3>3 DEF Awaited, LifeTypeOK
  <2> QED BY <2>1, <2>2
<1>2. CASE Install
  <2>1. /\ phase = Len(Order) /\ phase' = Len(Order) + 1 /\ UNCHANGED comp
        /\ AllSettled(Order[phase])
    BY <1>2 DEF Install, Ready
  <2>2. \A kind \in Kinds : NoneLoads(kind) => NoneLoads(kind)'
    BY <2>1 DEF NoneLoads, SomeFailed, In
  <2>3. PICK kind \in Kinds : kind = Order[Len(Order)]
    BY <1>b
  <2>4. NoneLoads(kind)'
    BY <2>1, <2>2, <2>3, <1>s
  <2>5. ASSUME NEW i \in 1..Len(Order) PROVE NoneLoads(Order[i])'
    <3>1. PICK k \in Kinds : k = Order[i]
      BY <1>b
    <3>2. NoneLoads(k)'
      BY <1>a, <1>b, <2>1, <2>2, <2>3, <2>4, <3>1 DEF Awaited
    <3> QED BY <1>b, <3>1, <3>2
  <2> QED BY <1>b, <2>5 DEF Awaited
<1>3. CASE ~NextKind /\ ~Install
  <2>1. NoneNew
    BY <1>3, <1>a DEF LifeNext, Serve, Registers, Reports, Receive, Leave, GoOnStopping, NoneNew, LifeTypeOK
  <2>2. \A i \in 1..Len(Order) : i < phase' => i < phase
    BY <1>3, <1>a, <1>b DEF LifeNext, Serve, Registers, Reports, Receive, Leave, GoOnStopping, Ready, Serving,
       LifeTypeOK
  <2>3. ASSUME NEW i \in 1..Len(Order), i < phase' PROVE NoneLoads(Order[i])'
    <3>1. PICK k \in Kinds : k = Order[i]
      BY <1>b
    <3>2. NoneLoads(k)'
      BY <1>a, <2>1, <2>2, <2>3, <3>1, KindsStaySettled DEF Awaited
    <3> QED BY <1>b, <3>1, <3>2
  <2> QED BY <1>b, <2>3 DEF Awaited
<1> QED BY <1>1, <1>2, <1>3

\* Once the handlers are installed no kind registers any more but one that failed.
LEMMA ReadyIsWhole ==
  ASSUME ILife, phase >= Ready, NEW kind \in Kinds
  PROVE  NoneLoads(kind)
<1>1. LifeTypeOK /\ InTurn /\ Awaited
  BY DEF ILife
<1>2. CASE Begun(kind)
  BY <1>1, <1>2, Orders DEF Begun, Awaited, Ready, LifeTypeOK
<1>3. CASE ~Begun(kind)
  BY <1>1, <1>3 DEF InTurn, NoneLoads, Of
<1> QED BY <1>2, <1>3

LEMMA StoppingKeeps == ASSUME ILife, LifeNext, NEW s \in Signal PROVE Stopping(s)'
<1>a. LifeTypeOK /\ Stopping(s) /\ Leaves
  BY DEF ILife
<1>b. Order' = Order /\ Len(Order) \in {3, 5}
  BY <1>a, Orders DEF LifeNext, NextKind, Install, Serve, Registers, Reports, Receive, Leave, GoOnStopping, Order,
     LifeTypeOK
<1>c. phase >= Ready => phase' >= Ready'
  BY <1>a, <1>b DEF LifeNext, NextKind, Install, Serve, Registers, Reports, Receive, Leave, GoOnStopping, Ready,
     Serving, LifeTypeOK
<1>d. phase >= Ready => NoneNew
  BY <1>a, <1>b DEF LifeNext, NextKind, Install, Serve, Registers, Reports, Receive, Leave, GoOnStopping, Ready,
     LifeTypeOK, NoneNew
<1>1. CASE stopStage'[s] = stopStage[s]
  <2> SUFFICES ASSUME stopStage[s] > 0 PROVE Stopping(s)'
    BY <1>1 DEF Stopping
  <2>0. phase >= Ready /\ stopStage[s] \in 1..5
    BY <1>a DEF Stopping, LifeTypeOK
  <2>1. \A n \in 1..5 : n < stopStage[s] => NoneStays(StopOrder[n])'
    BY <1>a, <1>d, <2>0, KindsStaySettled DEF Stopping, StopOrder
  <2>2. PICK kind \in Kinds : kind = StopOrder[stopStage[s]]
    BY <2>0, StopOrders
  <2>3. ASSUME NEW c \in Of(kind), comp'[c] = "on", ~SomeFailed(kind)' PROVE c \in leaving'[s]
    <3>1. ~SomeFailed(kind) /\ NoneLoads(kind)
      BY <2>0, <2>3, FailureStays, ReadyIsWhole
    <3>2. comp[c] = "on"
      BY <1>d, <2>0, <2>3, <3>1 DEF NoneNew, NoneLoads, Of
    <3>3. c \in leaving[s]
      BY <1>a, <2>0, <2>2, <2>3, <3>1, <3>2 DEF Stopping
    <3>4. stopStage[s] > 0 /\ (leaving'[s] = leaving[s] \/ \E d \in leaving[s] : Leave(s, d) /\ leaving'[s] = leaving[s] \ {d})
      BY <1>1, <1>a, <2>0, <3>3 DEF LifeNext, NextKind, Install, Serve, Registers, Reports, Receive, Leave, GoOnStopping,
         LifeTypeOK, StopOrder
    <3> QED BY <1>a, <2>3, <3>3, <3>4 DEF Leave, LifeTypeOK, Of
  <2>4. \A c \in Of(kind) : comp'[c] = "on" => c \in leaving'[s] \/ SomeFailed(kind)'
    BY <2>3
  <2> QED BY <1>1, <1>c, <2>0, <2>1, <2>2, <2>4 DEF Stopping, StopOrder, Of
<1>2. CASE stopStage'[s] # stopStage[s]
  <2>0. Receive(s) \/ GoOnStopping(s)
    BY <1>2, <1>a DEF LifeNext, NextKind, Install, Serve, Registers, Reports, Receive, Leave, GoOnStopping, LifeTypeOK
  <2>1. /\ Receive(s) \/ (GoOnStopping(s) /\ stopStage[s] < 5)
        /\ UNCHANGED <<phase, comp>>
        /\ stopStage'[s] = stopStage[s] + 1
        /\ leaving'[s] = Leavers(stopStage[s] + 1)
    <3>1. CASE Receive(s)
      BY <1>a, <3>1 DEF Receive, LifeTypeOK
    <3>2. CASE GoOnStopping(s)
      <4>1. Len(StopOrder) = 5
        BY StopOrders
      <4> QED BY <1>2, <1>a, <3>2, <4>1 DEF GoOnStopping, LifeTypeOK
    <3> QED BY <2>0, <3>1, <3>2
  <2>2. PICK n \in 1..5 : n = stopStage[s] + 1
    <3>1. stopStage[s] \in 0..4
      BY <1>a, <2>1 DEF LifeTypeOK, Receive
    <3> QED BY <3>1
  <2>3. phase >= Ready
    BY <1>a, <2>1 DEF Receive, GoOnStopping, Stopping, LifeTypeOK
  <2>4. ASSUME NEW m \in 1..5, m < n PROVE NoneStays(StopOrder[m])
    <3>1. stopStage[s] > 0 /\ leaving[s] = {}
      BY <1>a, <2>1, <2>2, <2>4 DEF Receive, GoOnStopping, LifeTypeOK
    <3>2. CASE m < stopStage[s]
      BY <1>a, <3>1, <3>2 DEF Stopping
    <3>3. CASE m = stopStage[s]
      <4>1. NoneLoads(StopOrder[m])
        BY <2>3, ReadyIsWhole, StopOrders
      <4>2. \A c \in Of(StopOrder[m]) : comp[c] = "on" => SomeFailed(StopOrder[m])
        BY <1>a, <3>1, <3>3 DEF Stopping
      <4> QED BY <4>1, <4>2 DEF NoneLoads, NoneStays
    <3> QED BY <1>a, <2>2, <2>4, <3>2, <3>3 DEF LifeTypeOK
  <2>5. \A m \in 1..5 : m < n => NoneStays(StopOrder[m])'
    BY <2>1, <2>4 DEF NoneStays, SomeFailed, In, StopOrder
  <2>6. \A c \in Of(StopOrder[n]) : comp'[c] = "on" => c \in leaving'[s]
    BY <2>1, <2>2 DEF Leavers, Of, In
  <2> QED BY <1>c, <2>1, <2>2, <2>3, <2>5, <2>6 DEF Stopping, StopOrder, Of
<1> QED BY <1>1, <1>2

LEMMA WholeKeeps == ASSUME ILife, LifeNext PROVE StartsWhole'
<1>a. LifeTypeOK /\ InTurn /\ Awaited /\ StartsWhole /\ \A s \in Signal : Stopping(s)
  BY DEF ILife
<1>b. Order' = Order /\ Len(Order) \in {3, 5} /\ mode' = mode
  BY <1>a, Orders DEF LifeNext, NextKind, Install, Serve, Registers, Reports, Receive, Leave, GoOnStopping, Order,
     LifeTypeOK
<1>1. phase' = Serving' /\ mode' = "controller" => SomeFailed("authentication")' \/ (Offered \ Refusing \subseteq used)'
  <2> SUFFICES ASSUME phase' = Serving', mode = "controller", ~SomeFailed("authentication")'
               PROVE  (Offered \ Refusing \subseteq used)'
    BY <1>b
  <2>0. Len(Order) = 5 /\ Len(Order') = 5
    BY <1>a, <1>b, Orders DEF LifeTypeOK
  <2>1. Serving' = 7 /\ Ready = 6 /\ Serving = 7
    BY <2>0 DEF Serving, Ready
  <2>2. phase \in {6, 7} /\ ~SomeFailed("authentication")
    BY <1>a, <1>b, <2>1, FailureStays, Orders, SMTT(30) DEF LifeNext, NextKind, Install, Serve, Registers, Reports, Receive, Leave, GoOnStopping, Ready, Serving, LifeTypeOK
  <2>3. NoneLoads("authentication")
    BY <2>1, <2>2, ReadyIsWhole DEF Kinds
  <2>4. CASE phase = 6
    <3>1. Serve /\ UNCHANGED comp
      BY <2>1, <2>4, <1>a, <1>b, Orders DEF LifeNext, NextKind, Install, Serve, Registers, Reports, Receive, Leave, GoOnStopping, Ready, LifeTypeOK
    <3>2. PICK refused \in SUBSET Refusing : used' = Strategies(refused)
      BY <2>1, <2>4, <3>1 DEF Serve
    <3> QED BY <3>1, <3>2 DEF Strategies, Offered, In, Of
  <2>5. CASE phase = 7
    <3>1. NoneNew /\ used' = used
      BY <2>1, <2>5, <1>a, <1>b, Orders DEF LifeNext, NextKind, Install, Serve, Registers, Reports, Receive, Leave, GoOnStopping, Ready, LifeTypeOK, NoneNew
    <3>2. Offered \ Refusing \subseteq used
      BY <1>a, <2>1, <2>2, <2>5 DEF StartsWhole
    <3> QED BY <2>2, <2>3, <3>1, <3>2 DEF NoneNew, NoneLoads, Offered, In, Of
  <2> QED BY <2>2, <2>4, <2>5
<1>2. unheard' # {} => SomeFailed("trigger")'
  <2>1. CASE unheard # {}
    BY <2>1, <1>a, FailureStays DEF StartsWhole
  <2>2. CASE unheard = {}
    <3> SUFFICES ASSUME unheard' # {} PROVE SomeFailed("trigger")'
      OBVIOUS
    <3>1. PICK w \in Component : Reports(w)
      BY <2>2 DEF LifeNext, NextKind, Install, Serve, Registers, Reports, Receive, Leave, GoOnStopping
    <3>2. Wanted("trigger") \cap In("loading") # {}
      BY <2>2, <3>1 DEF Reports
    <3>3. Begun("watcher")
      BY <1>a, <3>1 DEF Reports, InTurn
    <3>4. PICK i \in 1..Len(Order) : i <= phase /\ Order[i] = "watcher"
      BY <3>3 DEF Begun
    <3>5. i = 3
      BY <1>a, <1>b, <3>4, Orders DEF LifeTypeOK
    <3>6. NoneLoads("trigger")
      BY <1>a, <1>b, <3>4, <3>5, Orders DEF Awaited, LifeTypeOK
    <3>7. Wanted("trigger") \subseteq Of("trigger")
      BY WantedOfKind DEF Kinds
    <3>8. SomeFailed("trigger")
      BY <3>2, <3>6, <3>7 DEF NoneLoads, In
    <3> QED BY <3>8, FailureStays
  <2> QED BY <2>1, <2>2
<1>3. exited' = "clean" => (\A c \in In("on") \cup In("loading") : SomeFailed(KindOf[c]))'
  <2> SUFFICES ASSUME exited' = "clean", NEW c \in Component, comp'[c] \in {"on", "loading"}
               PROVE  SomeFailed(KindOf[c])'
    BY DEF In
  <2>1. exited = "running"
    BY DEF LifeNext, NextKind, Install, Serve, Registers, Reports, Receive, Leave, GoOnStopping, Up
  <2>2. PICK s \in Signal : GoOnStopping(s)
    BY <2>1 DEF LifeNext, NextKind, Install, Serve, Registers, Reports, Receive, Leave
  <2>3. stopStage[s] = 5 /\ leaving[s] = {} /\ UNCHANGED comp
    BY <1>a, <2>1, <2>2, StopOrders DEF GoOnStopping, LifeTypeOK
  <2>4. phase >= Ready /\ KindOf[c] \in Kinds
    BY <1>a, <2>3, LifeAssumption DEF Stopping, Kinds
  <2>5. NoneLoads(KindOf[c]) /\ c \in Of(KindOf[c])
    BY <2>4, ReadyIsWhole DEF Of
  <2>6. PICK n \in 1..5 : StopOrder[n] = KindOf[c]
    BY <2>4, StopOrders
  <2>7. SomeFailed(KindOf[c])
    BY <1>a, <2>3, <2>5, <2>6 DEF Stopping, NoneStays, NoneLoads, Of
  <2> QED BY <2>7, FailureStays
<1> QED BY <1>1, <1>2, <1>3 DEF StartsWhole

LEMMA LifeKeeps == ILife /\ [LifeNext]_lifeVars => ILife'
<1> SUFFICES ASSUME ILife, [LifeNext]_lifeVars PROVE ILife'
  OBVIOUS
<1>1. CASE LifeNext
  BY <1>1, ComponentsKeep, AwaitedKeeps, StoppingKeeps, WholeKeeps DEF ILife
<1>2. CASE UNCHANGED lifeVars
  BY <1>2 DEF lifeVars, ILife, LifeTypeOK, InTurn, Begun, OnlyWanted, Awaited, Leaves, Stopping, StartsWhole,
     Order, Wanted, NoneLoads, NoneStays, SomeFailed, In, Ready, Serving, Offered
<1> QED BY <1>1, <1>2

(***************************************************************************)
(* StartsAndStops: for any components, configurations and signals, the     *)
(* strategies that passport tries are those the registry ends with (init   *)
(* of api/auth.ts), no container is reported before its triggers are       *)
(* registered (init of registry/index.ts), and a process that ends with 0  *)
(* has deregistered every component (deregisterAll) - each unless a        *)
(* component of that kind failed to register.                              *)
(***************************************************************************)
THEOREM StartsAndStops == LifeSpec => []StartsWhole
<1>1. ILife => StartsWhole
  BY DEF ILife
<1> QED BY <1>1, LifeStarts, LifeKeeps, PTL DEF LifeSpec

---------------------------------------------------------------------------------
(***************************************************************************)
(* The address names what the page shows, for any filters, settings and    *)
(* history.                                                                *)
(***************************************************************************)
WebTypeOK ==
  /\ screen \in Addresses /\ filters \in Filters /\ history \in Seq(Addresses)
  /\ move \in Moves \cup {NoPage} /\ adrift \in BOOLEAN

\* A pick is on its way while the page it was made on stays, with the filters the
\* page has.
PickIsShown ==
  move # NoPage /\ move.by = "pick" =>
    screen.name = "containers" /\ move.to.name = "containers" /\ move.to.query = filters

\* The back button leads somewhere until the navigation is done.
LeadsBack == move # NoPage /\ move.by = "back" => history # <<>>

IPages == WebTypeOK /\ PickIsShown /\ LeadsBack /\ AddressIsPage

LEMMA AddressesTyped ==
  /\ NoFilters \in Filters
  /\ \A name \in PageName \cup {NoPage}, next \in PageName \cup {NoPage}, query \in Filters :
       /\ Address(name, query, next) \in Addresses
       /\ Address(name, query, next).name = name /\ Address(name, query, next).query = query
  /\ \A name \in PageName \cup {NoPage} : At(name) \in Addresses /\ At(name).name = name
<1>1. NoFilters \in Filters
  BY DEF NoFilters, Filters
<1> QED BY <1>1 DEF Address, At, Addresses

LEMMA MovesTyped ==
  ASSUME NEW address \in Addresses, NEW by \in {"link", "pick", "back"}
  PROVE  /\ MoveTo(address) \in Moves /\ MoveTo(address).by = "link" /\ MoveTo(address).to = address
         /\ [MoveTo(address) EXCEPT !.by = by] \in Moves
         /\ [MoveTo(address) EXCEPT !.by = by].by = by
         /\ [MoveTo(address) EXCEPT !.by = by].to = address
BY DEF MoveTo, Moves

LEMMA MoveIsPage == \A m \in Moves : m # NoPage
BY NoPageAssumption

LEMMA HistoryGoes ==
  ASSUME NEW h \in Seq(Addresses), NEW a \in Addresses
  PROVE  /\ Append(h, a) \in Seq(Addresses)
         /\ h # <<>> => Front(h) \in Seq(Addresses) /\ Last(h) \in Addresses
BY DEF Front, Last

LEMMA PagesStart == WebInit => IPages
<1> SUFFICES ASSUME WebInit PROVE IPages
  OBVIOUS
<1>1. move = MoveTo(At("containers")) /\ screen = At(NoPage) /\ filters = NoFilters /\ adrift = FALSE
      /\ history = <<>>
  BY DEF WebInit
<1>2. At("containers") \in Addresses /\ At(NoPage) \in Addresses /\ NoFilters \in Filters
  BY AddressesTyped DEF PageName
<1>3. move \in Moves /\ move.by = "link"
  BY <1>1, <1>2, MovesTyped
<1>4. history \in Seq(Addresses) /\ move # NoPage
  BY <1>1, <1>3, MoveIsPage
<1>5. WebTypeOK
  BY <1>1, <1>2, <1>3, <1>4 DEF WebTypeOK
<1> QED BY <1>3, <1>4, <1>5 DEF IPages, PickIsShown, LeadsBack, AddressIsPage

\* A navigation begins by a link or the back button: the page stays as it is.
LEMMA LinkKeeps ==
  ASSUME IPages, NEW m \in Moves, m.by = "link" \/ (m.by = "back" /\ history # <<>>),
         move' = m, UNCHANGED <<screen, filters, history, adrift>>
  PROVE  IPages'
BY MoveIsPage DEF IPages, WebTypeOK, PickIsShown, LeadsBack, AddressIsPage

\* The page is left, for another part of the application or to be loaded anew.
LEMMA FreshKeeps ==
  ASSUME IPages, NEW m \in Moves, m.by = "link", move' = m, screen' = At(NoPage), filters' = NoFilters,
         adrift' = FALSE, UNCHANGED history
  PROVE  IPages'
<1>1. screen' \in Addresses /\ filters' \in Filters
  BY AddressesTyped
<1> QED BY <1>1, MoveIsPage DEF IPages, WebTypeOK, PickIsShown, LeadsBack, AddressIsPage

LEMMA EnterKeeps ==
  ASSUME IPages, move # NoPage, NEW ok \in BOOLEAN, Enter(ok)
  PROVE  IPages'
<1>1. move \in Moves /\ move.to \in Addresses /\ move.to.query \in Filters /\ screen \in Addresses
  BY DEF IPages, WebTypeOK, Moves, Addresses
<1>2. screen' = move.to /\ move' = NoPage
  BY DEF Enter
<1>3. history' \in Seq(Addresses)
  BY <1>1, HistoryGoes DEF Enter, IPages, WebTypeOK, LeadsBack
<1>4. filters' \in Filters
  BY <1>1, AddressesTyped DEF Enter, IPages, WebTypeOK
<1>5. adrift' \in BOOLEAN
  BY DEF Enter
<1>6. AddressIsPage'
  BY <1>1, <1>2 DEF Enter, IPages, PickIsShown, AddressIsPage
<1> QED BY <1>1, <1>2, <1>3, <1>4, <1>5, <1>6 DEF IPages, WebTypeOK, PickIsShown, LeadsBack

LEMMA PagesKeep == IPages /\ [WebNext]_webVars => IPages'
<1> SUFFICES ASSUME IPages, [WebNext]_webVars PROVE IPages'
  OBVIOUS
<1>t. screen \in Addresses /\ filters \in Filters /\ history \in Seq(Addresses)
  BY DEF IPages, WebTypeOK
<1>p. {"home", "containers", "login"} \subseteq PageName
  BY DEF PageName
<1>1. ASSUME NEW name \in {"home", "containers"}, Go(name) PROVE IPages'
  <2>0. At(name) \in Addresses
    BY <1>p, AddressesTyped
  <2>1. PICK m \in Moves : m = MoveTo(At(name)) /\ m.by = "link"
    BY <2>0, MovesTyped, ZenonT(60)
  <2> QED BY <1>1, <2>1, LinkKeeps DEF Go
<1>2. ASSUME NEW f \in Filter, NEW choice \in Setting \cup {Off}, Pick(f, choice) PROVE IPages'
  <2>1. PICK chosen \in Filters : filters' = chosen
    BY <1>2, <1>t DEF Pick, Filters
  <2>2. PICK a \in Addresses : a = Address("containers", chosen, NoPage) /\ a.name = "containers" /\ a.query = chosen
    <3>1. "containers" \in PageName \cup {NoPage} /\ NoPage \in PageName \cup {NoPage}
      BY <1>p
    <3>2. /\ Address("containers", chosen, NoPage) \in Addresses
          /\ Address("containers", chosen, NoPage).name = "containers"
          /\ Address("containers", chosen, NoPage).query = chosen
      BY <3>1, AddressesTyped, ZenonT(60)
    <3> QED BY <3>2
  <2>3. move' = [MoveTo(a) EXCEPT !.by = "pick"]
    BY <1>2, <2>1, <2>2 DEF Pick, Query
  <2>4. move' \in Moves /\ move'.to = a /\ move'.by = "pick"
    BY <2>2, <2>3, MovesTyped
  <2> QED BY <1>2, <1>t, <2>1, <2>2, <2>4, MoveIsPage DEF Pick, IPages, WebTypeOK, PickIsShown, LeadsBack, AddressIsPage
<1>3. CASE Back
  <2>1. PICK a \in Addresses : move' = [MoveTo(a) EXCEPT !.by = "back"]
    BY <1>3, <1>t, HistoryGoes DEF Back
  <2>2. PICK m \in Moves : move' = m /\ m.by = "back"
    BY <2>1, MovesTyped, ZenonT(60)
  <2> QED BY <1>3, <2>2, LinkKeeps DEF Back
<1>4. CASE Load(screen)
  BY <1>4, <1>t, MovesTyped, FreshKeeps, ZenonT(60) DEF Load
<1>5. CASE OfferLogin
  <2>1. move # NoPage
    BY <1>5 DEF OfferLogin
  <2>2. PICK home \in Moves : home = MoveTo(At("home")) /\ home.by = "link"
    BY <1>p, AddressesTyped, MovesTyped, ZenonT(60)
  <2>3. CASE Enter(TRUE)
    BY <2>1, <2>3, EnterKeeps
  <2>4. CASE move' = MoveTo(At("home")) /\ UNCHANGED <<screen, filters, history, adrift>>
    BY <2>2, <2>4, LinkKeeps
  <2>5. CASE move' = MoveTo(At("home")) /\ screen' = At(NoPage) /\ filters' = NoFilters /\ adrift' = FALSE
             /\ UNCHANGED history
    BY <2>2, <2>5, FreshKeeps
  <2> QED BY <1>5, <2>3, <2>4, <2>5 DEF OfferLogin
<1>6. CASE SignIn
  <2>1. PICK name \in PageName \cup {NoPage} : move' = MoveTo(At(name))
    BY <1>6, <1>t, <1>p DEF SignIn, Addresses
  <2>2. MoveTo(At(name)) \in Moves /\ MoveTo(At(name)).by = "link"
    BY AddressesTyped, MovesTyped
  <2> QED BY <1>6, <2>1, <2>2, LinkKeeps DEF SignIn
<1>7. CASE SignOut
  BY <1>7, <1>p, AddressesTyped, MovesTyped, LinkKeeps, ZenonT(60) DEF SignOut
<1>8. ASSUME NEW ok \in BOOLEAN, Guard(ok) PROVE IPages'
  <2>1. move # NoPage /\ move \in Moves
    BY <1>8 DEF Guard, IPages, WebTypeOK
  <2>2. CASE Enter(TRUE)
    BY <2>1, <2>2, EnterKeeps
  <2>3. CASE ~Enter(TRUE)
    <3>1. UNCHANGED <<screen, filters, history, adrift>>
      BY <1>8, <2>3 DEF Guard
    <3>2. CASE move' = MoveTo(Address("login", NoFilters, move.to.name))
      <4>1. Address("login", NoFilters, move.to.name) \in Addresses
        BY <2>1, <1>p, AddressesTyped DEF Moves, Addresses
      <4> QED BY <3>1, <3>2, <4>1, MovesTyped, LinkKeeps, ZenonT(60)
    <3>3. CASE \E s \in {"strategies", "data"} : move' = [move EXCEPT !.waits = s]
      <4>1. move' \in Moves /\ move'.by = move.by /\ move'.to = move.to
        BY <2>1, <3>3 DEF Moves
      <4> QED BY <2>1, <3>1, <4>1, MoveIsPage DEF IPages, WebTypeOK, PickIsShown, LeadsBack, AddressIsPage
    <3> QED BY <1>8, <2>3, <3>2, <3>3 DEF Guard
  <2> QED BY <2>2, <2>3
<1>9. ASSUME NEW ok \in BOOLEAN, Loaded(ok) PROVE IPages'
  BY <1>9, EnterKeeps DEF Loaded
<1>10. CASE UNCHANGED <<screen, filters, history, move, adrift>>
  BY <1>10 DEF IPages, WebTypeOK, PickIsShown, LeadsBack, AddressIsPage
<1> QED BY <1>1, <1>2, <1>3, <1>4, <1>5, <1>6, <1>7, <1>8, <1>9, <1>10 DEF WebNext, UserIs, SessionEnds, webVars

(***************************************************************************)
(* LinksShowPages: for any filters and settings and any number of clicks,  *)
(* the address of the containers page names the filters on screen whenever *)
(* no navigation is under way, however navigations, guards and answers     *)
(* overtake each other (updateQueryParams, parseQueryParams).              *)
(***************************************************************************)
THEOREM LinksShowPages == WebSpec => []AddressIsPage
<1>1. IPages => AddressIsPage
  BY DEF IPages
<1> QED BY <1>1, PagesStart, PagesKeep, PTL DEF WebSpec

---------------------------------------------------------------------------------
(***************************************************************************)
(* What the gate lets in was checked, and a verdict that is stored is that *)
(* of a scan, for any number of pushes, configurations and calls.          *)
(***************************************************************************)
\* What a document holds: scans of a content, and what there is of its SBOM.
Scans == UNION {ScanResults(c) : c \in 1..Contents}
Sboms == [status : {"generated", "error"}, documents : SUBSET SbomFormats]
Docs == [scan : Scans \cup {Nothing}, sbom : Sboms \cup {Nothing}]

GateTypeOK ==
  /\ gateConfig \in GateConfigs /\ tagged \in 1..Contents /\ generation \in 1..(1 + Recreated)
  /\ moved \subseteq 1..Contents
  /\ securityOf \in [1..(1 + Recreated) -> Docs \cup {Nothing}]
  /\ securityStateCache \in Docs \cup {Nothing}
  /\ gated \in [at : {"idle", "verify", "scan", "sbom", "judge", "pull", "replace"},
                scan : Scans \cup {Nothing}, image : 1..Contents \cup {Nothing}]
  /\ api \in [at : {"idle", "scan", "sbom", "write"}, of : 0..(1 + Recreated), read : Docs, patch : Docs]
  /\ gated.at # "idle" => generation <= Recreated /\ securityOf[generation] \in Docs

LEMMA CountIsPositive ==
  ASSUME NEW n \in Nat, NEW S \in SUBSET (1..n)
  PROVE  Cardinality(S) > 0 <=> S # {}
<1>1. IsFiniteSet(1..n)
  BY FS_Interval
<1>2. IsFiniteSet(S)
  BY <1>1, FS_Subset
<1> QED BY <1>2, FS_CardinalityType, FS_EmptySet

LEMMA FoundTyped ==
  ASSUME NEW c \in 1..Contents
  PROVE  /\ \E n \in Nat : DOMAIN Reported[c] = 1..n
         /\ DOMAIN Found(c) = DOMAIN Reported[c]
         /\ \A i \in DOMAIN Reported[c] : /\ Reported[c][i] \in DOMAIN Upcase
                                          /\ Found(c)[i] = Severity(Reported[c][i])
<1>1. Reported[c] \in Seq(DOMAIN Upcase)
  BY GateAssumption
<1> QED BY <1>1 DEF Found

\* The verdict of a scan is about all that was found, whatever is stored of it.
LEMMA ScanTells ==
  ASSUME NEW c \in 1..Contents
  PROVE  /\ ScanResult(c).of = c /\ ScanResult(c).status \in {"passed", "blocked"}
         /\ ScanResult(c).status = "blocked" <=>
              \E i \in DOMAIN Reported[c] : Severity(Reported[c][i]) \in gateConfig.blocking
<1>1. PICK n \in Nat : DOMAIN Reported[c] = 1..n
  BY FoundTyped
<1>2. Blocking(Found(c)) > 0 <=> \E i \in DOMAIN Found(c) : Found(c)[i] \in gateConfig.blocking
  <2> DEFINE S == {i \in DOMAIN Found(c) : Found(c)[i] \in gateConfig.blocking}
  <2>1. S \in SUBSET (1..n)
    BY <1>1, FoundTyped
  <2>2. Cardinality(S) > 0 <=> S # {}
    BY <2>1, CountIsPositive
  <2> QED BY <2>2 DEF Blocking
<1>3. Blocking(Found(c)) > 0 <=> \E i \in DOMAIN Reported[c] : Severity(Reported[c][i]) \in gateConfig.blocking
  BY <1>2, FoundTyped
<1> QED BY <1>3 DEF ScanResult

LEMMA ErrorTells == ASSUME NEW c PROVE ScanError(c).status = "error"
BY DEF ScanError

LEMMA ScansTell == ASSUME NEW scan \in Scans PROVE VerdictTold(scan)
<1>1. PICK c \in 1..Contents : scan \in ScanResults(c)
  BY DEF Scans
<1> QED BY <1>1, ScanTells, ErrorTells DEF ScanResults, VerdictTold

\* The counts of a classification add up to what was classified: to each unit of
\* a count belongs one of the things counted.
LEMMA CountsAddUp ==
  ASSUME NEW n \in Nat, NEW f \in [1..n -> Severities]
  PROVE  Total([s \in Severities |-> Cardinality({i \in 1..n : f[i] = s})]) = n
<1> DEFINE Having(s) == {i \in 1..n : f[i] = s}
           size == [s \in Severities |-> Cardinality(Having(s))]
           units == UNION {{s} \X (1..size[s]) : s \in Severities}
           b == [s \in Severities |-> CHOOSE g : g \in Bijection(1..Cardinality(Having(s)), Having(s))]
           g == [u \in units |-> b[u[1]][u[2]]]
<1>1. IsFiniteSet(1..n)
  BY FS_Interval
<1>2. ASSUME NEW s \in Severities PROVE b[s] \in Bijection(1..Cardinality(Having(s)), Having(s))
  <2>1. IsFiniteSet(Having(s))
    BY <1>1, FS_Subset, Having(s) \in SUBSET (1..n), Zenon
  <2> HIDE DEF At
  <2>2. \E h : h \in Bijection(1..Cardinality(Having(s)), Having(s))
    BY <2>1, FS_CardinalityType DEF ExistsBijection
  <2> QED BY <2>2, Zenon
<1> HIDE DEF b
<1>3. ASSUME NEW s \in Severities
      PROVE  /\ \A k \in 1..size[s] : b[s][k] \in Having(s)
             /\ \A j, k \in 1..size[s] : b[s][j] = b[s][k] => j = k
             /\ \A i \in Having(s) : \E k \in 1..size[s] : b[s][k] = i
  <2> HIDE DEF At
  <2>1. b[s] \in Bijection(1..size[s], Having(s))
    BY <1>2
  <2>2. b[s] \in [1..size[s] -> Having(s)] /\ IsInjective(b[s]) /\ \A i \in Having(s) : \E k \in 1..size[s] : b[s][k] = i
    BY <2>1, Zenon DEF Bijection, Injection, Surjection
  <2>3. DOMAIN b[s] = 1..size[s]
    BY <2>2
  <2> QED BY <2>2, <2>3 DEF IsInjective
<1>4. \A u \in units : u = <<u[1], u[2]>> /\ u[1] \in Severities /\ u[2] \in 1..size[u[1]]
  <2> HIDE DEF size
  <2> QED OBVIOUS
<1>5. \A s \in Severities : \A k \in 1..size[s] : <<s, k>> \in units
  <2> HIDE DEF size
  <2> QED OBVIOUS
<1> HIDE DEF units, size
<1>6. \A u \in units : g[u] \in 1..n /\ f[g[u]] = u[1]
  BY <1>3, <1>4
<1>7. \A u, v \in units : g[u] = g[v] => u = v
  <2> SUFFICES ASSUME NEW u \in units, NEW v \in units, g[u] = g[v] PROVE u = v
    OBVIOUS
  <2>1. u[1] = v[1]
    BY <1>6
  <2>2. b[u[1]][u[2]] = b[u[1]][v[2]]
    BY <2>1
  <2>3. u[2] = v[2]
    BY <1>3, <1>4, <2>1, <2>2
  <2> QED BY <1>4, <2>1, <2>3, Zenon
<1>8. \A i \in 1..n : \E u \in units : g[u] = i
  <2> SUFFICES ASSUME NEW i \in 1..n PROVE \E u \in units : g[u] = i
    OBVIOUS
  <2>1. f[i] \in Severities /\ i \in Having(f[i])
    OBVIOUS
  <2>2. PICK k \in 1..size[f[i]] : b[f[i]][k] = i
    BY <1>3, <2>1
  <2>3. <<f[i], k>> \in units /\ g[<<f[i], k>>] = i
    BY <1>5, <2>1, <2>2
  <2> QED BY <2>3
<1>9. g \in Bijection(units, 1..n)
  <2>1. g \in [units -> 1..n]
    BY <1>6
  <2> HIDE DEF g
  <2> QED BY <1>7, <1>8, <2>1 DEF Bijection, Injection, Surjection, IsInjective
<1>10. ExistsBijection(1..n, units)
  <2>1. ExistsBijection(units, 1..n)
    BY <1>9 DEF ExistsBijection
  <2> QED BY <2>1, Fun_ExistsBijSymmetric
<1>11. Cardinality(units) = n
  BY <1>10, FS_CountingElements
<1> QED BY <1>11 DEF Total, units, size

\* The summary of a scan counts all that was found.
LEMMA ScansCount == ASSUME NEW scan \in Scans PROVE AllCounted(scan)
<1>1. PICK c \in 1..Contents : scan \in ScanResults(c)
  BY DEF Scans
<1>2. CASE scan = ScanError(c)
  BY <1>2, ErrorTells DEF AllCounted
<1>3. CASE scan = ScanResult(c)
  <2>1. PICK n \in Nat : DOMAIN Reported[c] = 1..n
    BY FoundTyped
  <2>2. Len(Reported[c]) = n
    BY <2>1, GateAssumption
  <2>3. Found(c) \in [1..n -> Severities]
    BY <2>1, GateAssumption DEF Found, Severity
  <2>4. Summary(Found(c)) = [s \in Severities |-> Cardinality({i \in 1..n : Found(c)[i] = s})]
    BY <2>3 DEF Summary
  <2>5. Total(Summary(Found(c))) = n
    BY <2>3, <2>4, CountsAddUp
  <2>6. scan.of = c /\ scan.summary = Summary(Found(c))
    BY <1>3 DEF ScanResult
  <2> QED BY <2>2, <2>5, <2>6 DEF AllCounted
<1> QED BY <1>1, <1>2, <1>3 DEF ScanResults

LEMMA ResultsTyped == ASSUME NEW c \in 1..Contents PROVE ScanResults(c) \subseteq Scans
BY DEF Scans

\* A passed scan found nothing to block, also among the severities that Trivy
\* alone knows, which count as unknown.
LEMMA PassedIsHarmless ==
  ASSUME NEW c \in 1..Contents, gateConfig \in GateConfigs, NEW scan \in ScanResults(c), scan.status = "passed",
         gateConfig.verify => c \in Signed
  PROVE  ~Harmful(c)
<1>1. scan = ScanResult(c)
  BY ErrorTells DEF ScanResults
<1>2. \A i \in DOMAIN Reported[c] : Severity(Reported[c][i]) \notin gateConfig.blocking
  BY <1>1, ScanTells
<1>3. gateConfig.blocking \subseteq Severities
  BY GateAssumption
<1> QED BY <1>2, <1>3 DEF Harmful, Severity

LEMMA SbomsTyped ==
  /\ \A asked, sbom : sbom \in SbomResults(asked) => sbom \in Sboms
  /\ \A sbom \in Sboms, security \in Docs : WithDocuments(sbom, security) \in Sboms
<1>1. ASSUME NEW asked, NEW sbom \in SbomResults(asked) PROVE sbom \in Sboms
  <2>1. PICK made \in SUBSET ResolvedFormats(asked) : sbom = Sbom(made)
    BY DEF SbomResults
  <2>2. made \in SUBSET SbomFormats
    BY <2>1, GateAssumption DEF ResolvedFormats
  <2> QED BY <2>1, <2>2 DEF Sbom, Sboms
<1>2. ASSUME NEW sbom \in Sboms, NEW security \in Docs PROVE WithDocuments(sbom, security) \in Sboms
  <2>1. CASE security.sbom = Nothing
    BY <2>1 DEF WithDocuments
  <2>2. CASE security.sbom # Nothing
    <3>1. security.sbom \in Sboms
      BY <2>2 DEF Docs
    <3>2. sbom.documents \cup security.sbom.documents \in SUBSET SbomFormats
      BY <3>1 DEF Sboms
    <3> QED BY <2>2, <3>2 DEF WithDocuments, Sboms
  <2> QED BY <2>1, <2>2
<1> QED BY <1>1, <1>2

LEMMA DocsTyped ==
  /\ NoSecurity \in Docs
  /\ \A scan \in Scans : Only("scan", scan) \in Docs
  /\ \A sbom \in Sboms : Only("sbom", sbom) \in Docs
  /\ \A read, patch \in Docs : Patched(read, patch) \in Docs
<1>1. NoSecurity \in Docs
  BY DEF NoSecurity, Docs
<1>2. ASSUME NEW scan \in Scans PROVE Only("scan", scan) \in Docs
  BY DEF Only, NoSecurity, Docs
<1>3. ASSUME NEW sbom \in Sboms PROVE Only("sbom", sbom) \in Docs
  BY DEF Only, NoSecurity, Docs
<1>4. ASSUME NEW read \in Docs, NEW patch \in Docs PROVE Patched(read, patch) \in Docs
  <2>1. DOMAIN read = {"scan", "sbom"} /\ read["scan"] \in Scans \cup {Nothing} /\ read["sbom"] \in Sboms \cup {Nothing}
    BY DEF Docs
  <2>2. patch["scan"] \in Scans \cup {Nothing} /\ patch["sbom"] \in Sboms \cup {Nothing}
    BY DEF Docs
  <2>3. Patched(read, patch) = [scan |-> IF patch["scan"] = Nothing THEN read["scan"] ELSE patch["scan"],
                                sbom |-> IF patch["sbom"] = Nothing THEN read["sbom"] ELSE patch["sbom"]]
    BY <2>1 DEF Patched
  <2> QED BY <2>1, <2>2, <2>3 DEF Docs
<1> QED BY <1>1, <1>2, <1>3, <1>4

\* What is persisted during an update is a document, and changes no other.
LEMMA PersistKeeps ==
  ASSUME GateTypeOK, gated.at # "idle", NEW patch \in Docs, Persist(patch)
  PROVE  /\ securityOf' \in [1..(1 + Recreated) -> Docs \cup {Nothing}]
         /\ securityOf'[generation] \in Docs /\ securityStateCache' \in Docs \cup {Nothing}
<1>1. Patched(securityOf[generation], patch) \in Docs
  BY DocsTyped DEF GateTypeOK
<1>2. securityOf' = [securityOf EXCEPT ![generation] = Patched(securityOf[generation], patch)]
      /\ securityStateCache' = securityOf'[generation]
  BY DEF Persist
<1> QED BY <1>1, <1>2 DEF GateTypeOK

\* While the tag was not pushed, what the update has checked is what the tag names.
Past(stages) == gateConfig.enabled /\ gated.at \in stages
PushedIsMoved == moved # {} => tagged \in moved
SignatureChecked ==
  Past({"scan", "sbom", "judge", "pull"}) /\ gateConfig.verify /\ moved = {} => tagged \in Signed
ScanIsOfTagged ==
  /\ Past({"sbom", "judge", "pull"}) /\ moved = {} => gated.scan \in ScanResults(tagged)
  /\ Past({"pull"}) => gated.scan.status = "passed"

IGate == GateTypeOK /\ PushedIsMoved /\ SignatureChecked /\ ScanIsOfTagged /\ LetsInOnlyChecked

LEMMA GateStarts == GateInit => IGate
<1> SUFFICES ASSUME GateInit PROVE IGate
  OBVIOUS
<1>1. gated = [at |-> "idle", scan |-> Nothing, image |-> Nothing]
      /\ api = [at |-> "idle", of |-> 0, read |-> NoSecurity, patch |-> NoSecurity]
  BY DEF GateInit, IdleUpdate, IdleApi
<1>2. GateTypeOK
  BY <1>1, DocsTyped, GateAssumption DEF GateInit, GateTypeOK
<1> QED BY <1>1, <1>2 DEF GateInit, IGate, PushedIsMoved, SignatureChecked, ScanIsOfTagged, LetsInOnlyChecked, Past

LEMMA ResultsStay ==
  UNCHANGED gateConfig => /\ Scans' = Scans /\ Docs' = Docs
                          /\ \A c : ScanResults(c)' = ScanResults(c) /\ Harmful(c)' = Harmful(c)
BY DEF Scans, Docs, ScanResults, ScanResult, ScanError, Blocking, Harmful

\* What a record of the update or of a call is after a change of some fields.
LEMMA IdleUpdateTyped ==
  /\ IdleUpdate \in [at : {"idle"}, scan : {Nothing}, image : {Nothing}]
  /\ IdleUpdate.at = "idle"
BY DEF IdleUpdate

Checking == {"verify", "scan", "sbom", "judge", "pull"}

\* An update moves on to a stage, with a document if it persists one.
LEMMA CheckKeeps ==
  ASSUME IGate, gated.at \in Checking, NEW at, GateStep(at),
         \/ UNCHANGED theStore
         \/ \E patch \in Docs : Persist(patch),
         gated' \in [at : {"idle"} \cup Checking \cup {"replace"}, scan : Scans \cup {Nothing},
                     image : 1..Contents \cup {Nothing}],
         SignatureChecked', ScanIsOfTagged', LetsInOnlyChecked'
  PROVE  IGate'
<1>1. gated.at # "idle" /\ GateTypeOK /\ UNCHANGED <<gateConfig, tagged, running, generation, api, calls, moved>>
  BY DEF GateStep, theWorld, theApi, Checking, IGate
<1>2. /\ securityOf' \in [1..(1 + Recreated) -> Docs \cup {Nothing}]
      /\ securityOf'[generation] \in Docs /\ securityStateCache' \in Docs \cup {Nothing}
  BY <1>1, PersistKeeps DEF theStore, GateTypeOK
<1>3. GateTypeOK'
  BY <1>1, <1>2, ResultsStay DEF GateTypeOK, Checking
<1>4. PushedIsMoved'
  BY <1>1 DEF IGate, PushedIsMoved
<1> QED BY <1>3, <1>4 DEF IGate

LEMMA UpdateKeeps ==
  ASSUME IGate, VerifyCandidate \/ ScanCandidate \/ SbomOfCandidate \/ Judge \/ PullCandidate
  PROVE  IGate'
<1>a. GateTypeOK /\ UNCHANGED <<gateConfig, tagged, generation, moved>>
  BY DEF IGate, VerifyCandidate, ScanCandidate, SbomOfCandidate, Judge, PullCandidate, GateStep, theWorld
<1>b. /\ gated \in [at : {"idle", "replace"} \cup Checking, scan : Scans \cup {Nothing}, image : 1..Contents \cup {Nothing}]
      /\ IdleUpdate \in [at : {"idle", "replace"} \cup Checking, scan : Scans \cup {Nothing}, image : 1..Contents \cup {Nothing}]
  BY <1>a, IdleUpdateTyped DEF GateTypeOK, Checking
<1>c. \A c : ScanResults(c)' = ScanResults(c) /\ Harmful(c)' = Harmful(c)
  BY <1>a, ResultsStay
<1>1. CASE VerifyCandidate
  <2>1. GateStep("verify") /\ Persist(NoSecurity) /\ gated.at = "verify"
    BY <1>1 DEF VerifyCandidate, GateStep
  <2>2. \/ gated' = [gated EXCEPT !.at = "scan"] /\ tagged \in Signed
        \/ gated' = IdleUpdate
    BY <1>1 DEF VerifyCandidate, CosignAnswers, Verdict
  <2>3. gated' \in [at : {"idle", "replace"} \cup Checking, scan : Scans \cup {Nothing}, image : 1..Contents \cup {Nothing}]
        /\ (gated'.at = "idle" \/ (gated'.at = "scan" /\ tagged \in Signed))
    BY <1>b, <2>2, IdleUpdateTyped DEF Checking
  <2>4. SignatureChecked' /\ ScanIsOfTagged' /\ LetsInOnlyChecked'
    BY <1>a, <2>3 DEF SignatureChecked, ScanIsOfTagged, LetsInOnlyChecked, Past
  <2> QED BY <2>1, <2>3, <2>4, DocsTyped, CheckKeeps DEF Checking
<1>2. CASE ScanCandidate
  <2>1. PICK result \in ScanResults(tagged) :
          /\ Persist(Only("scan", result))
          /\ gated' = [gated EXCEPT !.scan = result, !.at = IF gateConfig.sbom THEN "sbom" ELSE "judge"]
    BY <1>2 DEF ScanCandidate
  <2>2. result \in Scans /\ Only("scan", result) \in Docs
    BY <1>a, <2>1, ResultsTyped, DocsTyped DEF GateTypeOK
  <2>3. GateStep("scan") /\ gated.at = "scan"
    BY <1>2 DEF ScanCandidate, GateStep
  <2>4. gated' \in [at : {"idle", "replace"} \cup Checking, scan : Scans \cup {Nothing}, image : 1..Contents \cup {Nothing}]
        /\ gated'.at \in {"sbom", "judge"} /\ gated'.scan = result
    BY <1>b, <2>1, <2>2 DEF Checking
  <2>5. SignatureChecked' /\ LetsInOnlyChecked'
    BY <1>a, <2>3, <2>4 DEF IGate, SignatureChecked, LetsInOnlyChecked, Past
  <2>6. ScanIsOfTagged'
    BY <1>a, <1>c, <2>1, <2>4 DEF ScanIsOfTagged, Past
  <2> QED BY <2>1, <2>2, <2>3, <2>4, <2>5, <2>6, CheckKeeps DEF Checking
<1>3. CASE SbomOfCandidate
  <2>1. GateStep("sbom") /\ gated.at = "sbom" /\ gated' = [gated EXCEPT !.at = "judge"]
    BY <1>3 DEF SbomOfCandidate, GateStep
  <2>2. \E patch \in Docs : Persist(patch)
    BY <1>3, SbomsTyped, DocsTyped DEF SbomOfCandidate
  <2>3. gated' \in [at : {"idle", "replace"} \cup Checking, scan : Scans \cup {Nothing}, image : 1..Contents \cup {Nothing}]
        /\ gated'.at = "judge" /\ gated'.scan = gated.scan
    BY <1>b, <2>1 DEF Checking
  <2>4. SignatureChecked' /\ LetsInOnlyChecked'
    BY <1>a, <2>1, <2>3 DEF IGate, SignatureChecked, LetsInOnlyChecked, Past
  <2>5. ScanIsOfTagged'
    BY <1>a, <1>c, <2>1, <2>3 DEF IGate, ScanIsOfTagged, Past
  <2> QED BY <2>1, <2>2, <2>3, <2>4, <2>5, CheckKeeps DEF Checking
<1>4. CASE Judge
  <2>1. GateStep("judge") /\ gated.at = "judge" /\ UNCHANGED theStore
        /\ gated' = IF gated.scan.status = "passed" THEN [gated EXCEPT !.at = "pull"] ELSE IdleUpdate
    BY <1>4 DEF Judge, GateStep
  <2>2. gated' \in [at : {"idle", "replace"} \cup Checking, scan : Scans \cup {Nothing}, image : 1..Contents \cup {Nothing}]
        /\ (gated'.at = "idle" \/ (gated'.at = "pull" /\ gated'.scan = gated.scan /\ gated.scan.status = "passed"))
    BY <1>b, <2>1, IdleUpdateTyped DEF Checking
  <2>3. SignatureChecked' /\ LetsInOnlyChecked'
    BY <1>a, <2>1, <2>2 DEF IGate, SignatureChecked, LetsInOnlyChecked, Past
  <2>4. ScanIsOfTagged'
    BY <1>a, <1>c, <2>1, <2>2 DEF IGate, ScanIsOfTagged, Past
  <2> QED BY <2>1, <2>2, <2>3, <2>4, CheckKeeps DEF Checking
<1>5. CASE PullCandidate
  <2>1. GateStep("pull") /\ gated.at = "pull" /\ UNCHANGED theStore
        /\ gated' = [gated EXCEPT !.at = "replace", !.image = tagged]
    BY <1>5 DEF PullCandidate, GateStep
  <2>2. gated' \in [at : {"idle", "replace"} \cup Checking, scan : Scans \cup {Nothing}, image : 1..Contents \cup {Nothing}]
        /\ gated'.at = "replace" /\ gated'.image = tagged
    BY <1>a, <1>b, <2>1 DEF Checking, GateTypeOK
  <2>3. SignatureChecked' /\ ScanIsOfTagged'
    BY <2>2 DEF SignatureChecked, ScanIsOfTagged, Past
  <2>4. LetsInOnlyChecked'
    <3> SUFFICES ASSUME gateConfig.enabled, tagged \notin moved PROVE ~Harmful(tagged)
      <4>1. PICK c : c = tagged
        OBVIOUS
      <4> QED BY <1>a, <1>c, <2>2, <4>1 DEF LetsInOnlyChecked
    <3>1. moved = {} /\ Past({"sbom", "judge", "pull"}) /\ Past({"pull"})
      BY <2>1 DEF IGate, PushedIsMoved, Past
    <3>2. gated.scan \in ScanResults(tagged) /\ gated.scan.status = "passed"
      BY <3>1 DEF IGate, ScanIsOfTagged
    <3>3. gateConfig.verify => tagged \in Signed
      BY <3>1 DEF IGate, SignatureChecked, Past
    <3> QED BY <1>a, <3>2, <3>3, PassedIsHarmless DEF GateTypeOK
  <2> QED BY <2>1, <2>2, <2>3, <2>4, CheckKeeps DEF Checking
<1> QED BY <1>1, <1>2, <1>3, <1>4, <1>5

LEMMA GateKeeps == IGate /\ [GateNext]_gateVars => IGate'
<1> SUFFICES ASSUME IGate, [GateNext]_gateVars PROVE IGate'
  OBVIOUS
<1>a. GateTypeOK /\ PushedIsMoved /\ SignatureChecked /\ ScanIsOfTagged /\ LetsInOnlyChecked
  BY DEF IGate
<1>c. UNCHANGED gateConfig =>
        Scans' = Scans /\ Docs' = Docs /\ \A c : ScanResults(c)' = ScanResults(c) /\ Harmful(c)' = Harmful(c)
  BY ResultsStay
<1>n. Contents \in Nat /\ Recreated \in Nat
  BY GateAssumption
\* An action that leaves the update, the tag and what was pushed alone.
<1>u. ASSUME UNCHANGED <<gateConfig, tagged, gated, moved>>, GateTypeOK' PROVE IGate'
  BY <1>a, <1>c, <1>u DEF IGate, PushedIsMoved, SignatureChecked, ScanIsOfTagged, LetsInOnlyChecked, Past, Harmful
<1>1. CASE PushTagged
  <2>1. tagged' = tagged + 1 /\ tagged < Contents /\ moved' = moved \cup {tagged'}
        /\ UNCHANGED <<gateConfig, running, generation, securityOf, securityStateCache, gated, api, calls>>
    BY <1>1 DEF PushTagged, theStore, theApi
  <2>a. tagged' \in 1..Contents /\ moved' \subseteq 1..Contents
    BY <1>a, <1>n, <2>1 DEF GateTypeOK
  <2>2. GateTypeOK'
    BY <1>a, <1>c, <2>1, <2>a DEF GateTypeOK
  <2>3. moved \subseteq moved' /\ moved' # {} /\ tagged' \in moved'
    BY <2>1
  <2>4. LetsInOnlyChecked'
    BY <1>a, <2>1, <2>3 DEF LetsInOnlyChecked, Harmful
  <2>5. ScanIsOfTagged'
    BY <1>a, <2>1, <2>3 DEF ScanIsOfTagged, Past
  <2> QED BY <2>2, <2>3, <2>4, <2>5 DEF IGate, PushedIsMoved, SignatureChecked
<1>2. CASE StartGate
  <2>1. /\ gated.at = "idle" /\ generation <= Recreated /\ securityOf[generation] # Nothing /\ moved' = {}
        /\ UNCHANGED <<gateConfig, tagged, running, generation, securityOf, securityStateCache, api, calls>>
    BY <1>2 DEF StartGate, theWorld, theStore, theApi
  <2>2. PICK at \in {"pull", "verify", "scan"} :
          /\ gated' = [IdleUpdate EXCEPT !.at = at]
          /\ at = IF ~gateConfig.enabled THEN "pull" ELSE IF gateConfig.verify THEN "verify" ELSE "scan"
    BY <1>2 DEF StartGate
  <2>3. gated' = [at |-> at, scan |-> Nothing, image |-> Nothing]
    BY <2>2 DEF IdleUpdate
  <2>4. GateTypeOK'
    BY <1>a, <1>c, <2>1, <2>3 DEF GateTypeOK
  <2>5. gated'.at = at /\ (at = "scan" => ~gateConfig.verify) /\ (at = "pull" => ~gateConfig.enabled)
    BY <2>2, <2>3
  <2> QED BY <2>1, <2>4, <2>5 DEF IGate, PushedIsMoved, SignatureChecked, ScanIsOfTagged, LetsInOnlyChecked, Past
<1>3. CASE VerifyCandidate \/ ScanCandidate \/ SbomOfCandidate \/ Judge \/ PullCandidate
  BY <1>3, UpdateKeeps
<1>4. CASE ReplaceRunning
  <2>1. /\ gated.at = "replace" /\ gated' = IdleUpdate /\ generation' = generation + 1
        /\ UNCHANGED <<gateConfig, tagged, securityOf, securityStateCache, api, calls, moved>>
    BY <1>4 DEF ReplaceRunning, theStore, theApi
  <2>2. gated'.at = "idle" /\ gated' = [at |-> "idle", scan |-> Nothing, image |-> Nothing]
    BY <2>1 DEF IdleUpdate
  <2>a. generation' \in 1..(1 + Recreated)
    BY <1>a, <1>n, <2>1 DEF GateTypeOK
  <2>3. GateTypeOK'
    BY <1>a, <1>c, <2>1, <2>2, <2>a DEF GateTypeOK
  <2> QED BY <1>a, <2>1, <2>2, <2>3 DEF IGate, PushedIsMoved, SignatureChecked, ScanIsOfTagged, LetsInOnlyChecked, Past
<1>5. CASE WatchGate
  <2>1. /\ securityOf[generation] = Nothing
        /\ securityOf' = [g \in DOMAIN securityOf |->
             IF g # generation THEN Nothing
             ELSE IF securityStateCache = Nothing THEN NoSecurity ELSE securityStateCache]
        /\ securityStateCache' = Nothing
        /\ UNCHANGED <<gateConfig, tagged, running, generation, gated, api, calls, moved>>
    BY <1>5 DEF WatchGate, theWorld, theApi
  <2>2. (IF securityStateCache = Nothing THEN NoSecurity ELSE securityStateCache) \in Docs
    BY <1>a, DocsTyped DEF GateTypeOK
  <2>3. securityOf' \in [1..(1 + Recreated) -> Docs \cup {Nothing}] /\ securityOf'[generation] \in Docs
    BY <1>a, <2>1, <2>2 DEF GateTypeOK
  <2>4. GateTypeOK'
    BY <1>a, <1>c, <2>1, <2>3 DEF GateTypeOK
  <2> QED BY <1>u, <2>1, <2>4
<1>6. ASSUME NEW begun \in {CallOf("scan", NoSecurity)} \cup
                           {CallOf("write", Only("sbom", sbom)) : sbom \in Sboms}, Ask(begun)
      PROVE  IGate'
  <2>1. /\ securityOf[generation] # Nothing /\ api' = begun
        /\ UNCHANGED <<gateConfig, tagged, running, generation, securityOf, securityStateCache, gated, moved>>
    BY <1>6 DEF Ask, theWorld, theStore
  <2>2. securityOf[generation] \in Docs /\ generation \in 0..(1 + Recreated)
    BY <1>a, <2>1 DEF GateTypeOK
  <2>3. begun \in [at : {"idle", "scan", "sbom", "write"}, of : 0..(1 + Recreated), read : Docs, patch : Docs]
    BY <2>2, DocsTyped DEF CallOf
  <2>4. GateTypeOK'
    BY <1>a, <1>c, <2>1, <2>3 DEF GateTypeOK
  <2> QED BY <1>u, <2>1, <2>4
<1>7. CASE DemandStep
  <2>1. UNCHANGED <<gateConfig, tagged, running, generation, securityOf, securityStateCache, gated, calls, moved>>
    BY <1>7, ZenonT(60) DEF DemandStep, theWorld, theStore
  <2>2. PICK p \in Docs, at \in {"sbom", "write"} : api' = [api EXCEPT !.patch = p, !.at = at]
    <3>1. ASSUME NEW result \in ScanResults(tagged) PROVE [api.patch EXCEPT !.scan = result] \in Docs
      BY <1>a, ResultsTyped DEF GateTypeOK, Docs
    <3>2. ASSUME NEW sbom \in SbomResults(gateConfig.formats) PROVE [api.patch EXCEPT !.sbom = sbom] \in Docs
      BY <1>a, SbomsTyped DEF GateTypeOK, Docs
    <3> QED BY <1>7, <3>1, <3>2 DEF DemandStep
  <2>3. GateTypeOK'
    BY <1>a, <1>c, <2>1, <2>2 DEF GateTypeOK
  <2> QED BY <1>u, <2>1, <2>3
<1>8. CASE WriteApi
  <2>1. /\ securityOf' = [securityOf EXCEPT ![api.of] = Patched(api.read, api.patch)] /\ api' = IdleApi
        /\ UNCHANGED <<gateConfig, tagged, running, generation, securityStateCache, gated, calls, moved>>
    BY <1>8 DEF WriteApi, theWorld
  <2>2. Patched(api.read, api.patch) \in Docs
    BY <1>a, DocsTyped DEF GateTypeOK
  <2>3. api' \in [at : {"idle", "scan", "sbom", "write"}, of : 0..(1 + Recreated), read : Docs, patch : Docs]
    BY <2>1, DocsTyped, GateAssumption DEF IdleApi
  <2>4. securityOf' \in [1..(1 + Recreated) -> Docs \cup {Nothing}]
        /\ (securityOf[generation] \in Docs => securityOf'[generation] \in Docs)
    BY <1>a, <2>1, <2>2 DEF GateTypeOK
  <2>5. GateTypeOK'
    BY <1>a, <1>c, <2>1, <2>3, <2>4 DEF GateTypeOK
  <2> QED BY <1>u, <2>1, <2>5
<1>9. ASSUME NEW f \in SbomFormats, AskSbom(f) PROVE IGate'
  <2>1. securityOf[generation] \in Docs
    BY <1>9, <1>a DEF AskSbom, GateTypeOK
  <2>2. PICK sbom \in SbomResults({f}) :
          Ask(CallOf("write", Only("sbom", WithDocuments(sbom, securityOf[generation]))))
    BY <1>9 DEF AskSbom
  <2>3. WithDocuments(sbom, securityOf[generation]) \in Sboms
    BY <2>1, <2>2, SbomsTyped
  <2> QED BY <1>6, <2>2, <2>3
<1>10. CASE UNCHANGED gateVars
  <2>1. UNCHANGED <<gateConfig, tagged, running, generation, securityOf, securityStateCache, gated, api, calls, moved>>
    BY <1>10 DEF gateVars
  <2>2. GateTypeOK'
    BY <1>a, <1>c, <2>1 DEF GateTypeOK
  <2> QED BY <1>u, <2>1, <2>2
<1> QED BY <1>1, <1>2, <1>3, <1>4, <1>5, <1>6, <1>7, <1>8, <1>9, <1>10 DEF GateNext, DemandScan

(***************************************************************************)
(* GateLetsIn: whatever is pushed, scanned and overwritten meanwhile, for  *)
(* any number of pushes, calls and recreated containers, the image by      *)
(* which an update replaces the container under an enabled gate has no     *)
(* vulnerability of a blocking severity and the signature the              *)
(* configuration asks for, unless the tag moved while it was checked       *)
(* (maybeScanAndGateUpdate). It is the first part of GateHolds.            *)
(***************************************************************************)
THEOREM GateLetsIn == GateSpec => []LetsInOnlyChecked
<1>1. IGate => LetsInOnlyChecked
  BY DEF IGate
<1> QED BY <1>1, GateStarts, GateKeeps, PTL DEF GateSpec

(***************************************************************************)
(* ScansStand: every scan a document of the store holds blocks exactly     *)
(* when Trivy reported a blocking severity for the image it is of,         *)
(* whichever update or call wrote it last (scanImageForVulnerabilities,    *)
(* persistSecurityState). It is the second part of GateHolds.              *)
(***************************************************************************)
THEOREM ScansStand == GateSpec => []VerdictsStand
<1>1. IGate => VerdictsStand
  BY ScansTell DEF IGate, GateTypeOK, VerdictsStand, Documented, Docs
<1> QED BY <1>1, GateStarts, GateKeeps, PTL DEF GateSpec

(***************************************************************************)
(* GateStands: all of GateHolds, for any severities, reports and pushes.   *)
(* Besides, the summary of every scan in the store counts all that Trivy   *)
(* reported, however little of it is stored (buildSummary).                *)
(***************************************************************************)
THEOREM GateStands == GateSpec => []GateHolds
<1>1. IGate => \A g \in Documented : AllCounted(securityOf[g].scan)
  BY ScansCount DEF IGate, GateTypeOK, Documented, Docs
<1>2. GateSpec => [](\A g \in Documented : AllCounted(securityOf[g].scan))
  BY <1>1, GateStarts, GateKeeps, PTL DEF GateSpec
<1>3. LetsInOnlyChecked /\ VerdictsStand /\ (\A g \in Documented : AllCounted(securityOf[g].scan)) => GateHolds
  BY DEF GateHolds
<1> QED BY <1>2, <1>3, GateLetsIn, ScansStand, PTL

---------------------------------------------------------------------------------
(***************************************************************************)
(* A write of the database, or of the sessions, loses only what the other of *)
(* the two connections wrote, for any number of starts, releases and       *)
(* entries.                                                                *)
(***************************************************************************)
FileTypeOK ==
  /\ file \in Db \cup {NoFile} /\ legacy \in {NoFile, LegacyDb}
  /\ db \in Db /\ sessions \in Db /\ release \in Nat

\* The entries and the sessions a file or a database has.
EntriesOf(d) == IF d = NoFile THEN {} ELSE {e.id : e \in ToSet(d.audit)}
SessionsOf(d) == IF d = NoFile THEN {} ELSE SessionsIn(d)

\* The store has every entry of the file, the session store every session; the
\* file was read by both.
StoreIsAhead ==
  /\ processIs # "down" => EntriesOf(file) \subseteq EntriesOf(db)
  /\ processIs = "api" => EntriesOf(sessions) \subseteq EntriesOf(db)
SessionsAreAhead ==
  /\ processIs = "store" => SessionsOf(db) \subseteq SessionsOf(file)
  /\ processIs = "api" => /\ SessionsOf(file) \subseteq SessionsOf(sessions)
                          /\ SessionsOf(db) \subseteq SessionsOf(sessions)
                          /\ sessions.sessions # NoFile

IFile == FileTypeOK /\ StoreIsAhead /\ SessionsAreAhead /\ LosesOnlyTheOthers

LEMMA DbsTyped == NoDb \in Db /\ LegacyDb \in Db
<1>1. <<>> \in Seq(Entry)
  OBVIOUS
<1>a. NoFile \in Nat \cup {NoFile} /\ NoFile \in (SUBSET Sid) \cup {NoFile}
  BY Zenon
<1>2. NoDb \in Db
  BY <1>1, <1>a, Zenon DEF NoDb, Db
<1>3. LegacyDb \in Db
  BY <1>1 DEF LegacyDb, Db
<1> QED BY <1>2, <1>3

LEMMA DbFields ==
  ASSUME NEW d \in Db
  PROVE  /\ d.audit \in Seq(Entry) /\ d.sessions \in (SUBSET Sid) \cup {NoFile}
         /\ SessionsIn(d) \in SUBSET Sid
<1>1. d.audit \in Seq(Entry) /\ d.sessions \in (SUBSET Sid) \cup {NoFile}
  BY DEF Db
<1>2. {} \in SUBSET Sid
  OBVIOUS
<1>3. SessionsIn(d) \in SUBSET Sid
  BY <1>1, <1>2, Zenon DEF SessionsIn
<1> QED BY <1>1, <1>3

LEMMA DbIsNoFile == \A d \in Db : d # NoFile
BY FileAssumption

\* A write loses only what the new file does not have.
LEMMA WriteLoses ==
  ASSUME IFile, NEW d \in Db \cup {NoFile}, NEW by, WriteFile(d, by),
         EntriesOf(file) \subseteq EntriesOf(d) \/ by = "sessions",
         SessionsOf(file) \subseteq SessionsOf(d) \/ by = "store",
         (EntriesOf(file) \subseteq EntriesOf(d) /\ SessionsOf(file) \subseteq SessionsOf(d)) \/ by \in {"store", "sessions"}
  PROVE  LosesOnlyTheOthers'
<1>1. \A k \in KeptIn(file) \ KeptIn(d) : by = IF k.session THEN "store" ELSE "sessions"
  <2> SUFFICES ASSUME NEW k \in KeptIn(file), k \notin KeptIn(d) PROVE by = IF k.session THEN "store" ELSE "sessions"
    OBVIOUS
  <2>1. file # NoFile
    BY DEF KeptIn
  <2>2. CASE \E e \in ToSet(file.audit) : k = [session |-> FALSE, id |-> e.id]
    <3>1. k.session = FALSE /\ k.id \in EntriesOf(file)
      BY <2>1, <2>2 DEF EntriesOf
    <3>2. k.id \notin EntriesOf(d)
      BY <2>2 DEF EntriesOf, KeptIn
    <3> QED BY <3>1, <3>2
  <2>3. CASE \E s \in SessionsIn(file) : k = [session |-> TRUE, id |-> s]
    <3>1. k.session = TRUE /\ k.id \in SessionsOf(file)
      BY <2>1, <2>3 DEF SessionsOf
    <3>2. k.id \notin SessionsOf(d)
      BY <2>3 DEF SessionsOf, KeptIn
    <3> QED BY <3>1, <3>2
  <2> QED BY <2>1, <2>2, <2>3 DEF KeptIn
<1>2. gone' = gone \cup {[what |-> k, by |-> by] : k \in KeptIn(file) \ KeptIn(d)}
  BY DEF WriteFile
<1> QED BY <1>1, <1>2 DEF LosesOnlyTheOthers, IFile

LEMMA FileStarts == StoreFileInit => IFile
BY DbsTyped DEF StoreFileInit, IFile, FileTypeOK, StoreIsAhead, SessionsAreAhead, LosesOnlyTheOthers

LEMMA FileKeeps == IFile /\ [StoreFileNext]_fileVars => IFile'
<1> SUFFICES ASSUME IFile, [StoreFileNext]_fileVars PROVE IFile'
  OBVIOUS
<1>t. FileTypeOK /\ db # NoFile /\ sessions # NoFile
  BY DbIsNoFile DEF IFile, FileTypeOK
<1>1. CASE StartStore
  <2>1. PICK d \in Db \cup {NoFile} : d = Opened /\ WriteFile(d, "start")
    BY <1>1, <1>t, DbsTyped DEF StartStore, Opened, FileTypeOK
  <2>2. file' = d /\ (file # NoFile => d = file)
    BY <2>1 DEF WriteFile, Opened
  <2>3. release' \in Nat /\ processIs' = "store" /\ UNCHANGED sessions /\ legacy' \in {legacy, NoFile}
    BY <1>1, <1>t DEF StartStore, FileTypeOK
  <2>4. PICK e \in Db : e = (IF d = NoFile THEN NoDb ELSE d)
    BY DbsTyped
  <2>5. db' = [e EXCEPT !.version = release']
    BY <1>1, <2>1, <2>4 DEF StartStore, WithAppInfos
  <2>6. db' \in Db /\ db'.audit = e.audit /\ db'.sessions = e.sessions
    BY <2>3, <2>4, <2>5 DEF Db
  <2>7. EntriesOf(d) \subseteq EntriesOf(db') /\ SessionsOf(db') \subseteq SessionsOf(d)
    BY <2>4, <2>6, DbIsNoFile DEF EntriesOf, SessionsOf, SessionsIn, NoDb
  <2>8. LosesOnlyTheOthers'
    <3>1. EntriesOf(file) \subseteq EntriesOf(d) /\ SessionsOf(file) \subseteq SessionsOf(d)
      BY <2>2 DEF EntriesOf, SessionsOf
    <3> QED BY <2>1, <3>1, WriteLoses
  <2> QED BY <1>t, <2>2, <2>3, <2>6, <2>7, <2>8 DEF IFile, FileTypeOK, StoreIsAhead, SessionsAreAhead, EntriesOf,
     SessionsOf, SessionsIn
<1>2. CASE StartApi
  <2>1. PICK d \in Db : d = (IF file = NoFile THEN NoDb ELSE file) /\ sessions' = [d EXCEPT !.sessions = SessionsIn(d)]
    BY <1>2, <1>t, DbsTyped DEF StartApi, FileTypeOK
  <2>2. SessionsIn(d) \in SUBSET Sid
    BY DbFields
  <2>3. /\ sessions' \in Db /\ sessions'.audit = d.audit /\ sessions'.sessions = SessionsIn(d)
    BY <2>1, <2>2 DEF Db
  <2>4. SessionsOf(sessions') = SessionsIn(d) /\ sessions'.sessions # NoFile
    BY <2>2, <2>3, FileAssumption DEF SessionsOf, SessionsIn
  <2>5. EntriesOf(sessions') = EntriesOf(file)
    <3>1. CASE file = NoFile
      <4>1. d.audit = <<>> /\ ToSet(d.audit) = {}
        BY <2>1, <3>1 DEF NoDb, ToSet
      <4> QED BY <2>3, <3>1, <4>1, DbIsNoFile DEF EntriesOf
    <3>2. CASE file # NoFile
      BY <2>1, <2>3, <3>2, DbIsNoFile DEF EntriesOf
    <3> QED BY <3>1, <3>2
  <2>6. SessionsIn(d) = SessionsOf(file)
    BY <2>1 DEF SessionsOf, SessionsIn, NoDb
  <2>7. processIs = "store" /\ processIs' = "api" /\ UNCHANGED <<file, legacy, gone, release, db>>
    BY <1>2 DEF StartApi, theFiles
  <2>8. StoreIsAhead'
    BY <2>5, <2>7 DEF IFile, StoreIsAhead, EntriesOf
  <2>9. SessionsAreAhead'
    BY <2>4, <2>6, <2>7 DEF IFile, SessionsAreAhead, SessionsOf, SessionsIn
  <2> QED BY <1>t, <2>3, <2>7, <2>8, <2>9 DEF IFile, FileTypeOK, LosesOnlyTheOthers
<1>3. ASSUME NEW entry \in Entry, InsertAudit(entry) PROVE IFile'
  <2>1. db' = [db EXCEPT !.audit = Append(@, entry)] /\ UNCHANGED <<file, legacy, gone, processIs, release, sessions>>
    BY <1>3 DEF InsertAudit, theFiles, theRun
  <2>2. PICK a \in Seq(Entry) : a = db.audit
    BY <1>t, DbFields DEF FileTypeOK
  <2>3. Append(a, entry) \in Seq(Entry) /\ ToSet(a) \subseteq ToSet(Append(a, entry))
    BY DEF ToSet
  <2>4. db' \in Db /\ db'.audit = Append(a, entry) /\ db'.sessions = db.sessions
    BY <1>t, <2>1, <2>2, <2>3 DEF FileTypeOK, Db
  <2>5. EntriesOf(db) \subseteq EntriesOf(db') /\ SessionsOf(db') = SessionsOf(db)
    BY <1>t, <2>2, <2>3, <2>4, DbIsNoFile DEF EntriesOf, SessionsOf, SessionsIn
  <2> QED BY <1>t, <2>1, <2>4, <2>5 DEF IFile, FileTypeOK, StoreIsAhead, SessionsAreAhead,
     LosesOnlyTheOthers, EntriesOf, SessionsOf, SessionsIn
<1>4. ASSUME NEW s \in Sid, OpenSession(s) PROVE IFile'
  <2>1. /\ processIs = "api" /\ sessions' = [sessions EXCEPT !.sessions = @ \cup {s}]
        /\ UNCHANGED <<file, legacy, gone, processIs, release, db>>
    BY <1>4 DEF OpenSession, theFiles, theRun
  <2>2. PICK ss \in SUBSET Sid : ss = sessions.sessions
    <3>1. sessions.sessions # NoFile /\ sessions \in Db
      BY <1>t, <2>1 DEF IFile, FileTypeOK, SessionsAreAhead
    <3> QED BY <3>1, DbFields, Zenon
  <2>3. sessions' \in Db /\ sessions'.sessions = ss \cup {s} /\ sessions'.audit = sessions.audit
    BY <1>t, <2>1, <2>2 DEF FileTypeOK, Db
  <2>4. EntriesOf(sessions') = EntriesOf(sessions) /\ SessionsOf(sessions) \subseteq SessionsOf(sessions')
        /\ sessions'.sessions # NoFile
    BY <1>t, <2>2, <2>3, DbIsNoFile, FileAssumption DEF EntriesOf, SessionsOf, SessionsIn
  <2> QED BY <1>t, <2>1, <2>3, <2>4 DEF IFile, FileTypeOK, StoreIsAhead, SessionsAreAhead,
     LosesOnlyTheOthers, EntriesOf, SessionsOf, SessionsIn
<1>5. CASE SaveDb
  <2>1. processIs # "down" /\ WriteFile(db, "store") /\ UNCHANGED <<legacy, processIs, release, db, sessions>>
    BY <1>5 DEF SaveDb, theRun
  <2>2. LosesOnlyTheOthers'
    BY <1>t, <2>1, WriteLoses DEF IFile, FileTypeOK, StoreIsAhead
  <2>3. file' = db
    BY <2>1 DEF WriteFile
  <2> QED BY <1>t, <2>1, <2>2, <2>3 DEF IFile, FileTypeOK, StoreIsAhead, SessionsAreAhead,
     EntriesOf, SessionsOf, SessionsIn
<1>6. CASE SaveSessions
  <2>1. processIs = "api" /\ WriteFile(sessions, "sessions") /\ UNCHANGED <<legacy, processIs, release, db, sessions>>
    BY <1>6 DEF SaveSessions, theRun
  <2>2. LosesOnlyTheOthers'
    BY <1>t, <2>1, WriteLoses DEF IFile, FileTypeOK, SessionsAreAhead
  <2>3. file' = sessions
    BY <2>1 DEF WriteFile
  <2> QED BY <1>t, <2>1, <2>2, <2>3 DEF IFile, FileTypeOK, StoreIsAhead, SessionsAreAhead,
     EntriesOf, SessionsOf, SessionsIn
<1>7. CASE ProcessEnds
  BY <1>7, <1>t, DbsTyped DEF ProcessEnds, theFiles, IFile, FileTypeOK, StoreIsAhead, SessionsAreAhead,
     LosesOnlyTheOthers
<1>8. CASE WudRuns \/ UNCHANGED fileVars
  BY <1>8, <1>t DEF WudRuns, fileVars, theRun, IFile, FileTypeOK, StoreIsAhead, SessionsAreAhead,
     LosesOnlyTheOthers, EntriesOf, SessionsOf, SessionsIn
<1> QED BY <1>1, <1>2, <1>3, <1>4, <1>5, <1>6, <1>7, <1>8 DEF StoreFileNext

(***************************************************************************)
(* SavesKeep: over any number of starts, upgrades, saves and crashes, with *)
(* any audit actions and sessions, a write of the store loses only         *)
(* sessions and a write of the session store only what is not a session    *)
(* (init and save of both databases). It is the first part of AuditIsKept. *)
(***************************************************************************)
THEOREM SavesKeep == StoreFileSpec => []LosesOnlyTheOthers
<1>1. IFile => LosesOnlyTheOthers
  BY DEF IFile
<1> QED BY <1>1, FileStarts, FileKeeps, PTL DEF StoreFileSpec

\* A page ends before the next one starts, and every row is on some page.
LEMMA PagesApart ==
  ASSUME NEW limit \in Nat, NEW m \in Nat, NEW n \in Nat, m < n, NEW j \in 1..limit, NEW k \in 1..limit
  PROVE  (m - 1) * limit + j < (n - 1) * limit + k
<1>1. PICK d \in Nat : n = m + 1 + d
  <2>1. n - m - 1 \in Nat /\ n = m + 1 + (n - m - 1)
    OBVIOUS
  <2> QED BY <2>1, Zenon
<1>2. PICK s \in Int : s = (m - 1) * limit
  OBVIOUS
<1>3. PICK t \in Nat : t = d * limit
  OBVIOUS
<1>4. (n - 1) * limit = s + limit + t
  BY <1>1, <1>2, <1>3
<1> QED BY <1>2, <1>4

LEMMA OnSomePage ==
  ASSUME NEW limit \in Nat \ {0}, NEW row \in Nat \ {0}
  PROVE  \E n \in 1..row : \E k \in 1..limit : row = (n - 1) * limit + k
<1> DEFINE Enough == {n \in Nat : row <= n * limit}
<1>1. row \in Enough
  <2>1. PICK d \in Nat : limit = 1 + d
    <3>1. limit - 1 \in Nat /\ limit = 1 + (limit - 1)
      OBVIOUS
    <3> QED BY <3>1, Zenon
  <2>2. PICK t \in Nat : t = row * d
    OBVIOUS
  <2>3. row * limit = row + t
    BY <2>1, <2>2
  <2> QED BY <2>3
<1>2. PICK n \in Enough : \A m \in Enough : n <= m
  <2>1. Enough \subseteq Nat /\ Enough # {}
    BY <1>1
  <2> HIDE DEF Enough
  <2> QED BY <2>1, LeastOf
<1>3. n \in Nat /\ row <= n * limit /\ n <= row
  BY <1>1, <1>2
<1>4. n # 0
  <2>1. 0 * limit = 0
    OBVIOUS
  <2> QED BY <1>3, <2>1
<1>5. PICK s \in Nat : s = (n - 1) * limit
  <2>1. n - 1 \in Nat
    BY <1>3, <1>4
  <2> QED BY <2>1
<1>6. s < row
  <2>1. n - 1 \in Nat /\ n - 1 < n
    BY <1>3, <1>4
  <2>2. n - 1 \notin Enough
    BY <1>2, <1>3, <2>1
  <2> QED BY <1>5, <2>1, <2>2
<1>7. n * limit = s + limit
  BY <1>3, <1>5
<1>8. n \in 1..row
  BY <1>3, <1>4
<1>9. row - s \in 1..limit /\ row = s + (row - s)
  BY <1>3, <1>5, <1>6, <1>7
<1> QED BY <1>5, <1>8, <1>9

\* The entries of a database are numbered from the oldest.
Numbered(d) == \A i \in 1..Len(d.audit) : d.audit[i].id = i
AllNumbered == Numbered(db) /\ Numbered(sessions) /\ (file # NoFile => Numbered(file))

LEMMA NumberedStarts == StoreFileInit => AllNumbered
BY DEF StoreFileInit, AllNumbered, Numbered, NoDb

LEMMA NumberedKeeps == IFile /\ AllNumbered /\ [StoreFileNext]_fileVars => AllNumbered'
<1> SUFFICES ASSUME IFile, AllNumbered, [StoreFileNext]_fileVars PROVE AllNumbered'
  OBVIOUS
<1>t. /\ db \in Db /\ sessions \in Db /\ file \in Db \cup {NoFile} /\ legacy \in {NoFile, LegacyDb}
      /\ db # NoFile /\ sessions # NoFile
  BY DbIsNoFile DEF IFile, FileTypeOK
<1>e. Numbered(NoDb) /\ Numbered(LegacyDb)
  BY DEF Numbered, NoDb, LegacyDb
<1>1. CASE StartStore
  <2>1. /\ file' = Opened /\ UNCHANGED sessions
        /\ db' = [(IF Opened = NoFile THEN NoDb ELSE Opened) EXCEPT !.version = release']
    BY <1>1 DEF StartStore, WriteFile, WithAppInfos
  <2>2. PICK e \in Db : e = (IF Opened = NoFile THEN NoDb ELSE Opened) /\ Numbered(e)
    BY <1>t, <1>e, DbsTyped DEF Opened, AllNumbered
  <2>3. db'.audit = e.audit
    BY <2>1, <2>2 DEF Db
  <2>4. file' # NoFile => Numbered(file')
    BY <2>1, <2>2
  <2> QED BY <2>1, <2>2, <2>3, <2>4 DEF AllNumbered, Numbered
<1>2. CASE StartApi
  <2>1. /\ sessions' = [(IF file = NoFile THEN NoDb ELSE file) EXCEPT
                          !.sessions = SessionsIn(IF file = NoFile THEN NoDb ELSE file)]
        /\ UNCHANGED <<file, db>>
    BY <1>2 DEF StartApi, theFiles
  <2>2. PICK e \in Db : e = (IF file = NoFile THEN NoDb ELSE file) /\ Numbered(e)
    BY <1>t, <1>e, DbsTyped DEF AllNumbered
  <2>3. sessions'.audit = e.audit
    BY <2>1, <2>2 DEF Db
  <2> QED BY <2>1, <2>2, <2>3 DEF AllNumbered, Numbered
<1>3. ASSUME NEW entry \in Entry, InsertAudit(entry) PROVE AllNumbered'
  <2>1. entry.id = Len(db.audit) + 1 /\ db' = [db EXCEPT !.audit = Append(@, entry)] /\ UNCHANGED <<file, sessions>>
    BY <1>3 DEF InsertAudit, theFiles
  <2>2. PICK a \in Seq(Entry) : a = db.audit
    BY <1>t, DbFields
  <2>3. db'.audit = Append(a, entry)
    BY <1>t, <2>1, <2>2 DEF Db
  <2>4. PICK n \in Nat : n = Len(a)
    OBVIOUS
  <2>5. /\ Len(Append(a, entry)) = n + 1 /\ Append(a, entry)[n + 1] = entry
        /\ \A i \in 1..n : Append(a, entry)[i] = a[i]
    BY <2>4
  <2>6. \A i \in 1..(n + 1) : i = n + 1 \/ i \in 1..n
    BY <2>4
  <2>7. entry.id = n + 1 /\ \A i \in 1..n : a[i].id = i
    BY <2>1, <2>2, <2>4 DEF AllNumbered, Numbered
  <2>8. \A i \in 1..(n + 1) : Append(a, entry)[i].id = i
    BY <2>5, <2>6, <2>7
  <2>9. Numbered(db')
    BY <2>3, <2>5, <2>8 DEF Numbered
  <2> QED BY <2>1, <2>9 DEF AllNumbered, Numbered
<1>4. ASSUME NEW s \in Sid, OpenSession(s) PROVE AllNumbered'
  <2>1. sessions'.audit = sessions.audit /\ UNCHANGED <<file, db>>
    BY <1>4, <1>t DEF OpenSession, theFiles, Db
  <2> QED BY <2>1 DEF AllNumbered, Numbered
<1>5. CASE SaveDb \/ SaveSessions
  <2>1. UNCHANGED <<db, sessions>> /\ file' \in {db, sessions}
    BY <1>5 DEF SaveDb, SaveSessions, WriteFile
  <2> QED BY <2>1 DEF AllNumbered, Numbered
<1>6. CASE ProcessEnds
  BY <1>6, <1>e DEF ProcessEnds, theFiles, AllNumbered, Numbered
<1>7. CASE WudRuns \/ UNCHANGED fileVars
  BY <1>7 DEF WudRuns, fileVars, AllNumbered, Numbered
<1> QED BY <1>1, <1>2, <1>3, <1>4, <1>5, <1>6, <1>7 DEF StoreFileNext

\* What matches can be put in the order of the page: no two entries tie.
Sorted(found) == {p \in found \X found : IsBefore(p[1], p[2])}

LEMMA MatchesAreOrdered ==
  ASSUME IFile, AllNumbered, NEW query
  PROVE  /\ IsFiniteSet(Matching(query)) /\ Cardinality(Matching(query)) <= MaxEntries
         /\ Matching(query) \subseteq Entry
         /\ Orderly(Matching(query), Sorted(Matching(query)))
<1> DEFINE S == Matching(query)
<1>1. PICK a \in Seq(Entry) : a = db.audit /\ \A i \in 1..Len(a) : a[i].id = i
  BY DbFields DEF IFile, FileTypeOK, AllNumbered, Numbered
<1>2. S \subseteq {a[i] : i \in 1..Len(a)}
  BY <1>1 DEF Matching, ToSet
<1>3. S \subseteq Entry
  BY <1>2
<1>4. \A d, e \in S : d.id = e.id => d = e
  BY <1>1, <1>2
<1>5. \A e \in S : e.id \in Nat /\ e.at \in Nat /\ e.id \in 1..MaxEntries
  BY <1>3 DEF Entry
<1> DEFINE f == [e \in S |-> e.id]
<1> HIDE DEF S
<1>6. f \in Injection(S, 1..MaxEntries)
  BY <1>4, <1>5 DEF Injection, IsInjective
<1>7. IsFiniteSet(1..MaxEntries) /\ Cardinality(1..MaxEntries) = MaxEntries
  <2>1. MaxEntries \in Nat /\ 1 \in Int /\ MaxEntries \in Int /\ (IF 1 > MaxEntries THEN 0 ELSE MaxEntries - 1 + 1) = MaxEntries
    BY FileAssumption
  <2>2. IsFiniteSet(1..MaxEntries)
        /\ Cardinality(1..MaxEntries) = IF 1 > MaxEntries THEN 0 ELSE MaxEntries - 1 + 1
    BY <2>1, FS_Interval
  <2> QED BY <2>1, <2>2
<1>8. IsFiniteSet(S) /\ Cardinality(S) <= MaxEntries
  BY <1>6, <1>7, FS_Injection
<1>9. \A d, e \in S : <<d, e>> \in Sorted(S) <=> d.at > e.at \/ (d.at = e.at /\ d.id < e.id)
  BY DEF Sorted, IsBefore
<1>10. \A d \in S : <<d, d>> \notin Sorted(S)
  BY <1>5, <1>9
<1>11. \A d, e \in S : d # e => <<d, e>> \in Sorted(S) \/ <<e, d>> \in Sorted(S)
  BY <1>4, <1>5, <1>9
<1>12. \A d, e, g \in S : <<d, e>> \in Sorted(S) /\ <<e, g>> \in Sorted(S) => <<d, g>> \in Sorted(S)
  BY <1>5, <1>9, SMTT(30)
<1> QED BY <1>3, <1>8, <1>10, <1>11, <1>12 DEF Orderly, S

\* The rows of a page, and where they are in the whole listing.
RowOf(limit, page, k) == (page - 1) * limit + k
OnPage(limit, page, n) == {k \in 1..limit : RowOf(limit, page, k) <= n}

LEMMA PageLists ==
  ASSUME IFile, AllNumbered, NEW query, NEW limit \in Nat \ {0}, NEW page \in Nat \ {0},
         NEW K \in Nat, K = Cardinality(Matching(query))
  PROVE  LET o == NewestFirst(Matching(query))
         IN  /\ DOMAIN AuditPage(query, page, limit) = OnPage(limit, page, K)
             /\ \A k \in OnPage(limit, page, K) :
                   AuditPage(query, page, limit)[k] = o[RowOf(limit, page, k)]
<1> DEFINE S == Matching(query)
           o == NewestFirst(S)
<1>1. K \in Nat /\ K = Cardinality(S)
  BY MatchesAreOrdered, FS_CardinalityType
<1>2. o \in [1..K -> S] /\ S \subseteq Entry
  BY <1>1, MatchesAreOrdered, InOrderLists DEF NewestFirst, Sorted
<1>3. PICK s \in Nat : s = (page - 1) * limit
  <2>1. page - 1 \in Nat
    OBVIOUS
  <2> QED BY <2>1
<1> HIDE DEF o, S
<1>4. o \in Seq(Entry) /\ Len(o) = K
  <2>1. o \in [1..K -> Entry]
    BY <1>2
  <2> QED BY <1>1, <2>1
<1>5. PICK b \in Nat : b = IF s + limit < K THEN s + limit ELSE K
  <2>1. (IF s + limit < K THEN s + limit ELSE K) \in Nat
    BY <1>1, <1>3
  <2> QED BY <2>1, Zenon
<1>6. AuditPage(query, page, limit) = SubSeq(o, s + 1, b)
  BY <1>3, <1>4, <1>5 DEF AuditPage, o, S
<1>7. /\ SubSeq(o, s + 1, b) \in Seq(Entry)
      /\ Len(SubSeq(o, s + 1, b)) = IF s + 1 <= b THEN b - (s + 1) + 1 ELSE 0
      /\ \A i \in 1..(b - (s + 1) + 1) : SubSeq(o, s + 1, b)[i] = o[(s + 1) + i - 1]
  <2>1. s + 1 \in Int /\ b \in Int /\ \A i \in (s + 1)..b : i \in 1..K
    BY <1>3, <1>5
  <2>2. \A i \in (s + 1)..b : o[i] \in Entry
    BY <1>2, <2>1
  <2> QED BY <2>1, <2>2, SubSeqProperties
<1>8. PICK N \in Nat : N = IF s + 1 <= b THEN b - (s + 1) + 1 ELSE 0
  <2>1. (IF s + 1 <= b THEN b - (s + 1) + 1 ELSE 0) \in Nat
    BY <1>3, <1>5
  <2> QED BY <2>1, Zenon
<1>9. {k \in 1..limit : s + k <= K} = 1..N
  <2>1. ASSUME NEW k \in 1..limit, s + k <= K PROVE k \in 1..N
    BY <1>5, <1>8, <2>1
  <2>2. ASSUME NEW k \in 1..N PROVE k \in 1..limit /\ s + k <= K
    BY <1>5, <1>8, <2>2
  <2> QED BY <2>1, <2>2
<1>10. \A k \in 1..N : k \in 1..(b - (s + 1) + 1) /\ (s + 1) + k - 1 = s + k
  BY <1>3, <1>5, <1>8
<1>11. DOMAIN SubSeq(o, s + 1, b) = 1..N
  BY <1>7, <1>8
<1>12. \A k \in 1..N : SubSeq(o, s + 1, b)[k] = o[s + k]
  BY <1>7, <1>10
<1>13. OnPage(limit, page, K) = 1..N /\ \A k \in 1..N : RowOf(limit, page, k) = s + k
  BY <1>3, <1>9 DEF OnPage, RowOf
<1> QED BY <1>6, <1>11, <1>12, <1>13 DEF o, S

LEMMA PagesList ==
  ASSUME IFile, AllNumbered, NEW query, NEW limit \in 1..MaxEntries
  PROVE  LET listing == [page \in 1..MaxEntries |-> AuditPage(query, page, limit)]
             rows == UNION {{page} \X DOMAIN listing[page] : page \in 1..MaxEntries}
             entry(r) == listing[r[1]][r[2]]
         IN  /\ \A r \in rows : entry(r) \in Matching(query)
             /\ \A e \in Matching(query) : \E r \in rows : \A q \in rows : entry(q) = e <=> q = r
             /\ \A q, r \in rows :
                  q[1] < r[1] \/ (q[1] = r[1] /\ q[2] < r[2]) => entry(q).at >= entry(r).at
<1> DEFINE S == Matching(query)
           o == NewestFirst(S)
           listing == [page \in 1..MaxEntries |-> AuditPage(query, page, limit)]
           rows == UNION {{page} \X DOMAIN listing[page] : page \in 1..MaxEntries}
           entry(r) == listing[r[1]][r[2]]
           rank(r) == RowOf(limit, r[1], r[2])
<1>1. PICK K \in Nat : K = Cardinality(S) /\ K <= MaxEntries
  BY MatchesAreOrdered, FS_CardinalityType
<1>2. MaxEntries \in Nat /\ limit \in Nat \ {0}
  BY FileAssumption
<1>3. /\ o \in [1..K -> S] /\ \A m, n \in 1..K : m < n => <<o[m], o[n]>> \in Sorted(S)
      /\ \A e \in S : \E n \in 1..K : o[n] = e
  <2>1. IsFiniteSet(S) /\ Orderly(S, Sorted(S))
    BY MatchesAreOrdered
  <2>2. o = InOrder(S, Sorted(S))
    BY DEF NewestFirst, Sorted
  <2> HIDE DEF o, S
  <2>3. /\ InOrder(S, Sorted(S)) \in [1..K -> S]
        /\ \A e \in S : /\ PlaceOf(S, Sorted(S), e) \in 1..K
                        /\ InOrder(S, Sorted(S))[PlaceOf(S, Sorted(S), e)] = e
        /\ \A m, n \in 1..K : m < n => <<InOrder(S, Sorted(S))[m], InOrder(S, Sorted(S))[n]>> \in Sorted(S)
    BY <1>1, <2>1, InOrderLists
  <2> QED BY <2>2, <2>3
<1>4. \A m, n \in 1..K : m < n => o[m].at >= o[n].at /\ o[m] # o[n]
  <2>1. \A d, e \in S : d.at \in Nat /\ e.at \in Nat
    BY MatchesAreOrdered DEF Entry
  <2>2. \A d, e \in S : <<d, e>> \in Sorted(S) => d.at > e.at \/ (d.at = e.at /\ d.id < e.id)
    BY DEF Sorted, IsBefore
  <2>3. \A d, e \in S : <<d, e>> \in Sorted(S) => d.at >= e.at /\ d # e
    <3>1. \A d \in S : d.id \in Nat
      BY MatchesAreOrdered DEF Entry
    <3> HIDE DEF S
    <3> QED BY <2>1, <2>2, <3>1
  <2> HIDE DEF o, S
  <2> QED BY <1>3, <2>3
<1>5. \A page \in 1..MaxEntries :
        /\ DOMAIN listing[page] = OnPage(limit, page, K)
        /\ \A k \in OnPage(limit, page, K) : listing[page][k] = o[RowOf(limit, page, k)]
  <2> SUFFICES ASSUME NEW page \in 1..MaxEntries
               PROVE  /\ DOMAIN listing[page] = OnPage(limit, page, K)
                      /\ \A k \in OnPage(limit, page, K) : listing[page][k] = o[RowOf(limit, page, k)]
    OBVIOUS
  <2>1. page \in Nat \ {0} /\ listing[page] = AuditPage(query, page, limit)
    BY <1>2
  <2>2. /\ DOMAIN AuditPage(query, page, limit) = OnPage(limit, page, K)
        /\ \A k \in OnPage(limit, page, K) : AuditPage(query, page, limit)[k] = o[RowOf(limit, page, k)]
    BY <1>1, <1>2, <2>1, PageLists
  <2> HIDE DEF listing, o
  <2> QED BY <2>1, <2>2
<1> HIDE DEF o, S, listing
<1>6. \A r \in rows : /\ r[1] \in 1..MaxEntries /\ r[2] \in 1..limit /\ r = <<r[1], r[2]>>
                      /\ rank(r) <= K /\ entry(r) = o[rank(r)]
  BY <1>5 DEF OnPage
<1>7. \A page \in 1..MaxEntries, k \in 1..limit : RowOf(limit, page, k) <= K => <<page, k>> \in rows
  BY <1>5 DEF OnPage
<1>8. \A r \in rows : rank(r) \in 1..K
  <2> SUFFICES ASSUME NEW r \in rows PROVE rank(r) \in 1..K
    OBVIOUS
  <2>1. PICK p \in Nat : p = r[1] - 1
    <3>1. r[1] - 1 \in Nat
      BY <1>2, <1>6
    <3> QED BY <3>1, Zenon
  <2>2. PICK s \in Nat : s = p * limit
    BY <1>2
  <2>3. PICK k \in 1..limit : k = r[2]
    BY <1>6
  <2>4. rank(r) = s + k /\ s + k <= K
    BY <1>6, <2>1, <2>2, <2>3 DEF RowOf
  <2>5. s + k \in 1..K
    BY <1>1, <1>2, <2>4
  <2> QED BY <2>4, <2>5
<1>9. \A q, r \in rows : q[1] < r[1] \/ (q[1] = r[1] /\ q[2] < r[2]) => rank(q) < rank(r)
  <2> SUFFICES ASSUME NEW q \in rows, NEW r \in rows, q[1] < r[1] \/ (q[1] = r[1] /\ q[2] < r[2])
               PROVE  rank(q) < rank(r)
    OBVIOUS
  <2>1. PICK m \in Nat : m = q[1]
    BY <1>2, <1>6
  <2>2. PICK n \in Nat : n = r[1]
    BY <1>2, <1>6
  <2>3. PICK j \in 1..limit : j = q[2]
    BY <1>6
  <2>4. PICK k \in 1..limit : k = r[2]
    BY <1>6
  <2>5. CASE m < n
    BY <1>2, <2>1, <2>2, <2>3, <2>4, <2>5, PagesApart DEF RowOf
  <2>6. CASE m = n /\ j < k
    <3>1. PICK s \in Int : s = (m - 1) * limit
      BY <1>2
    <3>2. s + j < s + k
      BY <1>2, <2>6, <3>1
    <3> QED BY <2>1, <2>2, <2>3, <2>4, <2>6, <3>1, <3>2 DEF RowOf
  <2> QED BY <2>1, <2>2, <2>3, <2>4, <2>5, <2>6
<1>10. \A r \in rows : entry(r) \in S
  BY <1>3, <1>6, <1>8
<1>11. \A q, r \in rows : q[1] < r[1] \/ (q[1] = r[1] /\ q[2] < r[2]) =>
          entry(q).at >= entry(r).at /\ entry(q) # entry(r)
  <2> HIDE DEF rank, entry, rows
  <2> QED BY <1>4, <1>6, <1>8, <1>9
<1>12. \A q, r \in rows : entry(q) = entry(r) => q = r
  <2> SUFFICES ASSUME NEW q \in rows, NEW r \in rows, entry(q) = entry(r), q # r PROVE FALSE
    OBVIOUS
  <2>1. q[1] # r[1] \/ q[2] # r[2]
    <3> HIDE DEF rank, entry, rows
    <3> QED BY <1>6
  <2>2. q[1] \in Nat /\ r[1] \in Nat /\ q[2] \in Nat /\ r[2] \in Nat
    <3> HIDE DEF rank, entry, rows
    <3> QED BY <1>2, <1>6
  <2>3. \/ q[1] < r[1] \/ (q[1] = r[1] /\ q[2] < r[2])
        \/ r[1] < q[1] \/ (r[1] = q[1] /\ r[2] < q[2])
    <3> HIDE DEF rank, entry, rows
    <3> QED BY <2>1, <2>2
  <2> HIDE DEF rank, entry, rows
  <2> QED BY <1>11, <2>3
<1>13. ASSUME NEW e \in S PROVE \E r \in rows : entry(r) = e
  <2>1. PICK n \in 1..K : o[n] = e
    BY <1>3
  <2>2. n \in Nat \ {0}
    OBVIOUS
  <2>3. PICK page \in 1..n : \E k \in 1..limit : n = (page - 1) * limit + k
    BY <1>2, <2>2, OnSomePage
  <2>4. PICK k \in 1..limit : n = RowOf(limit, page, k)
    BY <2>3 DEF RowOf
  <2>5. page \in 1..MaxEntries
    BY <1>1, <1>2
  <2>6. RowOf(limit, page, k) <= K
    BY <2>4
  <2>7. <<page, k>> \in rows
    BY <1>7, <2>5, <2>6
  <2>8. entry(<<page, k>>) = o[n]
    BY <1>5, <2>4, <2>5, <2>6 DEF OnPage
  <2> QED BY <2>1, <2>7, <2>8
<1>14. ASSUME NEW e \in S PROVE \E r \in rows : \A q \in rows : entry(q) = e <=> q = r
  <2>1. PICK r \in rows : entry(r) = e
    BY <1>13
  <2> HIDE DEF rank, entry, rows
  <2> QED BY <1>12, <2>1
<1> HIDE DEF rank, entry, rows
<1>15. \A q, r \in rows : q[1] < r[1] \/ (q[1] = r[1] /\ q[2] < r[2]) => entry(q).at >= entry(r).at
  BY <1>11
<1> QED BY <1>10, <1>14, <1>15 DEF rank, entry, rows, listing, S

(***************************************************************************)
(* AuditStays: all of AuditIsKept, for any number of entries, queries and  *)
(* page sizes: besides what the saves keep, the pages of a listing show    *)
(* each entry that matches once, newest first.                             *)
(***************************************************************************)
THEOREM AuditStays == StoreFileSpec => []AuditIsKept
<1>1. StoreFileInit => IFile /\ AllNumbered
  BY FileStarts, NumberedStarts
<1>2. IFile /\ AllNumbered /\ [StoreFileNext]_fileVars => IFile' /\ AllNumbered'
  BY FileKeeps, NumberedKeeps
<1>3. IFile /\ AllNumbered => AuditIsKept
  <2> SUFFICES ASSUME IFile, AllNumbered PROVE AuditIsKept
    OBVIOUS
  <2>1. PagesAreWhole
    BY PagesList DEF PagesAreWhole
  <2> QED BY <2>1 DEF AuditIsKept, IFile
<1> QED BY <1>1, <1>2, <1>3, PTL DEF StoreFileSpec

---------------------------------------------------------------------------------
(***************************************************************************)
(* The event stream of Docker.  Token i of the stream is of event          *)
(* (i - 1) \div 3 + 1, and newlines are its multiples of three; so what is *)
(* in the buffer and in the lines of the readers are pieces of the stream  *)
(* between known positions.                                                *)
(***************************************************************************)
LEMMA Thirds ==
  ASSUME NEW e \in Nat \ {0}
  PROVE  /\ (3 * e - 3) \div 3 = e - 1 /\ (3 * e - 3) % 3 = 0
         /\ (3 * e - 2) \div 3 = e - 1 /\ (3 * e - 2) % 3 = 1
         /\ (3 * e - 1) \div 3 = e - 1 /\ (3 * e - 1) % 3 = 2
OBVIOUS

LEMMA StreamIs ==
  ASSUME NEW e \in 1..Events
  PROVE  /\ Stream[3 * e - 2] = [event |-> e, part |-> "head"]
         /\ Stream[3 * e - 1] = [event |-> e, part |-> "tail"]
         /\ Stream[3 * e] = [event |-> e, part |-> "line"]
         /\ 3 * e - 2 \in 1..3 * Events /\ 3 * e - 1 \in 1..3 * Events /\ 3 * e \in 1..3 * Events
<1>1. /\ 3 * e - 2 \in 1..3 * Events /\ 3 * e - 1 \in 1..3 * Events /\ 3 * e \in 1..3 * Events
      /\ e \in Nat \ {0} /\ 3 * e - 2 - 1 = 3 * e - 3 /\ 3 * e - 1 - 1 = 3 * e - 2
  BY EventsAssumption
<1>2. PartOf(3 * e - 2) = "head" /\ PartOf(3 * e - 1) = "tail" /\ PartOf(3 * e) = "line"
  BY <1>1, Thirds DEF PartOf
<1>3. \A i \in 1..3 * Events : Stream[i] = [event |-> ((i - 1) \div 3) + 1, part |-> PartOf(i)]
  BY DEF Stream
<1>4. ((3 * e - 2 - 1) \div 3) + 1 = e /\ ((3 * e - 1 - 1) \div 3) + 1 = e /\ ((3 * e - 1) \div 3) + 1 = e
  BY <1>1, Thirds
<1> QED BY <1>1, <1>2, <1>3, <1>4

\* Every token is one of the three of its event.
LEMMA InThirds ==
  ASSUME NEW i \in 1..3 * Events
  PROVE  \E e \in 1..Events : i \in {3 * e - 2, 3 * e - 1, 3 * e}
<1> PICK e : e = ((i - 1) \div 3) + 1
  OBVIOUS
<1>1. e \in 1..Events /\ (i = 3 * e - 2 \/ i = 3 * e - 1 \/ i = 3 * e)
  BY EventsAssumption
<1> QED BY <1>1

LEMMA StreamTyped == Stream \in Seq(Token) /\ Len(Stream) = 3 * Events
<1>1. \A i \in 1..3 * Events : Stream[i] \in Token
  <2> SUFFICES ASSUME NEW i \in 1..3 * Events PROVE Stream[i] \in Token
    OBVIOUS
  <2>1. PICK e \in 1..Events : i \in {3 * e - 2, 3 * e - 1, 3 * e}
    BY InThirds
  <2>2. Stream[i] \in {[event |-> e, part |-> p] : p \in {"head", "tail", "line"}}
    BY <2>1, StreamIs
  <2> QED BY <2>2 DEF Token
<1>2. DOMAIN Stream = 1..3 * Events /\ Stream = [i \in 1..3 * Events |-> Stream[i]] /\ 3 * Events \in Nat
  BY EventsAssumption DEF Stream
<1> QED BY <1>1, <1>2, IsASeq

\* Where the newlines of the stream are.
LEMMA NewlinesAt ==
  ASSUME NEW i \in 1..3 * Events
  PROVE  Stream[i].part = "line" <=> i % 3 = 0
<1>1. PICK e \in 1..Events : i \in {3 * e - 2, 3 * e - 1, 3 * e}
  BY InThirds
<1>2. (3 * e - 2) % 3 = 1 /\ (3 * e - 1) % 3 = 2 /\ (3 * e) % 3 = 0
  BY Thirds, EventsAssumption
<1>3. CASE i = 3 * e - 2
  <2>1. i % 3 = 1
    BY <1>2, <1>3, Zenon
  <2>2. Stream[i] = [event |-> e, part |-> "head"]
    BY <1>3, StreamIs, Zenon
  <2>3. Stream[i].part = "head"
    BY <2>2
  <2> QED BY <2>1, <2>3
<1>4. CASE i = 3 * e - 1
  <2>1. i % 3 = 2
    BY <1>2, <1>4, Zenon
  <2>2. Stream[i] = [event |-> e, part |-> "tail"]
    BY <1>4, StreamIs, Zenon
  <2>3. Stream[i].part = "tail"
    BY <2>2
  <2> QED BY <2>1, <2>3
<1>5. CASE i = 3 * e
  <2>1. i % 3 = 0
    BY <1>2, <1>5, Zenon
  <2>2. Stream[i] = [event |-> e, part |-> "line"]
    BY <1>5, StreamIs, Zenon
  <2>3. Stream[i].part = "line"
    BY <2>2
  <2> QED BY <2>1, <2>3
<1> QED BY <1>1, <1>3, <1>4, <1>5

---------------------------------------------------------------------------------
\* The piece of the stream after its first a tokens up to the first b.
Piece(a, b) == SubSeq(Stream, a + 1, b)

LEMMA PieceIs ==
  ASSUME NEW b \in 0..3 * Events, NEW a \in 0..b
  PROVE  /\ Piece(a, b) \in Seq(Token) /\ Len(Piece(a, b)) = b - a
         /\ \A i \in 1..(b - a) : Piece(a, b)[i] = Stream[a + i] /\ a + i \in 1..3 * Events
<1>1. /\ a + 1 \in Int /\ b \in Int /\ b - (a + 1) + 1 = b - a
      /\ (IF a + 1 <= b THEN b - (a + 1) + 1 ELSE 0) = b - a
      /\ \A i \in (a + 1)..b : i \in 1..3 * Events
      /\ \A i \in 1..(b - a) : (a + 1) + i - 1 = a + i /\ a + i \in 1..3 * Events
  BY EventsAssumption
<1>2. \A i \in 1..3 * Events : Stream[i] \in Token
  BY StreamTyped, LenProperties
<1> QED BY <1>1, <1>2, SubSeqProperties DEF Piece

LEMMA PiecesJoin ==
  ASSUME NEW c \in 0..3 * Events, NEW b \in 0..c, NEW a \in 0..b
  PROVE  Piece(a, b) \o Piece(b, c) = Piece(a, c)
<1>1. /\ a + 1 \in 1..(Len(Stream) + 1) /\ b \in ((a + 1) - 1)..Len(Stream) /\ c \in b..Len(Stream)
  BY EventsAssumption, StreamTyped
<1> QED BY <1>1, StreamTyped, ConcatAdjacentSubSeq DEF Piece

\* A piece of a piece.
LEMMA PieceOf ==
  ASSUME NEW b \in 0..3 * Events, NEW a \in 0..b, NEW m \in 1..(b - a + 1), NEW n \in (m - 1)..(b - a)
  PROVE  SubSeq(Piece(a, b), m, n) = Piece(a + m - 1, a + n)
<1> PICK s : s = SubSeq(Piece(a, b), m, n)
  OBVIOUS
<1>1. /\ a + m - 1 \in 0..(a + n) /\ a + n \in 0..3 * Events /\ m \in Int /\ n \in Int
      /\ a + n - (a + m - 1) = n - m + 1 /\ n - m + 1 \in Nat
      /\ (IF m <= n THEN n - m + 1 ELSE 0) = n - m + 1
      /\ \A i \in 1..(n - m + 1) : m + i - 1 \in 1..(b - a) /\ a + (m + i - 1) = (a + m - 1) + i
      /\ \A i \in m..n : i \in 1..(b - a)
  BY EventsAssumption
<1>2. \A i \in 1..(n - m + 1) : \E j \in 1..(b - a) : j = m + i - 1 /\ a + j = (a + m - 1) + i
  BY <1>1, Zenon
<1>3. \A i \in m..n : Piece(a, b)[i] \in Token
  BY <1>1, PieceIs, LenProperties, ZenonT(60)
<1>4. /\ s \in Seq(Token) /\ Len(s) = n - m + 1
      /\ \A i \in 1..(n - m + 1) : s[i] = Piece(a, b)[m + i - 1]
  BY <1>1, <1>3, SubSeqProperties
<1>5. /\ Piece(a + m - 1, a + n) \in Seq(Token) /\ Len(Piece(a + m - 1, a + n)) = n - m + 1
      /\ \A i \in 1..(n - m + 1) : Piece(a + m - 1, a + n)[i] = Stream[(a + m - 1) + i]
  <2>1. PICK d \in 0..3 * Events : d = a + n
    BY <1>1
  <2>2. PICK c \in 0..d : c = a + m - 1
    BY <1>1, <2>1
  <2>3. d - c = n - m + 1
    BY <1>1, <2>1, <2>2
  <2>4. /\ Piece(c, d) \in Seq(Token) /\ Len(Piece(c, d)) = d - c
        /\ \A i \in 1..(d - c) : Piece(c, d)[i] = Stream[c + i]
    BY PieceIs
  <2> QED BY <2>1, <2>2, <2>3, <2>4, Zenon
<1>6. ASSUME NEW i \in 1..(n - m + 1) PROVE s[i] = Piece(a + m - 1, a + n)[i]
  <2>1. PICK j \in 1..(b - a) : j = m + i - 1 /\ a + j = (a + m - 1) + i
    BY <1>2
  <2>2. s[i] = Piece(a, b)[j]
    BY <1>4, <2>1
  <2>3. Piece(a, b)[j] = Stream[a + j]
    BY PieceIs
  <2>4. Piece(a + m - 1, a + n)[i] = Stream[(a + m - 1) + i]
    BY <1>5
  <2> QED BY <2>1, <2>2, <2>3, <2>4, Zenon
<1>7. s = Piece(a + m - 1, a + n)
  <2> PICK t : t = Piece(a + m - 1, a + n)
    OBVIOUS
  <2> PICK k \in Nat : k = n - m + 1
    BY <1>1
  <2>1. s \in Seq(Token) /\ t \in Seq(Token) /\ Len(s) = k /\ Len(t) = k
    BY <1>4, <1>5
  <2>2. \A i \in 1..k : s[i] = t[i]
    BY <1>6
  <2> HIDE DEF Piece
  <2> QED BY <2>1, <2>2, SeqEqual
<1> QED BY <1>7

---------------------------------------------------------------------------------
\* The ends of the n lines of a text that starts after the first d tokens of
\* an event.
EndsAt(d, n) == {3 * k - d : k \in 1..n}

LEMMA EndsCount ==
  ASSUME NEW d \in {0, 2}, NEW n \in Nat
  PROVE  Cardinality(EndsAt(d, n)) = n
<1> DEFINE f == [k \in 1..n |-> 3 * k - d]
<1>1. f \in [1..n -> EndsAt(d, n)]
  BY DEF EndsAt
<1>2. \A k, l \in 1..n : f[k] = f[l] => k = l
  <2> TAKE k, l \in 1..n
  <2>1. f[k] = 3 * k - d /\ f[l] = 3 * l - d
    OBVIOUS
  <2>2. 3 * k - d = 3 * l - d => k = l
    OBVIOUS
  <2> QED BY <2>1, <2>2
<1>3. \A x \in EndsAt(d, n) : \E k \in 1..n : f[k] = x
  BY DEF EndsAt
<1>4. f \in Bijection(1..n, EndsAt(d, n))
  <2> HIDE DEF f
  <2> QED BY <1>1, <1>2, <1>3 DEF Bijection, Injection, Surjection, IsInjective
<1>5. ExistsBijection(1..n, EndsAt(d, n))
  BY <1>4 DEF ExistsBijection
<1>6. IsFiniteSet(1..n) /\ Cardinality(1..n) = n
  BY FS_Interval
<1> QED BY <1>5, <1>6, FS_Bijection

LEMMA NewLineIs ==
  ASSUME NEW d \in {0, 2}, NEW n \in Nat, NEW text, Ends(text) = EndsAt(d, n), NEW k \in 1..n
  PROVE  NewLine(text, k) = 3 * k - d
<1>1. \A m \in 1..n : {j \in EndsAt(d, n) : j <= 3 * m - d} = EndsAt(d, m)
  <2> SUFFICES ASSUME NEW m \in 1..n PROVE {j \in EndsAt(d, n) : j <= 3 * m - d} = EndsAt(d, m)
    OBVIOUS
  <2>1. \A l \in 1..n : 3 * l - d <= 3 * m - d <=> l \in 1..m
    OBVIOUS
  <2>2. \A l \in 1..m : l \in 1..n
    OBVIOUS
  <2> QED BY <2>1, <2>2 DEF EndsAt
<1>2. \A m \in 1..n : Cardinality({j \in EndsAt(d, n) : j <= 3 * m - d}) = m
  <2>1. \A m \in 1..n : Cardinality(EndsAt(d, m)) = m
    BY EndsCount
  <2> QED BY <1>1, <2>1, Zenon
<1>3. 3 * k - d \in EndsAt(d, n)
  BY DEF EndsAt
<1>4. ASSUME NEW i \in EndsAt(d, n), Cardinality({j \in EndsAt(d, n) : j <= i}) = k
      PROVE  i = 3 * k - d
  <2>1. PICK m \in 1..n : i = 3 * m - d
    BY DEF EndsAt
  <2> QED BY <1>2, <1>4, <2>1
<1> QED BY <1>2, <1>3, <1>4 DEF NewLine

\* Where the newlines are in a piece that starts after d tokens of event p + 1
\* and ends before the newline of event p + n + 1.
LEMMA EndsOfPiece ==
  ASSUME NEW b \in 0..3 * Events, NEW a \in 0..b, NEW d \in {0, 2}, NEW p \in Nat, NEW n \in Nat,
         a = 3 * p + d, 3 * (p + n) <= b, b < 3 * (p + n) + 3
  PROVE  Ends(Piece(a, b)) = EndsAt(d, n)
<1> PICK t : t = Piece(a, b)
  OBVIOUS
<1>1. DOMAIN t = 1..(b - a) /\ \A i \in 1..(b - a) : t[i] = Stream[a + i] /\ a + i \in 1..3 * Events
  BY PieceIs, LenProperties, ZenonT(60)
<1>2. \A i \in 1..(b - a) : t[i].part = "line" <=> (a + i) % 3 = 0
  <2> TAKE i \in 1..(b - a)
  <2>1. PICK m \in 1..3 * Events : m = a + i
    BY <1>1, Zenon
  <2>2. t[i] = Stream[m]
    BY <1>1, <2>1
  <2>3. Stream[m].part = "line" <=> m % 3 = 0
    BY NewlinesAt
  <2> QED BY <2>1, <2>2, <2>3, Zenon
<1>3. ASSUME NEW i \in 1..(b - a)
      PROVE  (a + i) % 3 = 0 <=> \E k \in 1..n : i = 3 * k - d
  <2>1. ASSUME (a + i) % 3 = 0 PROVE \E k \in 1..n : i = 3 * k - d
    <3>1. PICK m : m = (a + i) \div 3
      OBVIOUS
    <3>2. m \in Nat /\ a + i = 3 * m
      BY <2>1, <3>1
    <3>3. m - p \in 1..n /\ i = 3 * (m - p) - d
      BY <3>2
    <3> QED BY <3>3
  <2>2. ASSUME NEW k \in 1..n, i = 3 * k - d PROVE (a + i) % 3 = 0
    <3>1. a + i = 3 * (p + k)
      BY <2>2
    <3> QED BY <3>1
  <2> QED BY <2>1, <2>2
<1>4. \A k \in 1..n : 3 * k - d \in 1..(b - a)
  OBVIOUS
<1>5. Ends(t) = {i \in 1..(b - a) : t[i].part = "line"}
  BY <1>1 DEF Ends
<1>6. {i \in 1..(b - a) : t[i].part = "line"} = {i \in 1..(b - a) : \E k \in 1..n : i = 3 * k - d}
  BY <1>2, <1>3
<1>7. {i \in 1..(b - a) : \E k \in 1..n : i = 3 * k - d} = EndsAt(d, n)
  BY <1>4 DEF EndsAt
<1> QED BY <1>5, <1>6, <1>7

---------------------------------------------------------------------------------
\* What JSON.parse takes for event e.
Object(e) == <<[event |-> e, part |-> "head"], [event |-> e, part |-> "tail"]>>

LEMMA ObjectIs ==
  ASSUME NEW e \in 1..Events
  PROVE  Piece(3 * e - 3, 3 * e - 1) = Object(e)
<1> PICK t : t = Piece(3 * e - 3, 3 * e - 1)
  OBVIOUS
<1>1. PICK a \in Nat, b \in 0..3 * Events :
        /\ a = 3 * e - 3 /\ b = 3 * e - 1 /\ b - a = 2 /\ a \in 0..b
        /\ a + 1 = 3 * e - 2 /\ a + 2 = 3 * e - 1
  BY EventsAssumption
<1>2. t \in Seq(Token) /\ Len(t) = b - a /\ \A i \in 1..(b - a) : t[i] = Stream[a + i]
  BY <1>1, PieceIs
<1>3. t \in Seq(Token) /\ Len(t) = 2 /\ t[1] = Stream[a + 1] /\ t[2] = Stream[a + 2]
  BY <1>1, <1>2
<1>4. t[1] = [event |-> e, part |-> "head"] /\ t[2] = [event |-> e, part |-> "tail"]
  BY <1>1, <1>3, StreamIs
<1>5. t = <<t[1], t[2]>>
  BY <1>3
<1> QED BY <1>4, <1>5 DEF Object

LEMMA ObjectTyped ==
  ASSUME NEW e \in 1..Events
  PROVE  /\ Object(e) \in Seq(Token) /\ Object(e) # <<>>
         /\ Head(Object(e)).part = "head" /\ Last(Object(e)).part = "tail"
BY DEF Object, Token, Last

LEMMA ObjectsDiffer ==
  ASSUME NEW e \in 1..Events, NEW o \in 1..Events, Object(e) = Object(o)
  PROVE  e = o
BY DEF Object

\* The lines of a text: what is left of the first one, then whole objects.
LEMMA LinesAre ==
  ASSUME NEW b \in 0..3 * Events, NEW a \in 0..b, NEW d \in {0, 2}, NEW p \in Nat, NEW n \in Nat,
         a = 3 * p + d, 3 * (p + n) <= b, b < 3 * (p + n) + 3
  PROVE  LinesOf(Piece(a, b)) = [k \in 1..n |-> IF d = 2 /\ k = 1 THEN <<>> ELSE Object(p + k)]
<1> DEFINE t == Piece(a, b)
           start(k) == IF k = 1 THEN 1 ELSE NewLine(t, k - 1) + 1
<1>1. Ends(t) = EndsAt(d, n) /\ Cardinality(Ends(t)) = n
  BY EndsOfPiece, EndsCount
<1>2. \A k \in 1..n : NewLine(t, k) = 3 * k - d
  BY <1>1, NewLineIs
<1>3. ASSUME NEW k \in 1..n
      PROVE  SubSeq(t, start(k), NewLine(t, k) - 1) = IF d = 2 /\ k = 1 THEN <<>> ELSE Object(p + k)
  <2>1. start(k) = IF k = 1 THEN 1 ELSE 3 * k - 2 - d
    <3>1. CASE k = 1
      BY <3>1
    <3>2. CASE k # 1
      <4>1. k - 1 \in 1..n
        BY <3>2
      <4>2. NewLine(t, k - 1) = 3 * (k - 1) - d
        BY <1>2, <4>1
      <4> QED BY <3>2, <4>2
    <3> QED BY <3>1, <3>2
  <2>2. CASE d = 2 /\ k = 1
    <3>1. start(k) = 1 /\ NewLine(t, k) - 1 = 0
      BY <1>2, <2>1, <2>2
    <3>2. SubSeq(t, 1, 0) = <<>>
      BY PieceIs, SubSeqProperties
    <3> QED BY <2>2, <3>1, <3>2, Zenon
  <2>3. CASE ~(d = 2 /\ k = 1)
    <3>1. start(k) = 3 * k - 2 - d
      BY <2>1, <2>3
    <3>2. NewLine(t, k) - 1 = 3 * k - d - 1
      BY <1>2
    <3>3. PICK m \in 1..(b - a + 1), e \in 1..Events :
            m = 3 * k - 2 - d /\ e = p + k /\ a + m - 1 = 3 * e - 3
      BY <2>3, EventsAssumption
    <3>4. PICK j \in (m - 1)..(b - a) : j = 3 * k - d - 1 /\ a + j = 3 * e - 1
      BY <2>3, <3>3
    <3>5. SubSeq(t, m, j) = Piece(a + m - 1, a + j)
      BY PieceOf
    <3>6. SubSeq(t, m, j) = Object(e)
      BY <3>4, <3>3, <3>5, ObjectIs, Zenon
    <3>7. SubSeq(t, start(k), NewLine(t, k) - 1) = Object(p + k)
      BY <3>1, <3>2, <3>4, <3>3, <3>6, Zenon
    <3> QED BY <2>3, <3>7, Zenon
  <2> QED BY <2>2, <2>3
<1>4. LinesOf(t) = [k \in 1..n |-> SubSeq(t, start(k), NewLine(t, k) - 1)]
  BY <1>1 DEF LinesOf
<1> HIDE DEF t, start
<1>5. [k \in 1..n |-> SubSeq(t, start(k), NewLine(t, k) - 1)] = [k \in 1..n |-> IF d = 2 /\ k = 1 THEN <<>> ELSE Object(p + k)]
  BY <1>3, Zenon
<1> QED BY <1>4, <1>5 DEF t

\* What is left after the last newline.
LEMMA RestIs ==
  ASSUME NEW b \in 0..3 * Events, NEW a \in 0..b, NEW d \in {0, 2}, NEW p \in Nat, NEW n \in Nat,
         a = 3 * p + d, 3 * (p + n) <= b, b < 3 * (p + n) + 3, d = 0 \/ n > 0
  PROVE  RestOf(Piece(a, b)) = Piece(3 * (p + n), b)
<1> PICK t : t = Piece(a, b)
  OBVIOUS
<1>1. Ends(t) = EndsAt(d, n)
  BY EndsOfPiece
<1>2. Len(t) = b - a
  BY PieceIs
<1>3. CASE n = 0
  <2>1. Ends(t) = {}
    BY <1>1, <1>3 DEF EndsAt
  <2>2. RestOf(t) = SubSeq(t, 1, b - a)
    BY <1>2, <2>1 DEF RestOf
  <2>3. PICK j \in 0..(b - a) : j = b - a /\ a + j = b /\ 1 \in 1..(b - a + 1) /\ 1 - 1 = 0
    OBVIOUS
  <2>4. SubSeq(t, 1, j) = Piece(a + 1 - 1, a + j)
    BY <2>3, PieceOf
  <2>5. a + 1 - 1 = 3 * (p + n)
    BY <1>3
  <2> QED BY <2>2, <2>3, <2>4, <2>5, Zenon
<1>4. CASE n > 0
  <2>1. Ends(t) # {} /\ (CHOOSE i \in Ends(t) : \A j \in Ends(t) : j <= i) = 3 * n - d
    BY <1>1, <1>4 DEF EndsAt
  <2>2. RestOf(t) = SubSeq(t, 1 + (3 * n - d), b - a)
    BY <1>2, <2>1, Zenon DEF RestOf
  <2>3. PICK m \in 1..(b - a + 1) : m = 1 + (3 * n - d) /\ a + m - 1 = 3 * (p + n)
    BY <1>4
  <2>4. PICK j \in (m - 1)..(b - a) : j = b - a /\ a + j = b
    BY <2>3
  <2>5. SubSeq(t, m, j) = Piece(a + m - 1, a + j)
    BY PieceOf
  <2> QED BY <2>2, <2>4, <2>5, <2>3, Zenon
<1> QED BY <1>3, <1>4

---------------------------------------------------------------------------------
(***************************************************************************)
(* The books of the readers: how many tokens have come, what the buffer is,*)
(* the lines the readers have left, and what was handed over.  A line is   *)
(* empty or the object of an event whose newline has come.  Of such an     *)
(* event, either it was handed over once, or it is one line of one reader. *)
(* A cut after an object and before its newline leaves one reader, which   *)
(* hands the object over and empties the buffer before more comes.         *)
(***************************************************************************)
Waits(r, e, i, k) == i \in DOMAIN r /\ k \in DOMAIN r[i].lines /\ r[i].lines[k] = Object(e)

LinesWhole(s, r) ==
  \A i \in DOMAIN r : \A k \in DOMAIN r[i].lines :
    r[i].lines[k] = <<>> \/ \E e \in 1..Events : 3 * e <= s /\ r[i].lines[k] = Object(e)
OnePlace(r) ==
  \A e \in 1..Events : \A i, k, j, l : Waits(r, e, i, k) /\ Waits(r, e, j, l) => i = j /\ k = l
HandedOrWaits(s, r, h) ==
  \A e \in 1..Events : 3 * e <= s => (h[e] = 0 <=> \E i, k : Waits(r, e, i, k))
NotYet(s, h) == \A e \in 1..Events : 3 * e > s + 1 => h[e] = 0
BetweenObjects(s, b, r) ==
  \A q \in Nat : s \in {3 * q, 3 * q + 1} =>
    b = Piece(3 * q, s) /\ \A i \in DOMAIN r : ~r[i].last
AfterObject(s, b, r, h) ==
  \A e \in 1..Events : s = 3 * e - 1 =>
    \/ b = Object(e) /\ h[e] = 0 /\ Len(r) = 1 /\ ~r[1].last
    \/ b = Object(e) /\ h[e] = 1 /\ Len(r) = 1 /\ r[1].last /\ r[1].lines = <<>>
    \/ b = <<>> /\ h[e] = 1 /\ r = <<>>

Books(s, b, r, h) ==
  /\ s \in 0..3 * Events /\ r \in Seq(Reader) /\ h \in [1..Events -> {0, 1}]
  /\ LinesWhole(s, r)
  /\ OnePlace(r)
  /\ HandedOrWaits(s, r, h)
  /\ NotYet(s, h)
  /\ BetweenObjects(s, b, r)
  /\ AfterObject(s, b, r, h)

IEvents == Books(sent, buffer, reader, handed) /\ buffer \in Seq(Token)

LEMMA RemoveAtIs ==
  ASSUME NEW r \in Seq(Reader), NEW i \in 1..Len(r)
  PROVE  /\ RemoveAt(r, i) \in Seq(Reader) /\ Len(RemoveAt(r, i)) = Len(r) - 1
         /\ \A j \in 1..(Len(r) - 1) : RemoveAt(r, i)[j] = r[IF j < i THEN j ELSE j + 1]
<1>1. PICK n \in Nat : n = Len(r)
  BY LenProperties
<1>2. PICK d \in Nat : d = i - 1 /\ i = d + 1 /\ d < n
  BY <1>1
<1>3. PICK u : u = SubSeq(r, 1, i - 1)
  OBVIOUS
<1>4. PICK v : v = SubSeq(r, i + 1, n)
  OBVIOUS
<1>5. \A j \in 1..n : r[j] \in Reader
  BY <1>1, ElementOfSeq
<1>6. u \in Seq(Reader) /\ Len(u) = d /\ \A j \in 1..d : u[j] = r[j]
  <2>1. /\ 1 \in Int /\ d \in Int /\ (IF 1 <= d THEN d - 1 + 1 ELSE 0) = d
        /\ d - 1 + 1 = d /\ \A j \in 1..d : 1 + j - 1 = j /\ j \in 1..n
    BY <1>2
  <2>2. u = SubSeq(r, 1, d)
    BY <1>2, <1>3, Zenon
  <2> QED BY <1>5, <2>1, <2>2, SubSeqProperties
<1>7. v \in Seq(Reader) /\ Len(v) = n - d - 1 /\ \A j \in 1..(n - d - 1) : v[j] = r[d + 1 + j]
  <2>1. /\ d + 2 \in Int /\ n \in Int /\ (IF d + 2 <= n THEN n - (d + 2) + 1 ELSE 0) = n - d - 1
        /\ n - (d + 2) + 1 = n - d - 1 /\ \A j \in 1..(n - d - 1) : (d + 2) + j - 1 = d + 1 + j
        /\ \A j \in (d + 2)..n : j \in 1..n
    BY <1>2
  <2>2. v = SubSeq(r, d + 2, n)
    <3>1. i + 1 = d + 2
      BY <1>2
    <3> QED BY <1>4, <3>1, Zenon
  <2> QED BY <1>5, <2>1, <2>2, SubSeqProperties
<1>8. /\ u \o v \in Seq(Reader) /\ Len(u \o v) = Len(u) + Len(v)
      /\ \A j \in 1..(Len(u) + Len(v)) : (u \o v)[j] = IF j <= Len(u) THEN u[j] ELSE v[j - Len(u)]
  BY <1>6, <1>7, ConcatProperties, ZenonT(60)
<1>9. Len(u) + Len(v) = n - 1
  <2>1. Len(u) = d /\ Len(v) = n - d - 1
    BY <1>6, <1>7
  <2>2. d + (n - d - 1) = n - 1
    BY <1>2
  <2> QED BY <2>1, <2>2, Zenon
<1>10. PICK w : w = u \o v
  OBVIOUS
<1>11. \A j \in 1..(n - 1) : w[j] = IF j <= d THEN u[j] ELSE v[j - d]
  BY <1>6, <1>8, <1>9, <1>10, Zenon
<1>12. ASSUME NEW j \in 1..(n - 1) PROVE w[j] = r[IF j < i THEN j ELSE j + 1]
  <2>1. CASE j <= d
    <3>1. j \in 1..d /\ j < i
      BY <1>2, <2>1
    <3> QED BY <1>6, <1>11, <2>1, <3>1, Zenon
  <2>2. CASE ~(j <= d)
    <3>1. PICK m \in 1..(n - d - 1) : m = j - d /\ d + 1 + m = j + 1 /\ ~(j < i)
      BY <1>2, <2>2
    <3>2. v[m] = r[d + 1 + m]
      BY <1>7
    <3> QED BY <1>11, <2>2, <3>1, <3>2, Zenon
  <2> QED BY <2>1, <2>2
<1>13. RemoveAt(r, i) = w
  BY <1>1, <1>3, <1>4, <1>10 DEF RemoveAt
<1>14. w \in Seq(Reader) /\ Len(w) = n - 1
  BY <1>8, <1>9, <1>10, Zenon
<1> QED BY <1>1, <1>12, <1>13, <1>14, Zenon

LEMMA RemoveAlone ==
  ASSUME NEW r \in Seq(Reader), Len(r) = 1
  PROVE  RemoveAt(r, 1) = <<>>
<1>1. PICK n : n = Len(r)
  OBVIOUS
<1>2. n = 1 /\ n - 1 = 0 /\ 1 \in 1..n
  BY <1>1
<1>3. PICK o : o = RemoveAt(r, 1)
  OBVIOUS
<1>4. o \in Seq(Reader) /\ Len(o) = n - 1
  BY <1>1, <1>2, <1>3, RemoveAtIs
<1>5. Len(o) = 0
  BY <1>2, <1>4
<1>6. o = <<>>
  BY <1>4, <1>5, EmptySeq
<1> QED BY <1>3, <1>6

\* Where the lines are when a reader is gone.
LEMMA PlacesWithout ==
  ASSUME NEW r \in Seq(Reader), NEW i \in 1..Len(r), NEW e, NEW j, NEW k
  PROVE  /\ Waits(RemoveAt(r, i), e, j, k) =>
              j \in 1..(Len(r) - 1) /\ Waits(r, e, IF j < i THEN j ELSE j + 1, k)
         /\ Waits(r, e, j, k) /\ j # i => Waits(RemoveAt(r, i), e, IF j < i THEN j ELSE j - 1, k)
<1> PICK n \in Nat : n = Len(r)
  BY LenProperties
<1> PICK o : o = RemoveAt(r, i)
  OBVIOUS
<1>1. /\ DOMAIN r = 1..n /\ DOMAIN o = 1..(n - 1)
      /\ \A m \in 1..(n - 1) : o[m] = r[IF m < i THEN m ELSE m + 1]
  <2>1. /\ o \in Seq(Reader) /\ Len(o) = n - 1
        /\ \A m \in 1..(n - 1) : o[m] = r[IF m < i THEN m ELSE m + 1]
    BY RemoveAtIs
  <2>2. DOMAIN o = 1..(n - 1)
    BY <2>1, LenProperties
  <2> QED BY <2>1, <2>2, LenProperties
<1>2. ASSUME Waits(o, e, j, k) PROVE j \in 1..(n - 1) /\ Waits(r, e, IF j < i THEN j ELSE j + 1, k)
  <2>1. j \in 1..(n - 1)
    BY <1>1, <1>2 DEF Waits
  <2>2. PICK m \in 1..n : m = IF j < i THEN j ELSE j + 1
    BY <2>1
  <2>3. o[j] = r[m]
    BY <1>1, <2>1, <2>2
  <2>4. Waits(r, e, m, k)
    BY <1>1, <1>2, <2>2, <2>3, Zenon DEF Waits
  <2> QED BY <2>1, <2>2, <2>4, Zenon
<1>3. ASSUME Waits(r, e, j, k), j # i PROVE Waits(o, e, IF j < i THEN j ELSE j - 1, k)
  <2>1. j \in 1..n
    BY <1>1, <1>3 DEF Waits
  <2>2. PICK m \in 1..(n - 1) : m = (IF j < i THEN j ELSE j - 1) /\ (IF m < i THEN m ELSE m + 1) = j
    <3>1. CASE j < i
      BY <3>1, <2>1
    <3>2. CASE j > i
      BY <3>2, <2>1
    <3> QED BY <3>1, <3>2, <1>3, <2>1
  <2>3. o[m] = r[j]
    BY <1>1, <2>2
  <2>4. Waits(o, e, m, k)
    BY <1>1, <1>3, <2>3, Zenon DEF Waits
  <2> QED BY <2>2, <2>4, Zenon
<1> QED BY <1>2, <1>3

\* Where they are when a reader comes.
LEMMA PlacesWith ==
  ASSUME NEW r \in Seq(Reader), NEW x \in Reader, NEW e, NEW j, NEW k
  PROVE  Waits(Append(r, x), e, j, k) <=>
           \/ Waits(r, e, j, k)
           \/ j = Len(r) + 1 /\ k \in DOMAIN x.lines /\ x.lines[k] = Object(e)
<1> PICK n \in Nat : n = Len(r)
  BY LenProperties
<1> PICK o : o = Append(r, x)
  OBVIOUS
<1>1. /\ DOMAIN r = 1..n /\ DOMAIN o = 1..(n + 1)
      /\ \A m \in 1..n : o[m] = r[m]
      /\ o[n + 1] = x
  BY AppendProperties, LenProperties
<1> QED BY <1>1 DEF Waits

---------------------------------------------------------------------------------
HandedTo(h, text) == [e \in 1..Events |-> IF text = Object(e) THEN h[e] + 1 ELSE h[e]]

\* A reader hands over the first of its lines.
LEMMA HandsLine ==
  ASSUME NEW s, NEW b, NEW r, NEW h, Books(s, b, r, h),
         NEW i \in 1..Len(r), ~r[i].last, r[i].lines # <<>>
  PROVE  Books(s, b, Append(RemoveAt(r, i), [lines |-> Tail(r[i].lines), last |-> FALSE]),
               HandedTo(h, Head(r[i].lines)))
<1>1. s \in 0..3 * Events /\ r \in Seq(Reader) /\ h \in [1..Events -> {0, 1}]
  BY DEF Books
<1>2. PICK n \in Nat : n = Len(r)
  BY <1>1, LenProperties
<1>3. DOMAIN r = 1..n /\ i \in 1..n /\ \A j \in 1..n : r[j] \in Reader
  BY <1>1, <1>2, LenProperties, ElementOfSeq
<1>4. PICK head : head = Head(r[i].lines)
  OBVIOUS
<1>5. PICK x : x = [lines |-> Tail(r[i].lines), last |-> FALSE]
  OBVIOUS
<1>6. PICK o : o = RemoveAt(r, i)
  OBVIOUS
<1>7. PICK z : z = Append(o, x)
  OBVIOUS
<1>8. PICK g : g = HandedTo(h, head)
  OBVIOUS
<1>9. PICK c \in Nat : /\ r[i].lines \in Seq(Seq(Token)) /\ Len(r[i].lines) = c + 1
                       /\ Tail(r[i].lines) \in Seq(Seq(Token)) /\ Len(Tail(r[i].lines)) = c
                       /\ \A k \in 1..c : Tail(r[i].lines)[k] = r[i].lines[k + 1]
  <2>1. r[i].lines \in Seq(Seq(Token))
    BY <1>3 DEF Reader
  <2>2. PICK l : l = r[i].lines
    OBVIOUS
  <2>3. PICK t : t = Tail(l)
    OBVIOUS
  <2>4. /\ l \in Seq(Seq(Token)) /\ l # <<>> /\ t \in Seq(Seq(Token)) /\ Len(t) = Len(l) - 1
        /\ \A k \in 1..Len(t) : t[k] = l[k + 1]
    BY <2>1, <2>2, <2>3, HeadTailProperties
  <2>5. Len(l) \in Nat \ {0}
    BY <2>4, EmptySeq
  <2>6. PICK c \in Nat : Len(l) = c + 1
    BY <2>5
  <2>7. Len(t) = c
    BY <2>4, <2>6
  <2> QED BY <2>2, <2>3, <2>4, <2>6, <2>7, Zenon
<1>10. /\ x \in Reader /\ ~x.last /\ DOMAIN x.lines = 1..c
       /\ \A k \in 1..c : x.lines[k] = r[i].lines[k + 1]
       /\ DOMAIN r[i].lines = 1..(c + 1) /\ head = r[i].lines[1]
  <2>1. x \in Reader /\ ~x.last /\ x.lines = Tail(r[i].lines)
    BY <1>5, <1>9 DEF Reader
  <2>2. DOMAIN x.lines = 1..c /\ DOMAIN r[i].lines = 1..(c + 1)
    BY <1>9, <2>1, LenProperties
  <2>3. head = r[i].lines[1]
    BY <1>4, <1>9
  <2> QED BY <1>9, <2>1, <2>2, <2>3, Zenon
<1>11. /\ o \in Seq(Reader) /\ Len(o) = n - 1 /\ DOMAIN o = 1..(n - 1)
       /\ \A j \in 1..(n - 1) : o[j] = r[IF j < i THEN j ELSE j + 1]
  <2>1. /\ o \in Seq(Reader) /\ Len(o) = n - 1
        /\ \A j \in 1..(n - 1) : o[j] = r[IF j < i THEN j ELSE j + 1]
    BY <1>1, <1>2, <1>6, RemoveAtIs
  <2>2. DOMAIN o = 1..(n - 1)
    BY <2>1, LenProperties
  <2> QED BY <2>1, <2>2
<1>12. /\ z \in Seq(Reader) /\ DOMAIN z = 1..n /\ Len(z) = n
       /\ \A j \in 1..(n - 1) : z[j] = r[IF j < i THEN j ELSE j + 1]
       /\ z[n] = x
  <2>1. n \in 1..n /\ (n - 1) + 1 = n
    BY <1>2, <1>3
  <2>2. /\ z \in Seq(Reader) /\ Len(z) = (n - 1) + 1
        /\ \A j \in 1..(n - 1) : z[j] = o[j]
        /\ z[(n - 1) + 1] = x
    BY <1>7, <1>10, <1>11, AppendProperties
  <2>3. z \in Seq(Reader) /\ Len(z) = n /\ z[n] = x
    BY <2>1, <2>2, Zenon
  <2>4. DOMAIN z = 1..n
    BY <2>3, LenProperties
  <2> QED BY <1>11, <2>2, <2>3, <2>4, Zenon
\* Where the lines are now, and where they were.
<1>13. \A e, j, k : Waits(z, e, j, k) =>
         \/ j \in 1..(n - 1) /\ Waits(r, e, IF j < i THEN j ELSE j + 1, k)
         \/ j = n /\ k \in 1..c /\ Waits(r, e, i, k + 1)
  <2> SUFFICES ASSUME NEW e, NEW j, NEW k, Waits(z, e, j, k)
               PROVE  \/ j \in 1..(n - 1) /\ Waits(r, e, IF j < i THEN j ELSE j + 1, k)
                      \/ j = n /\ k \in 1..c /\ Waits(r, e, i, k + 1)
    OBVIOUS
  <2>1. \/ Waits(o, e, j, k)
        \/ j = (n - 1) + 1 /\ k \in DOMAIN x.lines /\ x.lines[k] = Object(e)
    BY <1>7, <1>10, <1>11, PlacesWith
  <2>2. CASE Waits(o, e, j, k)
    BY <1>1, <1>2, <1>6, <2>2, PlacesWithout
  <2>3. CASE j = (n - 1) + 1 /\ k \in DOMAIN x.lines /\ x.lines[k] = Object(e)
    <3>1. j = n /\ k \in 1..c /\ k + 1 \in 1..(c + 1)
      BY <1>2, <1>10, <2>3
    <3>2. r[i].lines[k + 1] = Object(e)
      BY <1>10, <2>3, <3>1
    <3> QED BY <1>3, <1>10, <3>1, <3>2 DEF Waits
  <2> QED BY <2>1, <2>2, <2>3
<1>14. \A e, j, k : Waits(r, e, j, k) /\ ~(j = i /\ k = 1) => \E m, l : Waits(z, e, m, l)
  <2> SUFFICES ASSUME NEW e, NEW j, NEW k, Waits(r, e, j, k), ~(j = i /\ k = 1)
               PROVE  \E m, l : Waits(z, e, m, l)
    OBVIOUS
  <2>1. CASE j # i
    <3>1. Waits(o, e, IF j < i THEN j ELSE j - 1, k)
      BY <1>1, <1>6, <2>1, PlacesWithout
    <3>2. Waits(z, e, IF j < i THEN j ELSE j - 1, k)
      BY <1>7, <1>10, <1>11, <3>1, PlacesWith
    <3> QED BY <3>2
  <2>2. CASE j = i
    <3>1. k \in 1..(c + 1) /\ k # 1 /\ r[i].lines[k] = Object(e)
      BY <1>10, <2>2 DEF Waits
    <3>2. PICK l \in 1..c : k = l + 1
      BY <3>1
    <3>3. l \in DOMAIN x.lines /\ x.lines[l] = Object(e)
      BY <1>10, <3>1, <3>2
    <3>4. n \in DOMAIN z
      BY <1>2, <1>3, <1>12
    <3>5. Waits(z, e, n, l)
      BY <1>12, <3>3, <3>4, Zenon DEF Waits
    <3> QED BY <3>5
  <2> QED BY <2>1, <2>2
\* The line handed over was the one place of its event.
<1>15. \A e : head = Object(e) => Waits(r, e, i, 1)
  BY <1>3, <1>9, <1>10 DEF Waits
<1>16. \A e \in 1..Events : head = Object(e) => 3 * e <= s /\ h[e] = 0
  <2> SUFFICES ASSUME NEW e \in 1..Events, head = Object(e) PROVE 3 * e <= s /\ h[e] = 0
    OBVIOUS
  <2>1. Waits(r, e, i, 1)
    BY <1>15
  <2>2. head = <<>> \/ \E q \in 1..Events : 3 * q <= s /\ head = Object(q)
    BY <1>10, <2>1 DEF Books, LinesWhole, Waits
  <2>3. 3 * e <= s
    BY <2>2, ObjectTyped, ObjectsDiffer
  <2> QED BY <2>1, <2>3 DEF Books, HandedOrWaits
<1>17. g \in [1..Events -> {0, 1}] /\ \A e \in 1..Events : g[e] = IF head = Object(e) THEN 1 ELSE h[e]
  BY <1>1, <1>8, <1>16 DEF HandedTo
<1>18. LinesWhole(s, z)
  <2> SUFFICES ASSUME NEW j \in 1..n, NEW k \in DOMAIN z[j].lines
               PROVE  z[j].lines[k] = <<>> \/ \E e \in 1..Events : 3 * e <= s /\ z[j].lines[k] = Object(e)
    BY <1>12 DEF LinesWhole
  <2>1. \E m \in 1..n : \E l \in DOMAIN r[m].lines : z[j].lines[k] = r[m].lines[l]
    <3>1. CASE j = n
      <4>1. k \in 1..c /\ k + 1 \in 1..(c + 1) /\ z[j].lines[k] = r[i].lines[k + 1]
        BY <1>10, <1>12, <3>1, SMTT(30)
      <4> QED BY <1>3, <1>10, <4>1
    <3>2. CASE j # n
      <4>1. PICK m \in 1..n : j \in 1..(n - 1) /\ m = IF j < i THEN j ELSE j + 1
        BY <1>2, <3>2
      <4>2. z[j] = r[m]
        BY <1>12, <4>1, Zenon
      <4> QED BY <4>2
    <3> QED BY <3>1, <3>2
  <2> QED BY <1>3, <2>1 DEF Books, LinesWhole
<1>19. OnePlace(z)
  <2> SUFFICES ASSUME NEW e \in 1..Events, NEW j, NEW k, NEW m, NEW l, Waits(z, e, j, k), Waits(z, e, m, l)
               PROVE  j = m /\ k = l
    BY DEF OnePlace
  <2>1. \A a, a2, q, q2 : Waits(r, e, a, a2) /\ Waits(r, e, q, q2) => a = q /\ a2 = q2
    BY DEF Books, OnePlace
  <2>2. CASE j \in 1..(n - 1) /\ Waits(r, e, IF j < i THEN j ELSE j + 1, k)
    <3>1. CASE m \in 1..(n - 1) /\ Waits(r, e, IF m < i THEN m ELSE m + 1, l)
      <4>1. (IF j < i THEN j ELSE j + 1) = (IF m < i THEN m ELSE m + 1) /\ k = l
        BY <2>1, <2>2, <3>1, Zenon
      <4>2. j = m
        BY <1>2, <1>3, <2>2, <3>1, <4>1
      <4> QED BY <4>1, <4>2
    <3>2. CASE m = n /\ l \in 1..c /\ Waits(r, e, i, l + 1)
      <4>1. (IF j < i THEN j ELSE j + 1) = i
        BY <2>1, <2>2, <3>2, Zenon
      <4> QED BY <1>2, <1>3, <2>2, <4>1
    <3> QED BY <1>13, <3>1, <3>2
  <2>3. CASE j = n /\ k \in 1..c /\ Waits(r, e, i, k + 1)
    <3>1. CASE m \in 1..(n - 1) /\ Waits(r, e, IF m < i THEN m ELSE m + 1, l)
      <4>1. (IF m < i THEN m ELSE m + 1) = i
        BY <2>1, <2>3, <3>1, Zenon
      <4> QED BY <1>2, <1>3, <3>1, <4>1
    <3>2. CASE m = n /\ l \in 1..c /\ Waits(r, e, i, l + 1)
      <4>1. k + 1 = l + 1
        BY <2>1, <2>3, <3>2, Zenon
      <4>2. k = l
        BY <1>9, <2>3, <3>2, <4>1
      <4> QED BY <2>3, <3>2, <4>2
    <3> QED BY <1>13, <3>1, <3>2
  <2> QED BY <1>13, <2>2, <2>3
<1>20. HandedOrWaits(s, z, g)
  <2> SUFFICES ASSUME NEW e \in 1..Events, 3 * e <= s PROVE g[e] = 0 <=> \E j, k : Waits(z, e, j, k)
    BY DEF HandedOrWaits
  <2>1. h[e] = 0 <=> \E j, k : Waits(r, e, j, k)
    BY DEF Books, HandedOrWaits
  <2>2. CASE head = Object(e)
    <3>1. g[e] # 0
      BY <1>17, <2>2
    <3>2. Waits(r, e, i, 1)
      BY <1>15, <2>2
    <3>3. \A j, k : Waits(r, e, j, k) => j = i /\ k = 1
      BY <3>2 DEF Books, OnePlace
    <3>4. ASSUME NEW j, NEW k, Waits(z, e, j, k) PROVE FALSE
      <4>1. CASE j \in 1..(n - 1) /\ Waits(r, e, IF j < i THEN j ELSE j + 1, k)
        <5>1. (IF j < i THEN j ELSE j + 1) = i
          BY <3>3, <4>1, Zenon
        <5> QED BY <1>2, <1>3, <4>1, <5>1
      <4>2. CASE j = n /\ k \in 1..c /\ Waits(r, e, i, k + 1)
        <5>1. k + 1 = 1
          BY <3>3, <4>2, Zenon
        <5> QED BY <1>9, <4>2, <5>1
      <4> QED BY <1>13, <3>4, <4>1, <4>2
    <3> QED BY <3>1, <3>4
  <2>3. CASE head # Object(e)
    <3>1. g[e] = h[e]
      BY <1>17, <2>3
    <3>2. (\E j, k : Waits(z, e, j, k)) => \E j, k : Waits(r, e, j, k)
      BY <1>13
    <3>3. \A j, k : Waits(r, e, j, k) => ~(j = i /\ k = 1)
      BY <1>10, <2>3 DEF Waits
    <3>4. (\E j, k : Waits(r, e, j, k)) => \E j, k : Waits(z, e, j, k)
      BY <1>14, <3>3
    <3> QED BY <2>1, <3>1, <3>2, <3>4
  <2> QED BY <2>2, <2>3
<1>21. NotYet(s, g)
  <2> SUFFICES ASSUME NEW e \in 1..Events, 3 * e > s + 1 PROVE g[e] = 0
    BY DEF NotYet
  <2>1. h[e] = 0
    BY DEF Books, NotYet
  <2>2. ~(3 * e <= s)
    BY <1>1, EventsAssumption
  <2> QED BY <1>16, <1>17, <2>1, <2>2, Zenon
<1>22. \A j \in 1..n : z[j].last => \E m \in 1..n : r[m].last
  <2> SUFFICES ASSUME NEW j \in 1..n, z[j].last PROVE \E m \in 1..n : r[m].last
    OBVIOUS
  <2>1. j # n
    BY <1>10, <1>12
  <2>2. PICK m \in 1..n : j \in 1..(n - 1) /\ m = IF j < i THEN j ELSE j + 1
    BY <1>2, <2>1
  <2>3. z[j] = r[m]
    BY <1>12, <2>2, Zenon
  <2> QED BY <2>3
<1>23. BetweenObjects(s, b, z)
  <2> SUFFICES ASSUME NEW q \in Nat, s \in {3 * q, 3 * q + 1}
               PROVE  b = Piece(3 * q, s) /\ \A j \in 1..n : ~z[j].last
    BY <1>12 DEF BetweenObjects
  <2>1. b = Piece(3 * q, s) /\ \A j \in 1..n : ~r[j].last
    BY <1>3 DEF Books, BetweenObjects
  <2> QED BY <1>22, <2>1
<1>24. AfterObject(s, b, z, g)
  <2> SUFFICES ASSUME NEW e \in 1..Events, s = 3 * e - 1
               PROVE  b = Object(e) /\ g[e] = 0 /\ Len(z) = 1 /\ ~z[1].last
    BY DEF AfterObject
  <2>1. \/ b = Object(e) /\ h[e] = 0 /\ Len(r) = 1 /\ ~r[1].last
        \/ b = Object(e) /\ h[e] = 1 /\ Len(r) = 1 /\ r[1].last /\ r[1].lines = <<>>
        \/ b = <<>> /\ h[e] = 1 /\ r = <<>>
    BY DEF Books, AfterObject
  <2>2. b = Object(e) /\ h[e] = 0 /\ n = 1
    <3>1. CASE b = Object(e) /\ h[e] = 0 /\ Len(r) = 1 /\ ~r[1].last
      BY <1>2, <3>1
    <3>2. CASE b = Object(e) /\ h[e] = 1 /\ Len(r) = 1 /\ r[1].last /\ r[1].lines = <<>>
      BY <3>2
    <3>3. CASE r = <<>>
      BY <3>3
    <3> QED BY <2>1, <3>1, <3>2, <3>3
  <2>3. ~(3 * e <= s)
    BY EventsAssumption
  <2>4. g[e] = 0
    BY <1>16, <1>17, <2>2, <2>3, Zenon
  <2> QED BY <1>10, <1>12, <2>2, <2>4, Zenon
<1>25. Books(s, b, z, g)
  BY <1>1, <1>12, <1>17, <1>18, <1>19, <1>20, <1>21, <1>23, <1>24 DEF Books
<1> QED BY <1>4, <1>5, <1>6, <1>7, <1>8, <1>25, Zenon

\* Between two objects the buffer never looks complete.
LEMMA BetweenIsOpen ==
  ASSUME NEW s \in 0..3 * Events, NEW q \in Nat, s \in {3 * q, 3 * q + 1}
  PROVE  ~LooksComplete(Piece(3 * q, s))
<1> PICK t : t = Piece(3 * q, s)
  OBVIOUS
<1>1. PICK a \in 0..s : a = 3 * q
  BY EventsAssumption
<1>2. t \in Seq(Token) /\ Len(t) = s - a /\ \A j \in 1..(s - a) : t[j] = Stream[a + j]
  BY <1>1, PieceIs
<1>3. CASE s = 3 * q
  <2>1. Len(t) = 0
    BY <1>1, <1>2, <1>3
  <2>2. t = <<>>
    BY <1>2, <2>1, EmptySeq
  <2> QED BY <2>2 DEF LooksComplete
<1>4. CASE s = 3 * q + 1
  <2>1. PICK e \in 1..Events : 3 * e - 2 = a + 1
    <3>1. q + 1 \in 1..Events /\ 3 * (q + 1) - 2 = a + 1
      BY <1>1, <1>4, EventsAssumption
    <3> QED BY <3>1
  <2>2. s - a = 1
    BY <1>1, <1>4
  <2>3. Len(t) = 1 /\ t[1] = Stream[a + 1]
    <3>1. 1 \in 1..(s - a)
      BY <2>2
    <3> QED BY <1>2, <2>2, <3>1, Zenon
  <2>4. t[1].part = "head"
    <3>1. Stream[3 * e - 2] = [event |-> e, part |-> "head"]
      BY StreamIs
    <3>2. t[1] = [event |-> e, part |-> "head"]
      BY <2>1, <2>3, <3>1, Zenon
    <3> QED BY <3>2
  <2>5. Last(t) = t[1]
    BY <1>2, <2>3 DEF Last
  <2> QED BY <2>4, <2>5 DEF LooksComplete
<1> QED BY <1>3, <1>4

LEMMA Remainders ==
  ASSUME NEW s \in 0..3 * Events
  PROVE  \/ \E q \in Nat : s \in {3 * q, 3 * q + 1}
         \/ \E e \in 1..Events : s = 3 * e - 1
<1> PICK q \in Nat : 3 * q <= s /\ s < 3 * q + 3
  <2>1. s \div 3 \in Nat /\ 3 * (s \div 3) <= s /\ s < 3 * (s \div 3) + 3
    BY EventsAssumption
  <2> QED BY <2>1
<1>1. CASE s \in {3 * q, 3 * q + 1}
  BY <1>1
<1>2. CASE s = 3 * q + 2
  <2>1. q + 1 \in 1..Events /\ s = 3 * (q + 1) - 1
    BY <1>2, EventsAssumption
  <2> QED BY <2>1
<1> QED BY <1>1, <1>2, EventsAssumption

\* A reader without a line left hands over the buffer when that is an object.
LEMMA HandsRest ==
  ASSUME NEW s, NEW b, NEW r, NEW h, Books(s, b, r, h),
         NEW i \in 1..Len(r), ~r[i].last, r[i].lines = <<>>, LooksComplete(b)
  PROVE  Books(s, b, Append(RemoveAt(r, i), [lines |-> <<>>, last |-> TRUE]), HandedTo(h, b))
<1>1. s \in 0..3 * Events /\ r \in Seq(Reader) /\ h \in [1..Events -> {0, 1}]
  BY DEF Books
<1>2. PICK e \in 1..Events : s = 3 * e - 1
  <2>1. ASSUME NEW q \in Nat, s \in {3 * q, 3 * q + 1} PROVE FALSE
    BY <1>1, <2>1, BetweenIsOpen DEF Books, BetweenObjects
  <2> QED BY <1>1, <2>1, Remainders
<1>3. b = Object(e) /\ h[e] = 0 /\ Len(r) = 1 /\ i = 1
  <2>1. \/ b = Object(e) /\ h[e] = 0 /\ Len(r) = 1 /\ ~r[1].last
        \/ b = Object(e) /\ h[e] = 1 /\ Len(r) = 1 /\ r[1].last /\ r[1].lines = <<>>
        \/ b = <<>> /\ h[e] = 1 /\ r = <<>>
    BY <1>2 DEF Books, AfterObject
  <2>2. CASE b = Object(e) /\ h[e] = 0 /\ Len(r) = 1 /\ ~r[1].last
    BY <2>2
  <2>3. CASE b = Object(e) /\ h[e] = 1 /\ Len(r) = 1 /\ r[1].last /\ r[1].lines = <<>>
    BY <2>3
  <2>4. CASE r = <<>>
    BY <2>4
  <2> QED BY <2>1, <2>2, <2>3, <2>4
<1>4. PICK z : z = Append(RemoveAt(r, i), [lines |-> <<>>, last |-> TRUE])
  OBVIOUS
<1>5. /\ z \in Seq(Reader) /\ Len(z) = 1 /\ DOMAIN z = {1} /\ z[1] = [lines |-> <<>>, last |-> TRUE]
      /\ z[1].last /\ z[1].lines = <<>> /\ DOMAIN z[1].lines = {}
  <2>1. [lines |-> <<>>, last |-> TRUE] \in Reader
    BY DEF Reader
  <2>2. RemoveAt(r, i) = <<>>
    BY <1>1, <1>3, RemoveAlone
  <2>3. z = << [lines |-> <<>>, last |-> TRUE] >>
    BY <1>4, <2>2
  <2> QED BY <2>1, <2>3
<1>6. PICK g : g = HandedTo(h, b)
  OBVIOUS
<1>7. \A o \in 1..Events : g[o] = IF o = e THEN 1 ELSE h[o]
  BY <1>1, <1>3, <1>6, ObjectsDiffer DEF HandedTo
<1>8. g \in [1..Events -> {0, 1}]
  BY <1>1, <1>3, <1>6, <1>7 DEF HandedTo
<1>9. \A o, j, k : ~Waits(z, o, j, k) /\ ~Waits(r, o, j, k)
  <2>1. DOMAIN r = {1} /\ DOMAIN r[1].lines = {}
    BY <1>1, <1>3, LenProperties
  <2> QED BY <1>5, <2>1, Zenon DEF Waits
<1>10. LinesWhole(s, z) /\ OnePlace(z)
  BY <1>5, <1>9 DEF LinesWhole, OnePlace
<1>11. HandedOrWaits(s, z, g)
  <2> SUFFICES ASSUME NEW o \in 1..Events, 3 * o <= s PROVE g[o] # 0
    BY <1>9 DEF HandedOrWaits
  <2>1. h[o] # 0
    BY <1>9 DEF Books, HandedOrWaits
  <2> QED BY <1>7, <2>1
<1>12. NotYet(s, g)
  <2> SUFFICES ASSUME NEW o \in 1..Events, 3 * o > s + 1 PROVE g[o] = 0
    BY DEF NotYet
  <2>1. o # e
    BY <1>2, EventsAssumption
  <2>2. h[o] = 0
    BY DEF Books, NotYet
  <2> QED BY <1>7, <2>1, <2>2
<1>13. BetweenObjects(s, b, z)
  BY <1>2, EventsAssumption DEF BetweenObjects
<1>14. AfterObject(s, b, z, g)
  <2> SUFFICES ASSUME NEW o \in 1..Events, s = 3 * o - 1 PROVE b = Object(o) /\ g[o] = 1
    BY <1>5 DEF AfterObject
  <2>1. o = e
    BY <1>2, EventsAssumption
  <2> QED BY <1>3, <1>7, <2>1
<1>15. Books(s, b, z, g)
  BY <1>1, <1>5, <1>8, <1>10, <1>11, <1>12, <1>13, <1>14 DEF Books
<1> QED BY <1>4, <1>6, <1>15, Zenon

\* A reader without a line left is done when the buffer is no object.
LEMMA ReaderDone ==
  ASSUME NEW s, NEW b, NEW r, NEW h, Books(s, b, r, h),
         NEW i \in 1..Len(r), ~r[i].last, r[i].lines = <<>>, ~LooksComplete(b)
  PROVE  Books(s, b, RemoveAt(r, i), h)
<1>1. s \in 0..3 * Events /\ r \in Seq(Reader) /\ h \in [1..Events -> {0, 1}]
  BY DEF Books
<1>2. ASSUME NEW e \in 1..Events, s = 3 * e - 1 PROVE FALSE
  <2>1. \/ b = Object(e) /\ h[e] = 0 /\ Len(r) = 1 /\ ~r[1].last
        \/ b = Object(e) /\ h[e] = 1 /\ Len(r) = 1 /\ r[1].last /\ r[1].lines = <<>>
        \/ b = <<>> /\ h[e] = 1 /\ r = <<>>
    BY <1>2 DEF Books, AfterObject
  <2>2. LooksComplete(Object(e))
    BY ObjectTyped DEF LooksComplete
  <2>3. CASE b = Object(e)
    BY <2>2, <2>3
  <2>4. CASE r = <<>>
    BY <2>4
  <2> QED BY <2>1, <2>3, <2>4
<1>3. PICK n \in Nat : n = Len(r)
  BY <1>1, LenProperties
<1>4. PICK o : o = RemoveAt(r, i)
  OBVIOUS
<1>5. DOMAIN r = 1..n /\ i \in 1..n
  BY <1>1, <1>3, LenProperties
<1>6. /\ o \in Seq(Reader) /\ DOMAIN o = 1..(n - 1)
      /\ \A j \in 1..(n - 1) : \E m \in 1..n : o[j] = r[m]
  <2>1. /\ o \in Seq(Reader) /\ Len(o) = n - 1
        /\ \A j \in 1..(n - 1) : o[j] = r[IF j < i THEN j ELSE j + 1]
    BY <1>1, <1>3, <1>4, RemoveAtIs
  <2>2. DOMAIN o = 1..(n - 1)
    BY <2>1, LenProperties
  <2>3. ASSUME NEW j \in 1..(n - 1) PROVE \E m \in 1..n : o[j] = r[m]
    <3>1. PICK m \in 1..n : m = IF j < i THEN j ELSE j + 1
      BY <1>3
    <3> QED BY <2>1, <3>1, Zenon
  <2> QED BY <2>1, <2>2, <2>3
<1>7. \A e, j, k : Waits(o, e, j, k) => j \in 1..(n - 1) /\ Waits(r, e, IF j < i THEN j ELSE j + 1, k)
  BY <1>1, <1>3, <1>4, PlacesWithout
<1>8. \A e, j, k : Waits(r, e, j, k) => Waits(o, e, IF j < i THEN j ELSE j - 1, k)
  <2>1. \A e, k : ~Waits(r, e, i, k)
    BY DEF Waits
  <2> QED BY <1>1, <1>4, <2>1, PlacesWithout
<1>9. LinesWhole(s, o)
  <2> SUFFICES ASSUME NEW j \in 1..(n - 1), NEW k \in DOMAIN o[j].lines
               PROVE  o[j].lines[k] = <<>> \/ \E e \in 1..Events : 3 * e <= s /\ o[j].lines[k] = Object(e)
    BY <1>6 DEF LinesWhole
  <2>1. PICK m \in 1..n : o[j] = r[m]
    BY <1>6
  <2>2. m \in DOMAIN r /\ k \in DOMAIN r[m].lines
    BY <1>5, <2>1
  <2>3. r[m].lines[k] = <<>> \/ \E e \in 1..Events : 3 * e <= s /\ r[m].lines[k] = Object(e)
    BY <2>2 DEF Books, LinesWhole
  <2> QED BY <2>1, <2>3, Zenon
<1>10. OnePlace(o)
  <2> SUFFICES ASSUME NEW e \in 1..Events, NEW j, NEW k, NEW m, NEW l, Waits(o, e, j, k), Waits(o, e, m, l)
               PROVE  j = m /\ k = l
    BY DEF OnePlace
  <2>1. \A a, a2, q, q2 : Waits(r, e, a, a2) /\ Waits(r, e, q, q2) => a = q /\ a2 = q2
    BY DEF Books, OnePlace
  <2>2. j \in 1..(n - 1) /\ Waits(r, e, IF j < i THEN j ELSE j + 1, k)
    BY <1>7
  <2>3. m \in 1..(n - 1) /\ Waits(r, e, IF m < i THEN m ELSE m + 1, l)
    BY <1>7
  <2>4. (IF j < i THEN j ELSE j + 1) = (IF m < i THEN m ELSE m + 1) /\ k = l
    BY <2>1, <2>2, <2>3, Zenon
  <2>5. j = m
    BY <1>3, <1>5, <2>2, <2>3, <2>4
  <2> QED BY <2>4, <2>5
<1>11. HandedOrWaits(s, o, h)
  BY <1>7, <1>8 DEF Books, HandedOrWaits
<1>12. BetweenObjects(s, b, o)
  BY <1>5, <1>6 DEF Books, BetweenObjects
<1>13. AfterObject(s, b, o, h)
  BY <1>2 DEF AfterObject
<1>14. Books(s, b, o, h)
  BY <1>6, <1>9, <1>10, <1>11, <1>12, <1>13 DEF Books
<1> QED BY <1>4, <1>14, Zenon

\* A reader that handed over the buffer empties it.
LEMMA Empties ==
  ASSUME NEW s, NEW b, NEW r, NEW h, Books(s, b, r, h), NEW i \in 1..Len(r), r[i].last
  PROVE  Books(s, <<>>, RemoveAt(r, i), h)
<1>1. s \in 0..3 * Events /\ r \in Seq(Reader) /\ h \in [1..Events -> {0, 1}]
  BY DEF Books
<1>2. i \in DOMAIN r
  BY <1>1, LenProperties
<1>3. PICK e \in 1..Events : s = 3 * e - 1
  <2>1. \A q \in Nat : s \notin {3 * q, 3 * q + 1}
    BY <1>2 DEF Books, BetweenObjects
  <2> QED BY <1>1, <2>1, Remainders
<1>4. h[e] = 1 /\ Len(r) = 1 /\ i = 1 /\ r[1].lines = <<>>
  <2>1. \/ b = Object(e) /\ h[e] = 0 /\ Len(r) = 1 /\ ~r[1].last
        \/ b = Object(e) /\ h[e] = 1 /\ Len(r) = 1 /\ r[1].last /\ r[1].lines = <<>>
        \/ b = <<>> /\ h[e] = 1 /\ r = <<>>
    BY <1>3 DEF Books, AfterObject
  <2>2. CASE b = Object(e) /\ h[e] = 0 /\ Len(r) = 1 /\ ~r[1].last
    BY <2>2
  <2>3. CASE b = Object(e) /\ h[e] = 1 /\ Len(r) = 1 /\ r[1].last /\ r[1].lines = <<>>
    BY <2>3
  <2>4. CASE r = <<>>
    BY <2>4
  <2> QED BY <2>1, <2>2, <2>3, <2>4
<1>5. RemoveAt(r, i) = <<>>
  BY <1>1, <1>4, RemoveAlone
<1>6. \A o, j, k : ~Waits(r, o, j, k) /\ ~Waits(<<>>, o, j, k)
  <2>1. DOMAIN r = {1} /\ DOMAIN r[1].lines = {}
    BY <1>1, <1>4, LenProperties
  <2> QED BY <2>1 DEF Waits
<1>7. LinesWhole(s, <<>>) /\ OnePlace(<<>>) /\ HandedOrWaits(s, <<>>, h)
  BY <1>6 DEF LinesWhole, OnePlace, HandedOrWaits, Books
<1>8. BetweenObjects(s, <<>>, <<>>)
  BY <1>3, EventsAssumption DEF BetweenObjects
<1>9. AfterObject(s, <<>>, <<>>, h)
  <2> SUFFICES ASSUME NEW o \in 1..Events, s = 3 * o - 1 PROVE h[o] = 1
    BY DEF AfterObject
  <2>1. o = e
    BY <1>3, EventsAssumption
  <2> QED BY <1>4, <2>1
<1>10. Books(s, <<>>, <<>>, h)
  BY <1>7, <1>8, <1>9 DEF Books
<1> QED BY <1>5, <1>10

\* A chunk brings a reader with its lines.  A line of it that is an object is
\* that of an event whose newline comes with this chunk.
LEMMA Arrives ==
  ASSUME NEW s, NEW b, NEW r, NEW h, Books(s, b, r, h), NEW f \in (s + 1)..3 * Events,
         EndsOpen(s) \/ EndsOpen(f) => r = <<>>
  PROVE  LET text == b \o Piece(s, f) IN
         /\ Books(f, RestOf(text), Append(r, [lines |-> LinesOf(text), last |-> FALSE]), h)
         /\ RestOf(text) \in Seq(Token)
<1>1. s \in 0..3 * Events /\ r \in Seq(Reader) /\ h \in [1..Events -> {0, 1}] /\ f \in 0..3 * Events
  BY EventsAssumption DEF Books
<1>2. PICK t : t = b \o Piece(s, f)
  OBVIOUS
<1>3. \A e \in 1..Events : s = 3 * e - 1 => b = <<>> /\ h[e] = 1 /\ r = <<>>
  <2> SUFFICES ASSUME NEW e \in 1..Events, s = 3 * e - 1 PROVE b = <<>> /\ h[e] = 1 /\ r = <<>>
    OBVIOUS
  <2>1. Stream[s] = [event |-> e, part |-> "tail"]
    BY StreamIs, Zenon
  <2>2. Stream[s].part = "tail"
    BY <2>1
  <2>3. s > 0
    BY EventsAssumption
  <2>4. r = <<>>
    BY <2>2, <2>3 DEF EndsOpen
  <2>5. Len(r) # 1
    BY <2>4
  <2> QED BY <2>4, <2>5 DEF Books, AfterObject
\* The text is a piece of the stream, d tokens after the start of event p + 1.
<1>4. \E p \in Nat, d \in {0, 2}, a \in 0..f :
        /\ a = 3 * p + d /\ t = Piece(a, f)
        /\ d = 0 => s \in {3 * p, 3 * p + 1}
        /\ d = 2 => s = 3 * p + 2 /\ p + 1 \in 1..Events
  <2>1. CASE \E q \in Nat : s \in {3 * q, 3 * q + 1}
    <3>1. PICK q \in Nat : s \in {3 * q, 3 * q + 1}
      BY <2>1
    <3>2. b = Piece(3 * q, s)
      BY <3>1 DEF Books, BetweenObjects
    <3>3. PICK a \in 0..s : a = 3 * q
      BY <1>1, <3>1, EventsAssumption
    <3>4. s \in 0..f
      BY <1>1, EventsAssumption
    <3>5. Piece(a, s) \o Piece(s, f) = Piece(a, f)
      BY <1>1, <3>4, PiecesJoin
    <3>6. t = Piece(a, f)
      BY <1>2, <3>2, <3>3, <3>5, Zenon
    <3>7. a \in 0..f /\ a = 3 * q + 0
      BY <1>1, <3>3, <3>4, EventsAssumption
    <3> QED BY <3>1, <3>6, <3>7
  <2>2. CASE \E e \in 1..Events : s = 3 * e - 1
    <3>1. PICK e \in 1..Events : s = 3 * e - 1
      BY <2>2
    <3>2. b = <<>>
      BY <1>3, <3>1
    <3>3. s \in 0..f
      BY <1>1, EventsAssumption
    <3>4. Piece(s, f) \in Seq(Token)
      BY <1>1, <3>3, PieceIs
    <3>5. t = Piece(s, f)
      BY <1>2, <3>2, <3>4, ConcatEmptySeq
    <3>6. PICK p \in Nat : p = e - 1 /\ s = 3 * p + 2 /\ p + 1 = e
      BY <3>1, EventsAssumption
    <3> QED BY <3>3, <3>5, <3>6
  <2> QED BY <1>1, <2>1, <2>2, Remainders
<1>5. PICK p \in Nat, d \in {0, 2}, a \in 0..f :
        /\ a = 3 * p + d /\ t = Piece(a, f)
        /\ d = 0 => s \in {3 * p, 3 * p + 1}
        /\ d = 2 => s = 3 * p + 2 /\ p + 1 \in 1..Events
  BY <1>4
<1>6. PICK n \in Nat : 3 * (p + n) <= f /\ f < 3 * (p + n) + 3 /\ (d = 0 \/ n > 0)
  <2>1. PICK m \in Nat : 3 * m <= f /\ f < 3 * m + 3
    <3>1. f \div 3 \in Nat /\ 3 * (f \div 3) <= f /\ f < 3 * (f \div 3) + 3
      BY <1>1, EventsAssumption
    <3> QED BY <3>1
  <2>2. s \in Int /\ f \in Int /\ f > s /\ s >= 3 * p /\ (d = 2 => s = 3 * p + 2)
    BY <1>1, <1>5, EventsAssumption
  <2>3. m - p \in Nat /\ p + (m - p) = m /\ (d = 2 => m - p > 0)
    BY <2>1, <2>2
  <2> QED BY <2>1, <2>3
<1>7. p + n <= Events
  BY <1>1, <1>6, EventsAssumption
<1>8. RestOf(t) = Piece(3 * (p + n), f)
  BY <1>1, <1>5, <1>6, RestIs, ZenonT(60)
<1>9. LinesOf(t) = [k \in 1..n |-> IF d = 2 /\ k = 1 THEN <<>> ELSE Object(p + k)]
  <2>1. f \in 0..3 * Events /\ a = 3 * p + d /\ 3 * (p + n) <= f /\ f < 3 * (p + n) + 3
    BY <1>1, <1>5, <1>6
  <2>2. LinesOf(Piece(a, f)) = [k \in 1..n |-> IF d = 2 /\ k = 1 THEN <<>> ELSE Object(p + k)]
    BY <2>1, LinesAre, SMTT(30)
  <2> QED BY <1>5, <2>2, Zenon
<1>10. PICK x : x = [lines |-> LinesOf(t), last |-> FALSE]
  OBVIOUS
<1>11. /\ DOMAIN x.lines = 1..n /\ ~x.last
       /\ \A k \in 1..n : x.lines[k] = IF d = 2 /\ k = 1 THEN <<>> ELSE Object(p + k)
  <2>1. x.lines = LinesOf(t) /\ ~x.last
    BY <1>10
  <2> QED BY <1>9, <2>1
<1>12. \A k \in 1..n : p + k \in 1..Events
  BY <1>7, EventsAssumption
<1>13. x \in Reader
  <2>1. \A k \in 1..n : (IF d = 2 /\ k = 1 THEN <<>> ELSE Object(p + k)) \in Seq(Token)
    BY <1>12, ObjectTyped
  <2>2. LinesOf(t) \in Seq(Seq(Token))
    BY <1>9, <2>1, IsASeq
  <2> QED BY <1>10, <2>2 DEF Reader
<1>14. PICK z : z = Append(r, x)
  OBVIOUS
<1>15. PICK c \in Nat : c = Len(r)
  BY <1>1, LenProperties
<1>16. /\ DOMAIN r = 1..c /\ z \in Seq(Reader) /\ DOMAIN z = 1..(c + 1) /\ Len(z) = c + 1
       /\ z[c + 1] = x
       /\ \A j \in 1..c : z[j] = r[j]
  <2>1. DOMAIN r = 1..c
    BY <1>1, <1>15, LenProperties
  <2>2. /\ z \in Seq(Reader) /\ Len(z) = c + 1 /\ z[c + 1] = x
        /\ \A j \in 1..c : z[j] = r[j]
    BY <1>1, <1>13, <1>14, <1>15, AppendProperties
  <2>3. DOMAIN z = 1..(c + 1)
    BY <2>2, LenProperties
  <2> QED BY <2>1, <2>2, <2>3
\* The events before are those whose newline had come; those of the chunk wait.
<1>17. \A e \in 1..Events : 3 * e <= s <=> e <= p
  <2> SUFFICES ASSUME NEW e \in 1..Events PROVE 3 * e <= s <=> e <= p
    OBVIOUS
  <2>1. s \in {3 * p, 3 * p + 1, 3 * p + 2}
    BY <1>5
  <2> QED BY <2>1, EventsAssumption
<1>18. \A e \in 1..Events : 3 * e <= f <=> e <= p + n
  BY <1>1, <1>6, EventsAssumption
<1>19. \A e \in 1..Events, k \in 1..n :
         x.lines[k] = Object(e) <=> e = p + k /\ ~(d = 2 /\ k = 1)
  <2> SUFFICES ASSUME NEW e \in 1..Events, NEW k \in 1..n
               PROVE  x.lines[k] = Object(e) <=> e = p + k /\ ~(d = 2 /\ k = 1)
    OBVIOUS
  <2>1. CASE d = 2 /\ k = 1
    BY <1>11, <2>1, ObjectTyped
  <2>2. CASE ~(d = 2 /\ k = 1)
    <3>1. x.lines[k] = Object(p + k)
      BY <1>11, <2>2, Zenon
    <3>2. p + k \in 1..Events
      BY <1>12
    <3>3. Object(p + k) = Object(e) => p + k = e
      BY <3>2, ObjectsDiffer
    <3> QED BY <2>2, <3>1, <3>3
  <2> QED BY <2>1, <2>2
<1>20. \A e \in 1..Events : \A j, k : Waits(r, e, j, k) => e <= p /\ j \in 1..c
  <2> SUFFICES ASSUME NEW e \in 1..Events, NEW j, NEW k, Waits(r, e, j, k) PROVE e <= p /\ j \in 1..c
    OBVIOUS
  <2>1. r[j].lines[k] = <<>> \/ \E o \in 1..Events : 3 * o <= s /\ r[j].lines[k] = Object(o)
    BY DEF Books, LinesWhole, Waits
  <2>2. r[j].lines[k] = Object(e) /\ j \in 1..c
    BY <1>16 DEF Waits
  <2>3. 3 * e <= s
    BY <2>1, <2>2, ObjectTyped, ObjectsDiffer
  <2> QED BY <1>17, <2>2, <2>3
<1>21. \A e \in 1..Events : \A j, k :
         Waits(z, e, j, k) <=>
           \/ Waits(r, e, j, k)
           \/ j = c + 1 /\ k \in 1..n /\ e = p + k /\ ~(d = 2 /\ k = 1)
  <2> SUFFICES ASSUME NEW e \in 1..Events, NEW j, NEW k
               PROVE  Waits(z, e, j, k) <=>
                        \/ Waits(r, e, j, k)
                        \/ j = c + 1 /\ k \in 1..n /\ e = p + k /\ ~(d = 2 /\ k = 1)
    OBVIOUS
  <2>1. Waits(z, e, j, k) <=>
          \/ Waits(r, e, j, k)
          \/ j = c + 1 /\ k \in 1..n /\ x.lines[k] = Object(e)
    BY <1>1, <1>11, <1>13, <1>14, <1>15, PlacesWith
  <2> QED BY <1>19, <2>1
<1>22. LinesWhole(f, z)
  <2> SUFFICES ASSUME NEW j \in 1..(c + 1), NEW k \in DOMAIN z[j].lines
               PROVE  z[j].lines[k] = <<>> \/ \E e \in 1..Events : 3 * e <= f /\ z[j].lines[k] = Object(e)
    BY <1>16 DEF LinesWhole
  <2>1. CASE j = c + 1
    <3>1. k \in 1..n /\ z[j].lines[k] = x.lines[k]
      BY <1>11, <1>16, <2>1
    <3>2. p + k \in 1..Events /\ p + k <= p + n
      <4>1. p + k \in 1..Events
        BY <1>12, <3>1
      <4>2. k \in 1..n
        BY <3>1
      <4> QED BY <4>1, <4>2
    <3>3. 3 * (p + k) <= f
      BY <1>18, <3>2
    <3>4. x.lines[k] = <<>> \/ x.lines[k] = Object(p + k)
      BY <1>11, <3>1
    <3> QED BY <3>1, <3>2, <3>3, <3>4, Zenon
  <2>2. CASE j # c + 1
    <3>1. j \in 1..c
      BY <1>15, <2>2
    <3>2. j \in DOMAIN r /\ z[j] = r[j]
      BY <1>16, <3>1
    <3>3. r[j].lines[k] = <<>> \/ \E e \in 1..Events : 3 * e <= s /\ r[j].lines[k] = Object(e)
      BY <3>2 DEF Books, LinesWhole
    <3>4. \A e \in 1..Events : 3 * e <= s => 3 * e <= f
      BY <1>1, EventsAssumption
    <3> QED BY <3>2, <3>3, <3>4
  <2> QED BY <2>1, <2>2
<1>23. OnePlace(z)
  <2> SUFFICES ASSUME NEW e \in 1..Events, NEW j, NEW k, NEW m, NEW l, Waits(z, e, j, k), Waits(z, e, m, l)
               PROVE  j = m /\ k = l
    BY DEF OnePlace
  <2>1. CASE Waits(r, e, j, k)
    <3>1. e <= p
      BY <1>20, <2>1
    <3>2. \A i \in 1..n : e # p + i
      BY <3>1
    <3>3. Waits(r, e, m, l)
      BY <1>21, <3>2
    <3> QED BY <2>1, <3>3 DEF Books, OnePlace
  <2>2. CASE j = c + 1 /\ k \in 1..n /\ e = p + k
    <3>1. ~(e <= p)
      BY <2>2
    <3>2. m = c + 1 /\ l \in 1..n /\ e = p + l
      BY <1>20, <1>21, <3>1
    <3> QED BY <2>2, <3>2
  <2> QED BY <1>21, <2>1, <2>2
<1>24. HandedOrWaits(f, z, h)
  <2> SUFFICES ASSUME NEW e \in 1..Events, 3 * e <= f
               PROVE  h[e] = 0 <=> \E j, k : Waits(z, e, j, k)
    BY DEF HandedOrWaits
  <2>1. e <= p + n
    BY <1>18
  <2>2. CASE e <= p
    <3>1. h[e] = 0 <=> \E j, k : Waits(r, e, j, k)
      BY <1>17, <2>2 DEF Books, HandedOrWaits
    <3>2. \A i \in 1..n : e # p + i
      BY <2>2
    <3>3. \A j, k : Waits(z, e, j, k) <=> Waits(r, e, j, k)
      BY <1>21, <3>2
    <3> QED BY <3>1, <3>3
  <2>3. CASE ~(e <= p)
    <3>1. PICK k \in 1..n : e = p + k
      <4>1. e - p \in 1..n /\ e = p + (e - p)
        BY <2>1, <2>3
      <4> QED BY <4>1
    <3>2. CASE d = 2 /\ k = 1
      <4>1. s = 3 * e - 1
        BY <1>5, <3>1, <3>2
      <4>2. h[e] = 1
        BY <1>3, <4>1
      <4>3. ASSUME NEW j, NEW l, Waits(z, e, j, l) PROVE FALSE
        <5>1. l \in 1..n /\ e = p + l /\ ~(d = 2 /\ l = 1)
          BY <1>20, <1>21, <2>3, <4>3
        <5> QED BY <3>1, <3>2, <5>1
      <4> QED BY <4>2, <4>3
    <3>3. CASE ~(d = 2 /\ k = 1)
      <4>1. Waits(z, e, c + 1, k)
        BY <1>21, <3>1, <3>3
      <4>2. 3 * e > s + 1
        <5>1. d = 0 => s <= 3 * p + 1 /\ s \in Int
          BY <1>5
        <5>2. d = 2 => s = 3 * p + 2 /\ e >= p + 2
          BY <1>5, <3>1, <3>3
        <5> QED BY <3>1, <5>1, <5>2
      <4>3. h[e] = 0
        BY <4>2 DEF Books, NotYet
      <4> QED BY <4>1, <4>3
    <3> QED BY <3>2, <3>3
  <2> QED BY <2>2, <2>3
<1>25. NotYet(f, h)
  <2> SUFFICES ASSUME NEW e \in 1..Events, 3 * e > f + 1 PROVE h[e] = 0
    BY DEF NotYet
  <2>1. 3 * e > s + 1
    BY <1>1, EventsAssumption
  <2> QED BY <2>1 DEF Books, NotYet
<1>26. BetweenObjects(f, Piece(3 * (p + n), f), z)
  <2> SUFFICES ASSUME NEW q \in Nat, f \in {3 * q, 3 * q + 1}
               PROVE  q = p + n /\ \A j \in 1..(c + 1) : ~z[j].last
    BY <1>16 DEF BetweenObjects
  <2>1. q = p + n
    BY <1>6
  <2>2. \A j \in 1..c : ~r[j].last
    <3>1. CASE d = 0
      BY <1>5, <1>16, <3>1 DEF Books, BetweenObjects
    <3>2. CASE d = 2
      <4>1. p + 1 \in 1..Events /\ s = 3 * (p + 1) - 1
        BY <1>5, <3>2
      <4>2. r = <<>>
        BY <1>3, <4>1
      <4>3. c = 0
        BY <1>15, <4>2
      <4> QED BY <4>3
    <3> QED BY <3>1, <3>2
  <2>3. \A j \in 1..(c + 1) : j = c + 1 \/ j \in 1..c
    BY <1>15
  <2> QED BY <1>11, <1>16, <2>1, <2>2, <2>3
<1>27. AfterObject(f, Piece(3 * (p + n), f), z, h)
  <2> SUFFICES ASSUME NEW e \in 1..Events, f = 3 * e - 1
               PROVE  Piece(3 * (p + n), f) = Object(e) /\ h[e] = 0 /\ Len(z) = 1 /\ ~z[1].last
    BY DEF AfterObject
  <2>1. 3 * (p + n) = 3 * e - 3
    BY <1>6
  <2>2. Piece(3 * e - 3, 3 * e - 1) = Object(e)
    BY ObjectIs
  <2>3. 3 * e > s + 1
    BY <1>1, EventsAssumption
  <2>4. h[e] = 0
    BY <2>3 DEF Books, NotYet
  <2>5. EndsOpen(f)
    <3>1. Stream[f] = [event |-> e, part |-> "tail"]
      BY StreamIs, Zenon
    <3>2. Stream[f].part = "tail"
      BY <3>1
    <3>3. f > 0
      BY EventsAssumption
    <3> QED BY <3>2, <3>3 DEF EndsOpen
  <2>6. c = 0
    <3>1. r = <<>>
      BY <2>5
    <3> QED BY <1>15, <3>1
  <2>7. Len(z) = 1 /\ z[1] = x
    BY <1>16, <2>6
  <2> QED BY <1>11, <2>1, <2>2, <2>4, <2>7, Zenon
<1>28. Books(f, Piece(3 * (p + n), f), z, h)
  BY <1>1, <1>16, <1>22, <1>23, <1>24, <1>25, <1>26, <1>27 DEF Books
<1>29. Piece(3 * (p + n), f) \in Seq(Token)
  <2>1. PICK m \in 0..f : m = 3 * (p + n)
    BY <1>1, <1>6, EventsAssumption
  <2>2. Piece(m, f) \in Seq(Token)
    BY <1>1, PieceIs
  <2> QED BY <2>1, <2>2
<1> QED BY <1>2, <1>8, <1>10, <1>14, <1>28, <1>29, Zenon

---------------------------------------------------------------------------------
LEMMA ParsesObject == \A text : \A e \in 1..Events : e \in ParsedAs(text) <=> text = Object(e)
BY DEF ParsedAs, Object

\* A reader that goes on, as the one that is taken out and what comes of it.
LEMMA GoesOn ==
  ASSUME NEW s, NEW b, NEW r, Books(s, b, r, handed), NEW i \in 1..Len(r), ~r[i].last,
         GoOn(RemoveAt(r, i), r[i].lines, b)
  PROVE  Books(s, b, reader', handed')
<1>1. \A text : HandOver(text) = HandedTo(handed, text)
  BY ParsesObject DEF HandOver, HandedTo
<1>2. CASE r[i].lines # <<>>
  <2>1. /\ handed' = HandedTo(handed, Head(r[i].lines))
        /\ reader' = Append(RemoveAt(r, i), [lines |-> Tail(r[i].lines), last |-> FALSE])
    BY <1>1, <1>2 DEF GoOn
  <2>2. Books(s, b, Append(RemoveAt(r, i), [lines |-> Tail(r[i].lines), last |-> FALSE]),
              HandedTo(handed, Head(r[i].lines)))
    BY <1>2, HandsLine
  <2> QED BY <2>1, <2>2, Zenon
<1>3. CASE r[i].lines = <<>> /\ LooksComplete(b)
  <2>1. /\ handed' = HandedTo(handed, b)
        /\ reader' = Append(RemoveAt(r, i), [lines |-> <<>>, last |-> TRUE])
    BY <1>1, <1>3 DEF GoOn
  <2>2. Books(s, b, Append(RemoveAt(r, i), [lines |-> <<>>, last |-> TRUE]), HandedTo(handed, b))
    BY <1>3, HandsRest
  <2> QED BY <2>1, <2>2, Zenon
<1>4. CASE r[i].lines = <<>> /\ ~LooksComplete(b)
  <2>1. handed' = handed /\ reader' = RemoveAt(r, i)
    BY <1>4 DEF GoOn
  <2>2. Books(s, b, RemoveAt(r, i), handed)
    BY <1>4, ReaderDone
  <2> QED BY <2>1, <2>2, Zenon
<1> QED BY <1>2, <1>3, <1>4

LEMMA RemoveLast ==
  ASSUME NEW r \in Seq(Reader), NEW x \in Reader
  PROVE  RemoveAt(Append(r, x), Len(r) + 1) = r
<1>1. PICK n \in Nat : n = Len(r)
  BY LenProperties
<1>2. PICK z : z = Append(r, x)
  OBVIOUS
<1>3. /\ z \in Seq(Reader) /\ Len(z) = n + 1
      /\ \A j \in 1..n : z[j] = r[j]
  BY <1>1, <1>2, AppendProperties
<1>4. PICK m \in Nat : m = n + 1 /\ m \in 1..m /\ m - 1 = n
  OBVIOUS
<1>5. PICK o : o = RemoveAt(z, m)
  OBVIOUS
<1>6. /\ o \in Seq(Reader) /\ Len(o) = m - 1
      /\ \A j \in 1..(m - 1) : o[j] = z[IF j < m THEN j ELSE j + 1]
  BY <1>3, <1>4, <1>5, RemoveAtIs, ZenonT(60)
<1>7. \A j \in 1..n : o[j] = r[j]
  <2>1. \A j \in 1..n : j < m
    BY <1>4
  <2> QED BY <1>3, <1>4, <1>6, <2>1, Zenon
<1>8. Len(o) = n
  BY <1>4, <1>6
<1>9. o = r
  BY <1>1, <1>6, <1>7, <1>8, SeqEqual
<1> QED BY <1>1, <1>2, <1>4, <1>5, <1>9, Zenon

LEMMA EventsStart == EventsInit => IEvents
<1> SUFFICES ASSUME EventsInit PROVE IEvents
  OBVIOUS
<1>1. sent = 0 /\ buffer = <<>> /\ reader = <<>> /\ handed \in [1..Events -> {0, 1}]
      /\ \A e \in 1..Events : handed[e] = 0
  BY DEF EventsInit
<1>2. 0 \in 0..3 * Events /\ <<>> \in Seq(Reader) /\ <<>> \in Seq(Token)
  BY EventsAssumption
<1>3. \A e, j, k : ~Waits(<<>>, e, j, k)
  BY DEF Waits
<1>4. \A e \in 1..Events : ~(3 * e <= 0) /\ 0 # 3 * e - 1
  BY EventsAssumption
<1>5. BetweenObjects(0, <<>>, <<>>)
  <2> SUFFICES ASSUME NEW q \in Nat, 0 \in {3 * q, 3 * q + 1} PROVE Piece(3 * q, 0) = <<>>
    BY DEF BetweenObjects
  <2>1. 3 * q = 0 /\ 0 \in 0..0 /\ 0 - 0 = 0
    OBVIOUS
  <2>2. PICK a \in 0..0 : a = 3 * q /\ 0 - a = 0
    BY <2>1, Zenon
  <2>3. Piece(a, 0) \in Seq(Token) /\ Len(Piece(a, 0)) = 0
    BY <1>2, <2>2, PieceIs
  <2>4. Piece(a, 0) = <<>>
    BY <2>3, EmptySeq
  <2> QED BY <2>2, <2>4
<1>6. LinesWhole(0, <<>>) /\ OnePlace(<<>>)
  BY <1>3 DEF LinesWhole, OnePlace
<1>7. HandedOrWaits(0, <<>>, handed) /\ NotYet(0, handed) /\ AfterObject(0, <<>>, <<>>, handed)
  BY <1>1, <1>4 DEF HandedOrWaits, NotYet, AfterObject
<1>8. Books(0, <<>>, <<>>, handed)
  BY <1>1, <1>2, <1>5, <1>6, <1>7 DEF Books
<1> QED BY <1>1, <1>2, <1>8, Zenon DEF IEvents

LEMMA EventsStep == Patient /\ IEvents /\ [EventsNext]_eventVars => IEvents'
<1> SUFFICES ASSUME Patient, IEvents, [EventsNext]_eventVars PROVE IEvents'
  OBVIOUS
<1>1. Books(sent, buffer, reader, handed) /\ buffer \in Seq(Token)
  BY DEF IEvents
<1>2. reader \in Seq(Reader) /\ sent \in 0..3 * Events
  BY <1>1 DEF Books
<1>3. ASSUME Chunk PROVE IEvents'
  <2>1. PICK f \in (sent + 1)..3 * Events :
          LET text == buffer \o SubSeq(Stream, sent + 1, f) IN
          /\ (Patient /\ (EndsOpen(sent) \/ EndsOpen(f))) => reader = <<>>
          /\ sent' = f
          /\ buffer' = RestOf(text)
          /\ GoOn(reader, LinesOf(text), RestOf(text))
    BY <1>3 DEF Chunk
  <2>2. PICK t : t = buffer \o Piece(sent, f)
    OBVIOUS
  <2>3. PICK x : x = [lines |-> LinesOf(t), last |-> FALSE]
    OBVIOUS
  <2>4. PICK z : z = Append(reader, x)
    OBVIOUS
  <2>5. /\ EndsOpen(sent) \/ EndsOpen(f) => reader = <<>>
        /\ sent' = f /\ buffer' = RestOf(t) /\ GoOn(reader, LinesOf(t), RestOf(t))
    BY <2>1, <2>2 DEF Piece
  <2>6. Books(f, RestOf(t), z, handed) /\ RestOf(t) \in Seq(Token)
    BY <1>1, <2>2, <2>3, <2>4, <2>5, Arrives
  <2>7. PICK m : m = Len(reader) + 1
    OBVIOUS
  <2>8. x.lines = LinesOf(t) /\ ~x.last
    BY <2>3
  <2>9. x \in Reader /\ m \in 1..Len(z) /\ z[m] = x
    <3>1. z \in Seq(Reader)
      BY <2>6 DEF Books
    <3>2. PICK n \in Nat : n = Len(reader) /\ m = n + 1
      BY <1>2, <2>7, LenProperties
    <3>3. Len(z) = n + 1 /\ z[n + 1] = x
      BY <1>2, <2>4, <3>2
    <3>4. m \in 1..Len(z) /\ z[m] = x
      BY <3>2, <3>3
    <3> QED BY <3>1, <3>4, ElementOfSeq
  <2>10. RemoveAt(z, m) = reader
    BY <1>2, <2>4, <2>7, <2>9, RemoveLast, Zenon
  <2>11. GoOn(RemoveAt(z, m), z[m].lines, RestOf(t))
    BY <2>5, <2>8, <2>9, <2>10, Zenon
  <2>12. Books(f, RestOf(t), reader', handed')
    BY <2>6, <2>8, <2>9, <2>11, GoesOn
  <2> QED BY <2>5, <2>6, <2>12, Zenon DEF IEvents
<1>4. ASSUME Resume PROVE IEvents'
  <2>1. PICK i \in DOMAIN reader :
          /\ UNCHANGED sent
          /\ \/ /\ reader[i].last
                /\ buffer' = <<>> /\ reader' = RemoveAt(reader, i)
                /\ UNCHANGED handed
             \/ /\ ~reader[i].last
                /\ GoOn(RemoveAt(reader, i), reader[i].lines, buffer)
                /\ UNCHANGED buffer
    BY <1>4 DEF Resume
  <2>2. i \in 1..Len(reader)
    BY <1>2, LenProperties
  <2>3. CASE /\ reader[i].last
             /\ buffer' = <<>> /\ reader' = RemoveAt(reader, i)
             /\ UNCHANGED handed
    <3>1. Books(sent, <<>>, RemoveAt(reader, i), handed)
      BY <1>1, <2>2, <2>3, Empties
    <3>2. <<>> \in Seq(Token)
      OBVIOUS
    <3> QED BY <2>1, <2>3, <3>1, <3>2, Zenon DEF IEvents
  <2>4. CASE /\ ~reader[i].last
             /\ GoOn(RemoveAt(reader, i), reader[i].lines, buffer)
             /\ UNCHANGED buffer
    <3>1. Books(sent, buffer, reader', handed')
      BY <1>1, <2>2, <2>4, GoesOn
    <3> QED BY <1>1, <2>1, <2>4, <3>1, Zenon DEF IEvents
  <2> QED BY <2>1, <2>3, <2>4
<1>5. CASE UNCHANGED eventVars
  BY <1>1, <1>5 DEF IEvents, eventVars, Books, LinesWhole, OnePlace, HandedOrWaits, NotYet,
                    BetweenObjects, AfterObject
<1> QED BY <1>3, <1>4, <1>5 DEF EventsNext

(***************************************************************************)
(* HandedOnce holds of every stream and every cut of it, when a chunk that *)
(* ends between an object and its newline meets no other: an event is      *)
(* processed once, however long its processing takes.                      *)
(***************************************************************************)
THEOREM HandsOnce == Patient /\ EventsSpec => []HandedOnce
<1> SUFFICES ASSUME Patient PROVE EventsSpec => []HandedOnce
  OBVIOUS
<1>1. IEvents /\ [EventsNext]_eventVars => IEvents'
  BY EventsStep
<1>2. IEvents => HandedOnce
  <2> SUFFICES ASSUME IEvents PROVE HandedOnce
    OBVIOUS
  <2>1. /\ handed \in [1..Events -> {0, 1}]
        /\ HandedOrWaits(sent, reader, handed)
    BY DEF IEvents, Books
  <2>2. \A e \in 1..Events : handed[e] <= 1
    BY <2>1
  <2>3. ASSUME sent = 3 * Events, reader = <<>>, NEW e \in 1..Events PROVE handed[e] = 1
    <3>1. 3 * e <= sent
      BY <2>3, EventsAssumption
    <3>2. \A j, k : ~Waits(reader, e, j, k)
      BY <2>3 DEF Waits
    <3>3. handed[e] # 0
      BY <2>1, <3>1, <3>2 DEF HandedOrWaits
    <3> QED BY <2>1, <3>3
  <2> QED BY <2>2, <2>3 DEF HandedOnce
<1> QED BY <1>2, <1>1, EventsStart, PTL DEF EventsSpec
=================================================================================
