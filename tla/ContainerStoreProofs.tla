------------------------- MODULE ContainerStoreProofs -------------------------
(***************************************************************************)
(* What holds of the container store for any number of containers, watch   *)
(* runs, Docker events and calls in flight.                                *)
(***************************************************************************)
EXTENDS ContainerStore, SequenceTheorems, TLAPS

\* The documents the store's operations build are documents.
LEMMA DocType ==
  ASSUME NEW d \in Doc
  PROVE  /\ \A s \in Status : [d EXCEPT !.status = s] \in Doc
         /\ \A s \in Security : [d EXCEPT !.security = s] \in Doc
         /\ \A r \in Result : [d EXCEPT !.result = r] \in Doc
         /\ \A p \in Policy : [d EXCEPT !.updatePolicy = p] \in Doc
         /\ [d EXCEPT !.updatePolicy = None] \in Doc
         /\ [d EXCEPT !.error = TRUE] \in Doc
         /\ [d EXCEPT !.result = None, !.error = FALSE] \in Doc
  BY DEF Doc

\* What the collection holds of an id is a document.
LEMMA GetType ==
  ASSUME db \in [Id -> Seq(Doc)], NEW i \in Id, Stored(i)
  PROVE  Get(i) \in Doc
  BY HeadTailProperties DEF Stored, Get

LEMMA MergedType ==
  ASSUME db \in [Id -> Seq(Doc)], NEW i \in Id, NEW d \in Doc
  PROVE  Merged(i, d) \in Doc
<1>1. CASE Stored(i)
  <2>1. Get(i) \in Doc  BY <1>1, GetType
  <2>2. QED  BY <1>1, <2>1, ZenonT(60) DEF Merged, Doc, HasOwn, Get0
<1>2. CASE ~Stored(i)
  BY <1>2 DEF Merged, Doc, HasOwn
<1>3. QED  BY <1>1, <1>2

LEMMA WithCachedType ==
  ASSUME cache \in [Name -> Security \cup {None}], NEW i \in Id, NEW d \in Doc
  PROVE  WithCached(i, d) \in Doc
  BY NameAssumption DEF WithCached, TakesCached, Falsy, Doc

\* Each store operation keeps the collection, the cache and the history typed.
LEMMA UpdateType ==
  ASSUME StoreOK, NEW i \in Id, NEW d \in Doc, UpdateContainer(i, d)
  PROVE  StoreOK'
<1>1. Merged(i, d) \in Doc  BY MergedType DEF StoreOK
<1>2. <<Merged(i, d)>> \in Seq(Doc)  BY <1>1
<1>3. QED  BY <1>2 DEF StoreOK, UpdateContainer

LEMMA InsertType ==
  ASSUME StoreOK, NEW i \in Id, NEW d \in Doc, InsertContainer(i, d)
  PROVE  StoreOK'
<1>1. WithCached(i, d) \in Doc  BY WithCachedType DEF StoreOK
<1>2. Append(db[i], WithCached(i, d)) \in Seq(Doc)
  BY <1>1, AppendProperties DEF StoreOK
<1>3. QED  BY <1>2, NameAssumption DEF StoreOK, InsertContainer

LEMMA DeleteType ==
  ASSUME StoreOK, NEW i \in Id, DeleteContainer(i)
  PROVE  StoreOK'
  BY DEF StoreOK, DeleteContainer

-------------------------------------------------------------------------------
\* Type correctness needs one fact about the order of a prune: the copy it
\* writes back is still there when the inspect answers.
Typed == TypeOK /\ AskedIsOld

LEMMA InitTyped == Init => Typed
  BY CurrentAssumption DEF Init, Typed, TypeOK, WorldOK, StoreOK, WatchOK, TaskOK,
     HistoryOK, AskedIsOld, Nothing

LEMMA WorldTyped == ASSUME Typed, World  PROVE Typed'
<1> USE DEF Typed, TypeOK
<1>1. ASSUME UNCHANGED <<storeVars, watchVars, history>>
      PROVE  StoreOK' /\ WatchOK' /\ HistoryOK' /\ AskedIsOld'
  BY <1>1 DEF StoreOK, WatchOK, HistoryOK, AskedIsOld, storeVars, watchVars, history
<1>2. ASSUME NEW i \in Id, Create(i) \/ Remove(i)  PROVE Typed'
  <2>1. WorldOK'  BY <1>2 DEF Create, Remove, WorldOK, Status
  <2>2. TaskOK'  BY <1>2 DEF Create, Remove, TaskOK, taskVars
  <2>3. UNCHANGED <<storeVars, watchVars, history>>  BY <1>2 DEF Create, Remove
  <2>4. QED  BY <1>1, <2>1, <2>2, <2>3
<1>3. ASSUME NEW i \in Id, NEW s \in Status, Switch(i, s)  PROVE Typed'
  <2>1. WorldOK'  BY <1>3 DEF Switch, WorldOK
  <2>2. TaskOK'  BY <1>3 DEF Switch, Emit, TaskOK
  <2>3. UNCHANGED <<storeVars, watchVars, history>>  BY <1>3 DEF Switch
  <2>4. QED  BY <1>1, <2>1, <2>2, <2>3
<1>4. ASSUME NEW r \in Result, Publish(r)  PROVE Typed'
  <2>1. WorldOK'  BY <1>4 DEF Publish, WorldOK
  <2>2. TaskOK'  BY <1>4 DEF Publish, TaskOK, taskVars
  <2>3. UNCHANGED <<storeVars, watchVars, history>>  BY <1>4 DEF Publish
  <2>4. QED  BY <1>1, <2>1, <2>2, <2>3
<1>5. QED  BY <1>2, <1>3, <1>4 DEF World

LEMMA EventTyped == ASSUME Typed, NEW e \in Event, EventStep(e)  PROVE Typed'
<1> USE DEF Typed, TypeOK
<1>1. CASE InspectEvent(e)
  BY <1>1 DEF InspectEvent, Inspect, Exists, WorldOK, StoreOK, WatchOK, TaskOK,
     HistoryOK, AskedIsOld, dockerVars, storeVars, watchVars, history
<1>2. CASE ApplyEvent(e)
  <2>1. event[e].id \in Id /\ event[e].seen \in Status \cup {None, Error}
    BY <1>2 DEF ApplyEvent, TaskOK
  <2>2. StoreOK'
    <3>1. CASE UNCHANGED storeVars  BY <3>1 DEF StoreOK, storeVars
    <3>2. CASE ~UNCHANGED storeVars
      <4> DEFINE i == event[e].id
      <4>1. /\ Stored(i) /\ event[e].seen \in Status
            /\ UpdateContainer(i, [Get(i) EXCEPT !.status = event[e].seen])
        BY <1>2, <2>1, <3>2 DEF ApplyEvent
      <4>2. Get(i) \in Doc  BY <4>1, <2>1, GetType DEF StoreOK
      <4>3. [Get(i) EXCEPT !.status = event[e].seen] \in Doc
        BY <4>1, <4>2, DocType
      <4>4. QED  BY <4>1, <4>3, <2>1, UpdateType
    <3>3. QED  BY <3>1, <3>2
  <2>3. QED  BY <1>2, <2>2 DEF ApplyEvent, WorldOK, WatchOK, TaskOK, HistoryOK,
             AskedIsOld, dockerVars, watchVars, history
<1>3. QED  BY <1>1, <1>2 DEF EventStep

\* The steps of a watch run that leave the store alone.
LEMMA QuietWatchTyped ==
  ASSUME Typed, NEW w \in Watch,
         \/ StartWatch(w) \/ List(w) \/ ListFails(w) \/ GetOld(w)
         \/ StopWatch(w) \/ \E i \in Id : StartWatchOne(w, i) \/ PruneAsk(w, i)
                                         \/ Lookup(w, i)
  PROVE  Typed'
<1> USE DEF Typed, TypeOK, WorldOK, TaskOK, HistoryOK, StoreOK, AskedIsOld,
        dockerVars, storeVars, taskVars, history
<1>1. CASE StartWatch(w)  BY <1>1 DEF StartWatch, WatchOK
<1>2. CASE List(w)  BY <1>2 DEF List, WatchOK, Status
<1>3. CASE ListFails(w)  BY <1>3 DEF ListFails, WatchOK
<1>4. CASE GetOld(w)
  <2>1. \A i \in Id : Stored(i) => Get(i) \in Doc  BY GetType
  <2>2. WatchOK'  BY <1>4, <2>1 DEF GetOld, WatchOK
  <2>3. AskedIsOld'  BY <1>4 DEF GetOld, WatchOK
  <2>4. QED  BY <1>4, <2>2, <2>3 DEF GetOld
<1>5. CASE StopWatch(w)  BY <1>5 DEF StopWatch, WatchOK
<1>6. ASSUME NEW i \in Id, StartWatchOne(w, i)  PROVE Typed'
  <2>1. Get(i) \in Doc  BY <1>6, GetType DEF StartWatchOne
  <2>2. QED  BY <1>6, <2>1 DEF StartWatchOne, WatchOK
<1>7. ASSUME NEW i \in Id, PruneAsk(w, i)  PROVE Typed'
  BY <1>7 DEF PruneAsk, Inspect, Exists, WatchOK
<1>8. ASSUME NEW i \in Id, Lookup(w, i)  PROVE Typed'
  BY <1>8 DEF Lookup, WatchOK
<1>9. QED  BY <1>1, <1>2, <1>3, <1>4, <1>5, <1>6, <1>7, <1>8

LEMMA ReadStoreTyped == ASSUME Typed, NEW w \in Watch, ReadStore(w)
                        PROVE  Typed'
<1> USE DEF Typed, TypeOK
<1> DEFINE read(i, dropped) ==
      IF listed[w][i] = None \/ i \in dropped THEN None
      ELSE IF Stored(i) /\ ~Get(i).error THEN Get(i) ELSE Fresh(listed[w][i])
<1>1. PICK dropped \in SUBSET {i \in Id : ~Stored(i) \/ Get(i).error} :
        copy' = [copy EXCEPT ![w] = [i \in Id |-> read(i, dropped)]]
  BY DEF ReadStore
<1>2. ASSUME NEW i \in Id  PROVE read(i, dropped) \in Doc \cup {None}
  <2>1. CASE listed[w][i] = None  BY <2>1
  <2>2. CASE Stored(i)  
    <3>1. Get(i) \in Doc  BY <2>2, GetType DEF StoreOK
    <3>2. listed[w][i] # None => Fresh(listed[w][i]) \in Doc
      BY CurrentAssumption DEF WatchOK, Fresh, Doc
    <3>3. QED  BY <3>1, <3>2
  <2>3. CASE ~Stored(i)
    BY <2>3, CurrentAssumption DEF WatchOK, Fresh, Doc
  <2>4. QED  BY <2>1, <2>2, <2>3
<1>3. [i \in Id |-> read(i, dropped)] \in [Id -> Doc \cup {None}]  BY <1>2
<1> HIDE DEF read
<1>4. WatchOK'  BY <1>1, <1>3 DEF ReadStore, WatchOK, Nothing
<1>5. QED  BY <1>4 DEF ReadStore, AskedIsOld, WatchOK, WorldOK, StoreOK, TaskOK,
           HistoryOK, dockerVars, storeVars, taskVars, history

LEMMA PruneTyped == ASSUME Typed, NEW w \in Watch, PruneApply(w)  PROVE Typed'
<1> USE DEF Typed, TypeOK
<1> DEFINE i == asked[w].id
           s == asked[w].seen
<1>1. i \in Id /\ s \in Status \cup {Error} /\ old[w][i] \in Doc
  BY DEF PruneApply, WatchOK, AskedIsOld
<1>2. StoreOK'
  <2>1. CASE s = Error  BY <1>1, <2>1, DeleteType, SMTT(30) DEF PruneApply
  <2>2. CASE s # Error
    BY <1>1, <2>2, DocType, UpdateType DEF PruneApply
  <2>3. QED  BY <2>1, <2>2
<1>3. WatchOK'  BY <1>1 DEF PruneApply, WatchOK
<1>4. AskedIsOld'  BY DEF PruneApply, WatchOK, AskedIsOld
<1>5. QED  BY <1>2, <1>3, <1>4 DEF PruneApply, WorldOK, TaskOK, HistoryOK,
           dockerVars, taskVars, history

LEMMA StartChecksTyped == ASSUME Typed, NEW w \in Watch, StartChecks(w)
                          PROVE  Typed'
<1> USE DEF Typed, TypeOK
<1> DEFINE todo(i) == IF only[w] = None THEN copy[w][i]
                      ELSE IF i = only[w].id /\ copy[w][i] # None
                           THEN only[w].doc ELSE None
<1>1. ASSUME NEW i \in Id  PROVE Reset(todo(i)) \in Doc \cup {None}
  <2>1. todo(i) \in Doc \cup {None}  BY DEF WatchOK
  <2>2. QED  BY <2>1, DocType DEF Reset
<1>2. [i \in Id |-> Reset(todo(i))] \in [Id -> Doc \cup {None}]  BY <1>1
<1>3. copy' = [copy EXCEPT ![w] = [i \in Id |-> Reset(todo(i))]]
  <2>1. \A i \in Id : Reset([k \in Id |-> todo(k)][i]) = Reset(todo(i))
    OBVIOUS
  <2>2. QED  BY <2>1 DEF StartChecks
<1> HIDE DEF todo
<1>4. WatchOK'  BY <1>2, <1>3 DEF StartChecks, WatchOK
<1>5. AskedIsOld'  BY DEF StartChecks, AskedIsOld, WatchOK, Nothing
<1>6. QED  BY <1>4, <1>5 DEF StartChecks, WorldOK, StoreOK, TaskOK, HistoryOK,
           dockerVars, storeVars, taskVars, history

LEMMA ReportTyped ==
  ASSUME Typed, NEW w \in Watch, NEW i \in Id, Report(w, i)  PROVE Typed'
<1> USE DEF Typed, TypeOK
<1>1. copy[w][i] \in Doc /\ answer[w][i] \in Result \cup {Error}
  BY DEF Report, WatchOK
<1>2. Checked(w, i) \in Doc
  BY <1>1, DocType DEF Checked
<1>3. StoreOK'
  BY <1>2, UpdateType, InsertType DEF Report
<1>4. WatchOK'  BY DEF Report, WatchOK
<1>5. HistoryOK'
  <2>1. Notifies(w, i) => Checked(w, i).result \in Result
    <3>1. \A d \in Doc : HasUpdate(d) => d.result \in Result
      BY DEF HasUpdate, Doc
    <3>2. Notifies(w, i) => HasUpdate(StoredAs(w, i))
      BY DEF Notifies, UpdateAvailable
    <3>3. StoredAs(w, i) \in Doc /\ StoredAs(w, i).result = Checked(w, i).result
      <4>1. StoredAs(w, i) \in Doc
        BY <1>2, MergedType, WithCachedType DEF StoredAs, StoreOK
      <4>2. Merged(i, Checked(w, i)).result = Checked(w, i).result
        BY <1>2 DEF Merged, Doc
      <4>3. WithCached(i, Checked(w, i)).result = Checked(w, i).result
        BY <1>2 DEF WithCached, Doc
      <4>4. QED  BY <4>1, <4>2, <4>3 DEF StoredAs
    <3>4. HasUpdate(StoredAs(w, i)) => Checked(w, i).result \in Result
      BY <3>1, <3>3 DEF HasUpdate
    <3>5. QED  BY <3>2, <3>4
  <2>2. QED  BY <1>1, <2>1 DEF Report, HistoryOK
<1>6. QED  BY <1>3, <1>4, <1>5 DEF Report, AskedIsOld, WorldOK, TaskOK,
           dockerVars, taskVars

LEMMA ApiTyped == ASSUME Typed, Api  PROVE Typed'
<1> USE DEF Typed, TypeOK
<1>1. ASSUME NEW i \in Id, SkipCurrent(i)  PROVE Typed'
  <2> DEFINE p == (IF Falsy(Get(i).updatePolicy) THEN {}
                   ELSE Get(i).updatePolicy) \cup {Get(i).result}
  <2>1. Get(i) \in Doc  BY <1>1, GetType DEF SkipCurrent, StoreOK
  <2>2. p \in Policy
    BY <1>1, <2>1 DEF SkipCurrent, HasUpdate, Falsy, Doc, Policy
  <2>3. /\ UpdateContainer(i, [Get(i) EXCEPT !.updatePolicy = p])
        /\ skipped' = [skipped EXCEPT ![i] = @ \cup p]
    BY <1>1 DEF SkipCurrent
  <2> HIDE DEF p
  <2>4. StoreOK'  BY <2>1, <2>2, <2>3, DocType, UpdateType
  <2>5. HistoryOK'  BY <1>1, <2>2, <2>3 DEF SkipCurrent, HistoryOK, Policy
  <2>6. QED  BY <1>1, <2>4, <2>5 DEF SkipCurrent, WorldOK, WatchOK, TaskOK,
             AskedIsOld, dockerVars, watchVars, taskVars
<1>2. ASSUME NEW i \in Id, ClearPolicy(i)  PROVE Typed'
  <2>1. Get(i) \in Doc  BY <1>2, GetType DEF ClearPolicy, StoreOK
  <2>2. StoreOK'  BY <1>2, <2>1, DocType, UpdateType DEF ClearPolicy
  <2>3. QED  BY <1>2, <2>2 DEF ClearPolicy, WorldOK, WatchOK, TaskOK, HistoryOK,
             AskedIsOld, dockerVars, watchVars, taskVars, history
<1>3. ASSUME NEW i \in Id, DeleteCall(i)  PROVE Typed'
  <2>1. StoreOK'  BY <1>3, DeleteType DEF DeleteCall
  <2>2. QED  BY <1>3, <2>1 DEF DeleteCall, WorldOK, WatchOK, TaskOK, HistoryOK,
             AskedIsOld, dockerVars, watchVars, taskVars, history
<1>4. QED  BY <1>1, <1>2, <1>3 DEF Api

LEMMA JobTyped == ASSUME Typed, NEW j \in Job, JobStep(j)  PROVE Typed'
<1> USE DEF Typed, TypeOK
<1>1. ASSUME NEW k \in Calls \cap Slow, NEW i \in Id, StartJob(j, k, i)
      PROVE  Typed'
  <2>1. Get(i) \in Doc  BY <1>1, GetType DEF StartJob, StoreOK
  <2>2. TaskOK'  BY <1>1, <2>1 DEF StartJob, TaskOK
  <2>3. QED  BY <1>1, <2>2 DEF StartJob, WorldOK, StoreOK, WatchOK, HistoryOK,
             AskedIsOld, dockerVars, storeVars, watchVars, history
<1>2. ASSUME NEW s \in Security, FinishScan(j, s)  PROVE Typed'
  <2>1. job[j].id \in Id /\ job[j].doc \in Doc  BY <1>2 DEF FinishScan, TaskOK
  <2>2. StoreOK'  BY <1>2, <2>1, DocType, UpdateType DEF FinishScan
  <2>3. QED  BY <1>2, <2>2 DEF FinishScan, WorldOK, WatchOK, TaskOK, HistoryOK,
             AskedIsOld, dockerVars, watchVars, history
<1>3. ASSUME NEW s \in Security, FinishGate(j, s)  PROVE Typed'
  <2> DEFINE i == job[j].id
             d == IF Stored(i) THEN Get(i) ELSE job[j].doc
  <2>1. i \in Id /\ job[j].doc \in Doc  BY <1>3 DEF FinishGate, TaskOK
  <2>2. d \in Doc  BY <2>1, GetType DEF StoreOK
  <2>3. /\ db' = [db EXCEPT ![i] = <<Merged(i, [d EXCEPT !.security = s])>>]
        /\ cache' = [cache EXCEPT ![NameOf[i]] = s]
        /\ announced' = announced
    BY <1>3 DEF FinishGate
  <2> HIDE DEF i, d
  <2>4. Merged(i, [d EXCEPT !.security = s]) \in Doc
    BY <2>1, <2>2, DocType, MergedType DEF StoreOK
  <2>5. <<Merged(i, [d EXCEPT !.security = s])>> \in Seq(Doc)  BY <2>4
  <2>6. StoreOK'  BY <2>3, <2>5 DEF StoreOK
  <2>7. QED  BY <1>3, <2>6 DEF FinishGate, WorldOK, WatchOK, TaskOK, HistoryOK,
             AskedIsOld, dockerVars, watchVars, history
<1>4. ASSUME NEW s \in Status, ActionDone(j, s)  PROVE Typed'
  <2>1. job[j].id \in Id  BY <1>4 DEF ActionDone, TaskOK
  <2>2. TaskOK'
    <3>1. event' \in [Event -> [id : Id, seen : Status \cup {None, Error}]
                                \cup {None}]
      BY <1>4, <2>1 DEF ActionDone, Emit, TaskOK
    <3>2. job' = [job EXCEPT ![j].seen = s]  BY <1>4 DEF ActionDone
    <3>3. job[j] \in [kind : Slow, id : Id, doc : Doc, seen : Status \cup {None}]
      BY <1>4 DEF ActionDone, TaskOK
    <3>4. QED  BY <3>1, <3>2, <3>3 DEF TaskOK
  <2>3. WorldOK'  BY <1>4, <2>1 DEF ActionDone, WorldOK
  <2>4. QED  BY <1>4, <2>2, <2>3 DEF ActionDone, StoreOK, WatchOK, HistoryOK,
             AskedIsOld, storeVars, watchVars, history
<1>5. CASE FinishAction(j)
  <2>1. job[j].id \in Id /\ job[j].doc \in Doc /\ job[j].seen \in Status
    BY <1>5 DEF FinishAction, TaskOK
  <2>2. StoreOK'  BY <1>5, <2>1, DocType, UpdateType DEF FinishAction
  <2>3. QED  BY <1>5, <2>2 DEF FinishAction, WorldOK, WatchOK, TaskOK, HistoryOK,
             AskedIsOld, dockerVars, watchVars, history
<1>6. CASE JobFails(j)
  BY <1>6 DEF JobFails, WorldOK, StoreOK, WatchOK, TaskOK, HistoryOK, AskedIsOld,
     dockerVars, storeVars, watchVars, history
<1>7. QED  BY <1>1, <1>2, <1>3, <1>4, <1>5, <1>6 DEF JobStep

LEMMA StutterTyped == ASSUME Typed, UNCHANGED vars  PROVE Typed'
  BY DEF Typed, TypeOK, WorldOK, StoreOK, WatchOK, TaskOK, HistoryOK, AskedIsOld,
     vars, dockerVars, storeVars, watchVars, taskVars, history

LEMMA NextTyped == Typed /\ [Next]_vars => Typed'
<1> SUFFICES ASSUME Typed, [Next]_vars  PROVE Typed'  OBVIOUS
<1>1. ASSUME NEW w \in Watch, WatchNext(w)  PROVE Typed'
  BY <1>1, QuietWatchTyped, ReadStoreTyped, PruneTyped, StartChecksTyped,
     ReportTyped DEF WatchNext, WatchStep
<1>2. QED
  BY <1>1, WorldTyped, ApiTyped, EventTyped, JobTyped, StutterTyped DEF Next

\* Every variable keeps its type, and a prune its copy, in every behaviour:
\* in particular no operation of app/store/container.ts stores undefined or a
\* broken document, whatever tasks overlap.
THEOREM TypeCorrect == Spec => [](TypeOK /\ AskedIsOld)
<1>1. Spec => []Typed  BY InitTyped, NextTyped, PTL DEF Spec
<1>2. QED  BY <1>1 DEF Typed

-------------------------------------------------------------------------------
\* OneDocPerId is inductive: every write replaces the documents of its id, but
\* for the insertion of a report, which has just seen that there is none.
LEMMA WritesOneDoc ==
  ASSUME Typed, OneDocPerId, NEW i \in Id,
         \/ db' = db
         \/ db' = [db EXCEPT ![i] = <<>>]
         \/ \E d : db' = [db EXCEPT ![i] = <<d>>]
         \/ ~Stored(i) /\ \E d : db' = [db EXCEPT ![i] = Append(@, d)]
  PROVE  OneDocPerId'
<1>1. db \in [Id -> Seq(Doc)]  BY DEF Typed, TypeOK, StoreOK
<1>2. CASE db' = db  BY <1>2 DEF OneDocPerId
<1>3. CASE db' = [db EXCEPT ![i] = <<>>]  BY <1>1, <1>3 DEF OneDocPerId
<1>4. ASSUME NEW d, db' = [db EXCEPT ![i] = <<d>>]  PROVE OneDocPerId'
  BY <1>1, <1>4 DEF OneDocPerId
<1>5. ASSUME NEW d, ~Stored(i), db' = [db EXCEPT ![i] = Append(@, d)]
      PROVE  OneDocPerId'
  <2>1. <<>> \in Seq({d}) /\ Len(<<>>) = 0  BY EmptySeq
  <2>2. Len(Append(<<>>, d)) = 1  BY <2>1, AppendProperties
  <2>3. db[i] = <<>>  BY <1>5 DEF Stored
  <2>4. QED  BY <1>1, <1>5, <2>2, <2>3 DEF OneDocPerId
<1>6. QED  BY <1>2, <1>3, <1>4, <1>5

LEMMA InitOneDoc == Init => OneDocPerId
<1> SUFFICES ASSUME Init, NEW i \in Id  PROVE Len(db[i]) <= 1
  BY DEF OneDocPerId
<1>1. db[i] = <<>>  BY DEF Init
<1>2. Len(<<>>) = 0  BY EmptySeq
<1>3. QED  BY <1>1, <1>2

LEMMA NextOneDoc == Typed /\ OneDocPerId /\ [Next]_vars => OneDocPerId'
<1> SUFFICES ASSUME Typed, OneDocPerId, [Next]_vars  PROVE OneDocPerId'
  OBVIOUS
<1>1. ASSUME UNCHANGED db  PROVE OneDocPerId'  BY <1>1 DEF OneDocPerId
<1>2. CASE World
  BY <1>1, <1>2 DEF World, Create, Remove, Switch, Publish, storeVars
<1>3. CASE Api
  BY <1>3, WritesOneDoc DEF Api, SkipCurrent, ClearPolicy, DeleteCall,
     UpdateContainer, DeleteContainer
<1>4. ASSUME NEW e \in Event, EventStep(e)  PROVE OneDocPerId'
  <2>1. CASE InspectEvent(e)  BY <1>1, <2>1 DEF InspectEvent, storeVars
  <2>2. CASE ApplyEvent(e)
    <3>1. event[e].id \in Id  BY <2>2 DEF ApplyEvent, Typed, TypeOK, TaskOK
    <3>2. UNCHANGED db \/ \E d : db' = [db EXCEPT ![event[e].id] = <<d>>]
      BY <2>2 DEF ApplyEvent, UpdateContainer, storeVars
    <3>3. QED  BY <3>1, <3>2, WritesOneDoc
  <2>3. QED  BY <1>4, <2>1, <2>2 DEF EventStep
<1>5. ASSUME NEW w \in Watch, WatchNext(w)  PROVE OneDocPerId'
  <2>1. CASE PruneApply(w)
    <3>1. asked[w].id \in Id
      BY <2>1 DEF PruneApply, Typed, TypeOK, WatchOK
    <3>2. \/ db' = [db EXCEPT ![asked[w].id] = <<>>]
          \/ \E d : db' = [db EXCEPT ![asked[w].id] = <<d>>]
      BY <2>1 DEF PruneApply, UpdateContainer, DeleteContainer
    <3>3. QED  BY <3>1, <3>2, WritesOneDoc
  <2>2. ASSUME NEW i \in Id, Report(w, i)  PROVE OneDocPerId'
    BY <2>2, WritesOneDoc DEF Report, UpdateContainer, InsertContainer
  <2>3. CASE ~PruneApply(w) /\ ~\E i \in Id : Report(w, i)
    BY <1>1, <1>5, <2>3 DEF WatchNext, WatchStep, StartWatch, StartWatchOne,
       ListFails, List, ReadStore, GetOld, PruneAsk, Lookup, StartChecks,
       StopWatch, storeVars
  <2>4. QED  BY <2>1, <2>2, <2>3
<1>6. ASSUME NEW j \in Job, JobStep(j)  PROVE OneDocPerId'
  <2>1. job[j] # None => job[j].id \in Id  BY DEF Typed, TypeOK, TaskOK
  <2>2. \/ UNCHANGED db
        \/ job[j] # None /\ \E d : db' = [db EXCEPT ![job[j].id] = <<d>>]
    BY <1>6 DEF JobStep, StartJob, FinishScan, FinishGate, ActionDone,
       FinishAction, JobFails, UpdateContainer, storeVars
  <2>3. QED  BY <1>1, <2>1, <2>2, WritesOneDoc
<1>7. CASE UNCHANGED vars  BY <1>1, <1>7 DEF vars, storeVars
<1>8. QED  BY <1>2, <1>3, <1>4, <1>5, <1>6, <1>7 DEF Next

\* The collection never holds two documents of one container: no unique index
\* guards it, only the order of the code between two awaits.
THEOREM OneDocument == Spec => []OneDocPerId
<1>1. Typed /\ OneDocPerId /\ [Next]_vars => Typed' /\ OneDocPerId'
  BY NextTyped, NextOneDoc
<1>2. QED  BY <1>1, InitOneDoc, InitTyped, PTL DEF Spec

-------------------------------------------------------------------------------
(***************************************************************************)
(* NoUpdateLost.  The stored documents alone are not inductive: a task may *)
(* write back any copy it holds.  So every copy in flight is accounted     *)
(* for too: its update was notified or skipped, and what its policy skips  *)
(* a policy skipped.  Both histories only grow, so a copy stays accounted  *)
(* for however long its task waits.                                        *)
(***************************************************************************)
Known(n, k, d) == /\ HasUpdate(d) => d.result \in n \cup k
                  /\ UserPolicy(d) \subseteq k
KnownTo(i, d) == Known(notified[i], skipped[i], d)

DbKnown   == \A i \in Id : Stored(i) => KnownTo(i, Get(i))
CopyKnown == \A w \in Watch, i \in Id :
                copy[w][i] # None => KnownTo(i, copy[w][i])
OldKnown  == \A w \in Watch, i \in Id :
                old[w][i] # None => KnownTo(i, old[w][i])
OnlyKnown == \A w \in Watch : only[w] # None => KnownTo(only[w].id, only[w].doc)
JobKnown  == \A j \in Job : job[j] # None => KnownTo(job[j].id, job[j].doc)
AllKnown  == DbKnown /\ CopyKnown /\ OldKnown /\ OnlyKnown /\ JobKnown

Grows == \A i \in Id : notified[i] \subseteq notified'[i] /\ skipped[i] \subseteq skipped'[i]

\* What was known stays known.
LEMMA StillKnown ==
  ASSUME Grows, NEW i \in Id, NEW d, KnownTo(i, d)
  PROVE  Known(notified'[i], skipped'[i], d)
  BY DEF Grows, KnownTo, Known

\* A document and what the store adds to it.
LEMMA MergedKnown ==
  ASSUME NEW i \in Id, NEW n, NEW k, NEW d \in Doc, Known(n, k, d),
         db \in [Id -> Seq(Doc)], Stored(i) => Known(n, k, Get(i))
  PROVE  Known(n, k, Merged(i, d))
<1>1. Merged(i, d) \in Doc /\ Merged(i, d).result = d.result
  BY MergedType DEF Merged, Doc
<1>2. UserPolicy(Merged(i, d)) \subseteq k
  <2>1. \/ Merged(i, d).updatePolicy \in {d.updatePolicy, None}
        \/ Stored(i) /\ Merged(i, d).updatePolicy = Get(i).updatePolicy
    BY DEF Merged, Doc, HasOwn, Get0
  <2>2. QED  BY <2>1 DEF Known, UserPolicy, Falsy
<1>3. QED  BY <1>1, <1>2 DEF Known, HasUpdate

\* The same document with another status, security state or error.
LEMMA PatchKnown ==
  ASSUME NEW n, NEW k, NEW d \in Doc, Known(n, k, d)
  PROVE  /\ \A s : Known(n, k, [d EXCEPT !.status = s])
         /\ \A s : Known(n, k, [d EXCEPT !.security = s])
         /\ Known(n, k, [d EXCEPT !.error = TRUE])
         /\ Known(n, k, [d EXCEPT !.result = None, !.error = FALSE])
  BY DEF Known, HasUpdate, UserPolicy, Doc

\* The documents of the store after an operation.
LEMMA UpdateKnown ==
  ASSUME Typed, DbKnown, Grows, NEW i \in Id, NEW d \in Doc,
         Known(notified'[i], skipped'[i], d),
         db' = [db EXCEPT ![i] = <<Merged(i, d)>>]
  PROVE  DbKnown'
<1> DEFINE Fine(k, x) == Known(notified'[k], skipped'[k], x)
<1>1. db \in [Id -> Seq(Doc)]  BY DEF Typed, TypeOK, StoreOK
<1>2. \A k \in Id : Stored(k) => Fine(k, Get(k))
  BY StillKnown DEF DbKnown
<1>3. Fine(i, Merged(i, d))  BY <1>1, <1>2, MergedKnown
<1>4. ASSUME NEW k \in Id, db'[k] # <<>>  PROVE Fine(k, Head(db'[k]))
  <2>1. CASE k = i
    <3>1. Head(<<Merged(i, d)>>) = Merged(i, d)  OBVIOUS
    <3>2. db'[k] = <<Merged(i, d)>>  BY <1>1, <2>1
    <3>3. QED  BY <1>3, <2>1, <3>1, <3>2
  <2>2. CASE k # i  
    <3>1. db'[k] = db[k]  BY <1>1, <2>2
    <3>2. QED  BY <1>2, <1>4, <3>1 DEF Stored, Get
  <2>3. QED  BY <2>1, <2>2
<1>5. QED  BY <1>4 DEF DbKnown, Stored, Get, KnownTo

LEMMA InsertKnown ==
  ASSUME Typed, DbKnown, Grows, NEW i \in Id, NEW d \in Doc, ~Stored(i),
         Known(notified'[i], skipped'[i], d), InsertContainer(i, d)
  PROVE  DbKnown'
<1> DEFINE Fine(k, x) == Known(notified'[k], skipped'[k], x)
<1>1. db \in [Id -> Seq(Doc)]  BY DEF Typed, TypeOK, StoreOK
<1>2. \A k \in Id : Stored(k) => Fine(k, Get(k))
  BY StillKnown DEF DbKnown
<1>3. Fine(i, WithCached(i, d))  BY PatchKnown DEF WithCached
<1>4. Head(Append(<<>>, WithCached(i, d))) = WithCached(i, d)
  <2>1. <<>> \in Seq({WithCached(i, d)}) /\ Len(<<>>) = 0  BY EmptySeq
  <2>2. QED  BY <2>1, AppendProperties
<1>5. db' = [db EXCEPT ![i] = Append(<<>>, WithCached(i, d))]
  BY <1>1 DEF InsertContainer, Stored
<1>6. ASSUME NEW k \in Id, db'[k] # <<>>  PROVE Fine(k, Head(db'[k]))
  <2>1. CASE k = i  BY <1>1, <1>3, <1>4, <1>5, <2>1
  <2>2. CASE k # i
    <3>1. db'[k] = db[k]  BY <1>1, <1>5, <2>2
    <3>2. QED  BY <1>2, <1>6, <3>1 DEF Stored, Get
  <2>3. QED  BY <2>1, <2>2
<1>7. QED  BY <1>6 DEF DbKnown, Stored, Get, KnownTo

\* A part of the state that a step leaves alone stays accounted for.
LEMMA KeptKnown ==
  ASSUME Typed, AllKnown, Grows
  PROVE  /\ UNCHANGED db => DbKnown'
         /\ UNCHANGED copy => CopyKnown'
         /\ UNCHANGED old => OldKnown'
         /\ UNCHANGED only => OnlyKnown'
         /\ UNCHANGED job => JobKnown'
<1>1. UNCHANGED db => DbKnown'
  <2> SUFFICES ASSUME UNCHANGED db, NEW i \in Id, Stored(i)
               PROVE  KnownTo(i, Get(i))'
    BY DEF DbKnown, Stored
  <2>1. KnownTo(i, Get(i))  BY DEF AllKnown, DbKnown
  <2>2. QED  BY <2>1, StillKnown DEF KnownTo, Get
<1>2. UNCHANGED copy => CopyKnown'
  BY StillKnown DEF AllKnown, CopyKnown, KnownTo
<1>3. UNCHANGED old => OldKnown'
  BY StillKnown DEF AllKnown, OldKnown, KnownTo
<1>4. UNCHANGED only => OnlyKnown'
  <2> SUFFICES ASSUME UNCHANGED only, NEW w \in Watch, only[w] # None
               PROVE  KnownTo(only[w].id, only[w].doc)'
    BY DEF OnlyKnown
  <2>1. only[w].id \in Id  BY DEF Typed, TypeOK, WatchOK
  <2>2. KnownTo(only[w].id, only[w].doc)  BY DEF AllKnown, OnlyKnown
  <2>3. QED  BY <2>1, <2>2, StillKnown DEF KnownTo
<1>5. UNCHANGED job => JobKnown'
  <2> SUFFICES ASSUME UNCHANGED job, NEW j \in Job, job[j] # None
               PROVE  KnownTo(job[j].id, job[j].doc)'
    BY DEF JobKnown
  <2>1. job[j].id \in Id  BY DEF Typed, TypeOK, TaskOK
  <2>2. KnownTo(job[j].id, job[j].doc)  BY DEF AllKnown, JobKnown
  <2>3. QED  BY <2>1, <2>2, StillKnown DEF KnownTo
<1>6. QED  BY <1>1, <1>2, <1>3, <1>4, <1>5

LEMMA SameHistoryGrows == UNCHANGED <<notified, skipped>> => Grows
  BY DEF Grows

\* A write of the store by a task that leaves the history and the copies alone.
LEMMA WriteKnown ==
  ASSUME Typed, AllKnown, NEW i \in Id, NEW d \in Doc, KnownTo(i, d),
         db' = [db EXCEPT ![i] = <<Merged(i, d)>>],
         UNCHANGED <<notified, skipped>>
  PROVE  DbKnown'
<1>1. Grows  BY SameHistoryGrows
<1>2. Known(notified'[i], skipped'[i], d)  BY <1>1, StillKnown
<1>3. QED  BY <1>1, <1>2, UpdateKnown DEF AllKnown

LEMMA GoneKnown ==
  ASSUME Typed, AllKnown, NEW i \in Id, db' = [db EXCEPT ![i] = <<>>],
         UNCHANGED <<notified, skipped>>
  PROVE  DbKnown'
<1> SUFFICES ASSUME NEW k \in Id, Stored(k)'  PROVE KnownTo(k, Get(k))'
  BY DEF DbKnown
<1>1. db \in [Id -> Seq(Doc)]  BY DEF Typed, TypeOK, StoreOK
<1>2. k # i /\ db'[k] = db[k]  BY <1>1 DEF Stored
<1>3. KnownTo(k, Get(k))  BY <1>2 DEF AllKnown, DbKnown, Stored
<1>4. QED  BY <1>2, <1>3 DEF KnownTo, Get

LEMMA EventKnown ==
  ASSUME Typed, AllKnown, NEW e \in Event, EventStep(e)  PROVE AllKnown'
<1>1. Grows /\ UNCHANGED <<notified, skipped, copy, old, only, job>>
  BY SameHistoryGrows
  DEF EventStep, InspectEvent, ApplyEvent, watchVars, history
<1>2. DbKnown'
  <2>1. CASE UNCHANGED db  BY <1>1, <2>1, KeptKnown
  <2>2. CASE ~UNCHANGED db
    <3> DEFINE i == event[e].id
               d == [Get(i) EXCEPT !.status = event[e].seen]
    <3>1. /\ i \in Id /\ event[e].seen \in Status /\ Stored(i)
          /\ UpdateContainer(i, d)
      BY <2>2 DEF EventStep, InspectEvent, ApplyEvent, storeVars, Typed, TypeOK,
         TaskOK
    <3>2. Get(i) \in Doc  BY <3>1, GetType DEF Typed, TypeOK, StoreOK
    <3>3. d \in Doc  BY <3>1, <3>2, DocType
    <3>4. KnownTo(i, d)
      BY <3>1, <3>2, PatchKnown DEF AllKnown, DbKnown, KnownTo
    <3>5. db' = [db EXCEPT ![i] = <<Merged(i, d)>>]  BY <3>1 DEF UpdateContainer
    <3>6. QED  BY <1>1, <3>1, <3>3, <3>4, <3>5, WriteKnown
  <2>3. QED  BY <2>1, <2>2
<1>3. QED  BY <1>1, <1>2, KeptKnown DEF AllKnown

LEMMA ApiKnown == ASSUME Typed, AllKnown, Api  PROVE AllKnown'
<1>1. UNCHANGED <<copy, old, only, job>>
  BY DEF Api, SkipCurrent, ClearPolicy, DeleteCall, watchVars, taskVars
<1>2. ASSUME NEW i \in Id, SkipCurrent(i)  PROVE AllKnown'
  <2> DEFINE p == (IF Falsy(Get(i).updatePolicy) THEN {}
                   ELSE Get(i).updatePolicy) \cup {Get(i).result}
             d == [Get(i) EXCEPT !.updatePolicy = p]
  <2>1. Get(i) \in Doc /\ KnownTo(i, Get(i))
    BY <1>2, GetType DEF SkipCurrent, Typed, TypeOK, StoreOK, AllKnown, DbKnown
  <2>2. /\ UpdateContainer(i, d) /\ notified' = notified
        /\ skipped' = [skipped EXCEPT ![i] = @ \cup p]
    BY <1>2 DEF SkipCurrent
  <2>3. p \in Policy
    BY <1>2, <2>1 DEF SkipCurrent, HasUpdate, Falsy, Doc, Policy
  <2>4. d \in Doc  BY <2>1, <2>3, DocType
  <2>5. skipped \in [Id -> SUBSET Result]  BY DEF Typed, TypeOK, HistoryOK
  <2>6. Grows  BY <2>2, <2>5 DEF Grows
  <2>7. Known(notified'[i], skipped'[i], d)
    <3>1. d.result = Get(i).result /\ d.updatePolicy = p  BY <2>1 DEF Doc
    <3>2. p \subseteq skipped'[i] /\ Get(i).result \in p  BY <2>2, <2>5
    <3>3. QED  BY <3>1, <3>2 DEF Known, UserPolicy
  <2> HIDE DEF d
  <2>8. DbKnown'
    BY <2>2, <2>4, <2>6, <2>7, UpdateKnown DEF UpdateContainer, AllKnown
  <2>9. QED  BY <1>1, <2>6, <2>8, KeptKnown DEF AllKnown
<1>3. ASSUME NEW i \in Id, ClearPolicy(i)  PROVE AllKnown'
  <2> DEFINE d == [Get(i) EXCEPT !.updatePolicy = None]
  <2>1. Get(i) \in Doc /\ KnownTo(i, Get(i))
    BY <1>3, GetType DEF ClearPolicy, Typed, TypeOK, StoreOK, AllKnown, DbKnown
  <2>2. d \in Doc  BY <2>1, DocType
  <2>3. KnownTo(i, d)
    BY <2>1 DEF KnownTo, Known, HasUpdate, UserPolicy, Falsy, Doc
  <2>4. UpdateContainer(i, d) /\ UNCHANGED <<notified, skipped>>
    BY <1>3 DEF ClearPolicy, history
  <2> HIDE DEF d
  <2>5. DbKnown'  BY <2>2, <2>3, <2>4, WriteKnown DEF UpdateContainer
  <2>6. QED  BY <1>1, <2>4, <2>5, KeptKnown, SameHistoryGrows DEF AllKnown
<1>4. ASSUME NEW i \in Id, DeleteCall(i)  PROVE AllKnown'
  <2>1. /\ db' = [db EXCEPT ![i] = <<>>]
        /\ UNCHANGED <<notified, skipped>>
    BY <1>4 DEF DeleteCall, DeleteContainer, history
  <2>2. QED  BY <1>1, <2>1, GoneKnown, KeptKnown, SameHistoryGrows DEF AllKnown
<1>5. QED  BY <1>2, <1>3, <1>4 DEF Api

LEMMA JobStepKnown ==
  ASSUME Typed, AllKnown, NEW j \in Job, JobStep(j)  PROVE AllKnown'
<1>1. Grows /\ UNCHANGED <<notified, skipped, copy, old, only>>
  BY SameHistoryGrows
  DEF JobStep, StartJob, FinishScan, FinishGate, ActionDone, FinishAction,
      JobFails, watchVars, history
<1>2. job \in [Job -> [kind : Slow, id : Id, doc : Doc,
                       seen : Status \cup {None}] \cup {None}]
  BY DEF Typed, TypeOK, TaskOK
<1>3. \A i \in Id : Stored(i) => Get(i) \in Doc /\ KnownTo(i, Get(i))
  BY GetType DEF Typed, TypeOK, StoreOK, AllKnown, DbKnown
<1>4. job[j] # None => /\ job[j].id \in Id /\ job[j].doc \in Doc
                       /\ KnownTo(job[j].id, job[j].doc)
  BY <1>2 DEF AllKnown, JobKnown
<1>5. ASSUME job' = [job EXCEPT ![j] = None]  PROVE JobKnown'
  <2> SUFFICES ASSUME NEW h \in Job, h # j, job[h] # None
               PROVE  Known(notified'[job[h].id], skipped'[job[h].id], job[h].doc)
    BY <1>2, <1>5 DEF JobKnown, KnownTo
  <2>1. job[h].id \in Id /\ KnownTo(job[h].id, job[h].doc)
    BY <1>2 DEF AllKnown, JobKnown
  <2>2. QED  BY <1>1, <2>1, StillKnown
<1>6. ASSUME NEW k \in Calls \cap Slow, NEW i \in Id, StartJob(j, k, i)
      PROVE  AllKnown'
  <2>1. JobKnown'
    <3> SUFFICES ASSUME NEW h \in Job, job'[h] # None
                 PROVE  Known(notified'[job'[h].id], skipped'[job'[h].id],
                              job'[h].doc)
      BY DEF JobKnown, KnownTo
    <3>1. CASE h = j
      <4>1. job'[h].id = i /\ job'[h].doc = Get(i)
        BY <1>2, <1>6, <3>1 DEF StartJob
      <4>2. QED  BY <1>1, <1>3, <1>6, <4>1, StillKnown DEF StartJob
    <3>2. CASE h # j
      <4>1. job'[h] = job[h]  BY <1>2, <1>6, <3>2 DEF StartJob
      <4>2. job[h].id \in Id /\ KnownTo(job[h].id, job[h].doc)
        BY <1>2, <4>1 DEF AllKnown, JobKnown
      <4>3. QED  BY <1>1, <4>1, <4>2, StillKnown
    <3>3. QED  BY <3>1, <3>2
  <2>2. UNCHANGED db  BY <1>6 DEF StartJob, storeVars
  <2>3. QED  BY <1>1, <2>1, <2>2, KeptKnown DEF AllKnown
<1>7. ASSUME NEW s \in Security, FinishScan(j, s)  PROVE AllKnown'
  <2> DEFINE d == [job[j].doc EXCEPT !.security = s]
  <2>1. d \in Doc  BY <1>4, <1>7, DocType DEF FinishScan
  <2>2. KnownTo(job[j].id, d)  BY <1>4, <1>7, PatchKnown DEF FinishScan, KnownTo
  <2>3. UpdateContainer(job[j].id, d) /\ job' = [job EXCEPT ![j] = None]
    BY <1>7 DEF FinishScan
  <2> HIDE DEF d
  <2>4. DbKnown'
    BY <1>1, <1>4, <1>7, <2>1, <2>2, <2>3, WriteKnown
    DEF FinishScan, UpdateContainer
  <2>5. QED  BY <1>1, <1>5, <2>3, <2>4, KeptKnown DEF AllKnown
<1>8. ASSUME NEW s \in Security, FinishGate(j, s)  PROVE AllKnown'
  <2> DEFINE i == job[j].id
             c == IF Stored(i) THEN Get(i) ELSE job[j].doc
             d == [c EXCEPT !.security = s]
  <2>1. i \in Id /\ c \in Doc /\ KnownTo(i, c)
    BY <1>3, <1>4, <1>8 DEF FinishGate
  <2>2. d \in Doc  BY <2>1, DocType
  <2>3. KnownTo(i, d)  BY <2>1, PatchKnown DEF KnownTo
  <2>4. db' = [db EXCEPT ![i] = <<Merged(i, d)>>] /\ job' = [job EXCEPT ![j] = None]
    BY <1>8 DEF FinishGate
  <2> HIDE DEF c, d
  <2>5. DbKnown'  BY <1>1, <2>1, <2>2, <2>3, <2>4, WriteKnown
  <2>6. QED  BY <1>1, <1>5, <2>4, <2>5, KeptKnown DEF AllKnown
<1>9. ASSUME NEW s \in Status, ActionDone(j, s)  PROVE AllKnown'
  <2>1. /\ job[j] # None /\ job' = [job EXCEPT ![j].seen = s]
        /\ UNCHANGED db
    BY <1>9 DEF ActionDone, storeVars
  <2>2. \A h \in Job : job'[h] # None =>
          job[h] # None /\ job'[h].id = job[h].id /\ job'[h].doc = job[h].doc
    BY <1>2, <2>1
  <2>3. JobKnown'
    <3> SUFFICES ASSUME NEW h \in Job, job'[h] # None
                 PROVE  Known(notified'[job[h].id], skipped'[job[h].id],
                              job[h].doc)
      BY <2>2 DEF JobKnown, KnownTo
    <3>1. job[h].id \in Id /\ KnownTo(job[h].id, job[h].doc)
      BY <1>2, <2>2 DEF AllKnown, JobKnown
    <3>2. QED  BY <1>1, <3>1, StillKnown
  <2>4. QED  BY <1>1, <2>1, <2>3, KeptKnown DEF AllKnown
<1>10. CASE FinishAction(j)
  <2> DEFINE d == [job[j].doc EXCEPT !.status = job[j].seen]
  <2>1. job[j] # None /\ job[j].seen \in Status
    BY <1>2, <1>10 DEF FinishAction
  <2>2. d \in Doc  BY <1>4, <2>1, DocType
  <2>3. KnownTo(job[j].id, d)  BY <1>4, <2>1, PatchKnown DEF KnownTo
  <2>4. UpdateContainer(job[j].id, d) /\ job' = [job EXCEPT ![j] = None]
    BY <1>10 DEF FinishAction
  <2> HIDE DEF d
  <2>5. DbKnown'
    BY <1>1, <1>4, <2>1, <2>2, <2>3, <2>4, WriteKnown DEF UpdateContainer
  <2>6. QED  BY <1>1, <1>5, <2>4, <2>5, KeptKnown DEF AllKnown
<1>11. CASE JobFails(j)
  <2>1. job' = [job EXCEPT ![j] = None] /\ UNCHANGED db
    BY <1>11 DEF JobFails, storeVars
  <2>2. QED  BY <1>1, <1>5, <2>1, KeptKnown DEF AllKnown
<1>12. QED  BY <1>6, <1>7, <1>8, <1>9, <1>10, <1>11 DEF JobStep

\* The steps of a watch run that write no document.
LEMMA ReadingKnown ==
  ASSUME Typed, AllKnown, NEW w \in Watch,
         \/ StartWatch(w) \/ List(w) \/ ListFails(w) \/ ReadStore(w) \/ GetOld(w)
         \/ StartChecks(w) \/ StopWatch(w)
         \/ \E i \in Id : StartWatchOne(w, i) \/ PruneAsk(w, i) \/ Lookup(w, i)
  PROVE  AllKnown'
<1>1. Grows /\ UNCHANGED <<notified, skipped, db, job>>
  BY SameHistoryGrows
  DEF StartWatch, List, ListFails, ReadStore, GetOld, StartChecks, StopWatch,
      StartWatchOne, PruneAsk, Lookup, storeVars, taskVars, history
<1>2. DbKnown' /\ JobKnown'  BY <1>1, KeptKnown
<1>3. \A i \in Id : Stored(i) => KnownTo(i, Get(i))
  BY DEF AllKnown, DbKnown
<1> USE DEF KnownTo
<1>4. CASE StartWatch(w) \/ List(w) \/ StopWatch(w)
           \/ \E i \in Id : PruneAsk(w, i) \/ Lookup(w, i)
  <2>1. UNCHANGED <<copy, old, only>>
    BY <1>4 DEF StartWatch, List, StopWatch, PruneAsk, Lookup
  <2>2. QED  BY <1>1, <1>2, <2>1, KeptKnown DEF AllKnown
<1>5. CASE ListFails(w)
  <2>1. OnlyKnown'
    BY <1>1, <1>5 DEF ListFails, AllKnown, OnlyKnown, Typed, TypeOK, WatchOK
  <2>2. QED  BY <1>1, <1>2, <1>5, <2>1, KeptKnown DEF ListFails, AllKnown
<1>6. CASE ReadStore(w)
  <2>1. PICK dropped : copy' = [copy EXCEPT ![w] =
          [i \in Id |-> IF listed[w][i] = None \/ i \in dropped THEN None
                        ELSE IF Stored(i) /\ ~Get(i).error THEN Get(i)
                        ELSE Fresh(listed[w][i])]]
    BY <1>6 DEF ReadStore
  <2>2. ASSUME NEW i \in Id  PROVE KnownTo(i, Fresh(listed[w][i]))
    BY DEF Fresh, Known, HasUpdate, UserPolicy, Falsy
  <2>3. \A i \in Id : copy'[w][i] # None => KnownTo(i, copy'[w][i])
    BY <1>3, <2>1, <2>2 DEF Typed, TypeOK, WatchOK
  <2>4. \A v \in Watch : v # w => copy'[v] = copy[v]
    BY <2>1 DEF Typed, TypeOK, WatchOK
  <2>5. CopyKnown'  BY <1>1, <2>3, <2>4 DEF AllKnown, CopyKnown
  <2>6. QED  BY <1>1, <1>2, <1>6, <2>5, KeptKnown DEF ReadStore, AllKnown
<1>7. CASE GetOld(w)
  <2>1. \A i \in Id : old'[w][i] # None => KnownTo(i, old'[w][i])
    BY <1>3, <1>7 DEF GetOld, Typed, TypeOK, WatchOK
  <2>2. \A v \in Watch : v # w => old'[v] = old[v]
    BY <1>7 DEF GetOld, Typed, TypeOK, WatchOK
  <2>3. OldKnown'  BY <1>1, <2>1, <2>2 DEF AllKnown, OldKnown
  <2>4. QED  BY <1>1, <1>2, <1>7, <2>3, KeptKnown DEF GetOld, AllKnown
<1>8. CASE StartChecks(w)
  <2> DEFINE todo(i) == IF only[w] = None THEN copy[w][i]
                        ELSE IF i = only[w].id /\ copy[w][i] # None
                             THEN only[w].doc ELSE None
  <2>1. \A i \in Id : todo(i) # None => todo(i) \in Doc /\ KnownTo(i, todo(i))
    BY DEF AllKnown, CopyKnown, OnlyKnown, Typed, TypeOK, WatchOK
  <2>2. \A i \in Id : Reset(todo(i)) # None => KnownTo(i, Reset(todo(i)))
    BY <2>1, PatchKnown DEF Reset
  <2>3. copy' = [copy EXCEPT ![w] = [i \in Id |-> Reset(todo(i))]]
    <3>1. \A i \in Id : Reset([k \in Id |-> todo(k)][i]) = Reset(todo(i))
      OBVIOUS
    <3>2. QED  BY <1>8, <3>1 DEF StartChecks
  <2>4. only' = [only EXCEPT ![w] = None] /\ UNCHANGED old
    BY <1>8 DEF StartChecks
  <2> HIDE DEF todo
  <2>5. \A i \in Id : copy'[w][i] = Reset(todo(i))
    BY <2>3 DEF Typed, TypeOK, WatchOK
  <2>6. \A v \in Watch : v # w => copy'[v] = copy[v]
    BY <2>3 DEF Typed, TypeOK, WatchOK
  <2>7. CopyKnown'  BY <1>1, <2>2, <2>5, <2>6 DEF AllKnown, CopyKnown
  <2>8. OnlyKnown'
    BY <1>1, <2>4 DEF AllKnown, OnlyKnown, Typed, TypeOK, WatchOK
  <2>9. QED  BY <1>1, <1>2, <2>4, <2>7, <2>8, KeptKnown DEF AllKnown
<1>9. ASSUME NEW i \in Id, StartWatchOne(w, i)  PROVE AllKnown'
  <2>1. only' = [only EXCEPT ![w] = [id |-> i, doc |-> Get(i)]]
        /\ KnownTo(i, Get(i))
    BY <1>3, <1>9 DEF StartWatchOne
  <2>2. OnlyKnown'
    BY <1>1, <2>1 DEF AllKnown, OnlyKnown, Typed, TypeOK, WatchOK
  <2>3. QED  BY <1>1, <1>2, <1>9, <2>2, KeptKnown DEF StartWatchOne, AllKnown
<1>10. QED  BY <1>4, <1>5, <1>6, <1>7, <1>8, <1>9

LEMMA PruneKnown ==
  ASSUME Typed, AllKnown, NEW w \in Watch, PruneApply(w)  PROVE AllKnown'
<1> DEFINE i == asked[w].id
           d == [old[w][i] EXCEPT !.status = asked[w].seen]
<1>1. Grows /\ UNCHANGED <<notified, skipped, copy, only, job>>
  BY SameHistoryGrows DEF PruneApply, taskVars, history
<1>2. /\ i \in Id /\ asked[w].seen \in Status \cup {Error}
      /\ old[w][i] \in Doc /\ KnownTo(i, old[w][i])
  BY DEF PruneApply, Typed, TypeOK, WatchOK, AskedIsOld, AllKnown, OldKnown
<1>3. DbKnown'
  <2>1. CASE asked[w].seen = Error
    BY <1>1, <1>2, <2>1, GoneKnown DEF PruneApply, DeleteContainer
  <2>2. CASE asked[w].seen # Error
    <3>1. d \in Doc  BY <1>2, <2>2, DocType, ZenonT(60)
    <3>2. KnownTo(i, d)  BY <1>2, PatchKnown DEF KnownTo
    <3>3. db' = [db EXCEPT ![i] = <<Merged(i, d)>>]
      BY <2>2 DEF PruneApply, UpdateContainer
    <3>4. QED  BY <1>1, <1>2, <3>1, <3>2, <3>3, WriteKnown
  <2>3. QED  BY <2>1, <2>2
<1>4. OldKnown'
  BY <1>1 DEF PruneApply, AllKnown, OldKnown, KnownTo, Typed, TypeOK, WatchOK
<1>5. QED  BY <1>1, <1>3, <1>4, KeptKnown DEF AllKnown

\* The heart of the matter: what a report stores was notified, suppressed, or
\* had been stored, and so accounted for, before.
LEMMA ReportKnown ==
  ASSUME Typed, AllKnown, NEW w \in Watch, NEW i \in Id, Report(w, i)
  PROVE  AllKnown'
<1> DEFINE d == Checked(w, i)
<1>1. copy[w][i] \in Doc /\ answer[w][i] \in Result \cup {Error}
  BY DEF Report, Typed, TypeOK, WatchOK
<1>2. d \in Doc  BY <1>1, DocType DEF Checked
<1>3. KnownTo(i, copy[w][i])  BY DEF Report, AllKnown, CopyKnown
<1>4. Grows /\ UNCHANGED <<skipped, old, only, job>>
  <2>1. notified \in [Id -> SUBSET Result]  BY DEF Typed, TypeOK, HistoryOK
  <2>2. QED  BY <2>1 DEF Report, Grows, taskVars
<1>5. UserPolicy(d) \subseteq skipped[i]
  BY <1>1, <1>3 DEF Checked, Doc, KnownTo, Known, UserPolicy
<1>6. Stored(i) => Get(i) \in Doc /\ KnownTo(i, Get(i))
  BY GetType DEF Typed, TypeOK, StoreOK, AllKnown, DbKnown
<1>7. HasUpdate(d) => d.result \in notified'[i] \cup skipped[i]
  <2> SUFFICES ASSUME HasUpdate(d)  PROVE d.result \in notified'[i] \cup skipped[i]
    OBVIOUS
  <2>1. CASE Suppressed(d) \/ Suppressed(StoredAs(w, i))
    <3>1. Suppressed(d) => d.result \in skipped[i]
      BY <1>5 DEF Suppressed, UserPolicy, Falsy
    <3>2. Suppressed(StoredAs(w, i)) => d.result \in skipped[i]
      <4>1. StoredAs(w, i).result = d.result
        BY <1>2 DEF StoredAs, Merged, WithCached, Doc
      <4>2. \/ StoredAs(w, i).updatePolicy \in {d.updatePolicy, None}
            \/ Stored(i) /\ StoredAs(w, i).updatePolicy = Get(i).updatePolicy
        BY <1>2 DEF StoredAs, Merged, WithCached, Doc, HasOwn, Get0
      <4>3. QED
        BY <1>5, <1>6, <4>1, <4>2
        DEF Suppressed, UserPolicy, Falsy, KnownTo, Known
    <3>3. QED  BY <2>1, <3>1, <3>2
  <2>2. CASE ~Suppressed(d) /\ ~Suppressed(StoredAs(w, i))
    <3>1. UpdateAvailable(d) /\ UpdateAvailable(StoredAs(w, i))
      <4>1. StoredAs(w, i).result = d.result
        BY <1>2 DEF StoredAs, Merged, WithCached, Doc
      <4>2. QED  BY <2>2, <4>1 DEF UpdateAvailable, HasUpdate
    <3>2. CASE Changed(w, i)
      BY <3>1, <3>2 DEF Report, Notifies, Typed, TypeOK, HistoryOK
    <3>3. CASE ~Changed(w, i)
      <4>1. Stored(i) /\ Get(i).result = d.result  BY <3>1, <3>3 DEF Changed
      <4>2. KnownTo(i, Get(i)) /\ HasUpdate(Get(i))
        BY <1>6, <4>1 DEF HasUpdate
      <4>3. QED  BY <1>4, <4>1, <4>2 DEF KnownTo, Known, Grows
    <3>4. QED  BY <3>2, <3>3
  <2>3. QED  BY <2>1, <2>2
<1>8. Known(notified'[i], skipped'[i], d)  BY <1>4, <1>5, <1>7 DEF Known
<1>9. DbKnown'
  BY <1>2, <1>4, <1>8, UpdateKnown, InsertKnown
  DEF Report, UpdateContainer, AllKnown
<1>10. CopyKnown'
  <2> SUFFICES ASSUME NEW v \in Watch, NEW k \in Id, copy'[v][k] # None
               PROVE  Known(notified'[k], skipped'[k], copy[v][k])
                      /\ copy'[v][k] = copy[v][k]
    BY DEF CopyKnown, KnownTo
  <2>1. copy'[v][k] = copy[v][k]  BY DEF Report, Typed, TypeOK, WatchOK
  <2>2. KnownTo(k, copy[v][k])  BY <2>1 DEF AllKnown, CopyKnown
  <2>3. QED  BY <1>4, <2>1, <2>2, StillKnown
<1>11. QED  BY <1>4, <1>9, <1>10, KeptKnown DEF AllKnown

LEMMA NextKnown == Typed /\ AllKnown /\ [Next]_vars => AllKnown'
<1> SUFFICES ASSUME Typed, AllKnown, [Next]_vars  PROVE AllKnown'  OBVIOUS
<1>1. ASSUME UNCHANGED <<notified, skipped, db, copy, old, only, job>>
      PROVE  AllKnown'
  BY <1>1, SameHistoryGrows, KeptKnown DEF AllKnown
<1>2. CASE World
  BY <1>1, <1>2 DEF World, Create, Remove, Switch, Publish, storeVars, watchVars,
     taskVars, history
<1>3. CASE UNCHANGED vars
  BY <1>1, <1>3 DEF vars, storeVars, watchVars, taskVars, history
<1>4. ASSUME NEW w \in Watch, WatchNext(w)  PROVE AllKnown'
  BY <1>4, ReadingKnown, PruneKnown, ReportKnown DEF WatchNext, WatchStep
<1>5. QED  BY <1>2, <1>3, <1>4, ApiKnown, EventKnown, JobStepKnown DEF Next

\* No update the store shows was kept from the once-only triggers, however
\* many tasks hold stale copies and in whatever order they write them back.
THEOREM NothingLost == Spec => []NoUpdateLost
<1>1. Init => AllKnown
  BY DEF Init, AllKnown, DbKnown, CopyKnown, OldKnown, OnlyKnown, JobKnown,
     Stored, Nothing
<1>2. Typed /\ AllKnown /\ [Next]_vars => Typed' /\ AllKnown'
  BY NextTyped, NextKnown
<1>3. AllKnown => NoUpdateLost
  BY DEF AllKnown, DbKnown, KnownTo, Known, NoUpdateLost
<1>4. QED  BY <1>1, <1>2, <1>3, InitTyped, PTL DEF Spec

-------------------------------------------------------------------------------
(***************************************************************************)
(* Watches that do not overlap.  What the store, or the copy of a prune,   *)
(* shows of a container is the last answer of the registry.  Any task that *)
(* waits before it writes (a second watch, a scan, an action) breaks this, *)
(* so the theorems name what must not be in flight.                        *)
(***************************************************************************)
OneWatch     == \A v, w \in Watch : v = w
NoSlowWriter == Calls \cap Slow = {}

NoJobs == \A j \in Job : job[j] = None

StoredAsAnswered == \A i \in Id :
  Stored(i) /\ answered[i] \in Result => Get(i).result = answered[i]
OldAsAnswered == \A w \in Watch, i \in Id : old[w][i] # None =>
  /\ pc[w] = "pruning"
  /\ answered[i] \in Result => old[w][i].result = answered[i]
AsAnswered == NoJobs /\ StoredAsAnswered /\ OldAsAnswered /\ repeated = {}

LEMMA NextNoJobs ==
  ASSUME NoSlowWriter, Typed, NoJobs, [Next]_vars  PROVE NoJobs'
<1>1. ASSUME NEW j \in Job  PROVE ~JobStep(j)
  BY <1>1 DEF NoSlowWriter, NoJobs, JobStep, StartJob, FinishScan, FinishGate,
     ActionDone, FinishAction, JobFails
<1>2. UNCHANGED job
  BY <1>1, ZenonT(60) DEF Next, World, Create, Remove, Switch, Publish, Api, SkipCurrent,
     ClearPolicy, DeleteCall, EventStep, InspectEvent, ApplyEvent, WatchNext,
     WatchStep, StartWatch, StartWatchOne, ListFails, List, ReadStore, GetOld,
     PruneAsk, PruneApply, StartChecks, Lookup, Report, StopWatch, vars, taskVars
<1>3. QED  BY <1>2 DEF NoJobs

\* The document of k after a write of i.
LEMMA AfterWrite ==
  ASSUME db \in [Id -> Seq(Doc)], NEW i \in Id, NEW k \in Id, NEW d \in Doc
  PROVE  /\ UpdateContainer(i, d) =>
              /\ Stored(i)' /\ Get(i)'.result = d.result
              /\ k # i => db'[k] = db[k]
         /\ ~Stored(i) /\ InsertContainer(i, d) =>
              /\ Stored(i)' /\ Get(i)'.result = d.result
              /\ k # i => db'[k] = db[k]
         /\ DeleteContainer(i) => ~Stored(i)' /\ (k # i => db'[k] = db[k])
<1>1. ASSUME UpdateContainer(i, d)
      PROVE  Stored(i)' /\ Get(i)'.result = d.result
  <2>1. db'[i] = <<Merged(i, d)>>  BY <1>1 DEF UpdateContainer
  <2>2. Merged(i, d).result = d.result  BY DEF Merged, Doc
  <2>3. <<Merged(i, d)>> # <<>> /\ Head(<<Merged(i, d)>>) = Merged(i, d)  OBVIOUS
  <2>4. QED  BY <2>1, <2>2, <2>3 DEF Stored, Get
<1>2. ASSUME ~Stored(i), InsertContainer(i, d)
      PROVE  Stored(i)' /\ Get(i)'.result = d.result
  <2>1. db'[i] = Append(<<>>, WithCached(i, d))
    BY <1>2 DEF InsertContainer, Stored
  <2>2. WithCached(i, d).result = d.result  BY DEF WithCached, Doc
  <2>3. /\ Append(<<>>, WithCached(i, d)) # <<>>
        /\ Head(Append(<<>>, WithCached(i, d))) = WithCached(i, d)
    <3>1. <<>> \in Seq({WithCached(i, d)}) /\ Len(<<>>) = 0  BY EmptySeq
    <3>2. QED  BY <3>1, AppendProperties
  <2>4. QED  BY <2>1, <2>2, <2>3 DEF Stored, Get
<1>3. QED  BY <1>1, <1>2 DEF UpdateContainer, InsertContainer, DeleteContainer,
           Stored

\* A step that leaves the answers, the copies of the prunes and the results in
\* the store as they are.
LEMMA SameAnswered ==
  ASSUME Typed, AsAnswered, NoJobs', UNCHANGED <<answered, repeated, old>>,
         \A i \in Id : Stored(i)' =>
            Stored(i) /\ Get(i)'.result = Get(i).result,
         \A w \in Watch : pc[w] = "pruning" => pc'[w] = "pruning"
  PROVE  AsAnswered'
<1>1. StoredAsAnswered'
  BY DEF AsAnswered, StoredAsAnswered
<1>2. OldAsAnswered'  BY DEF AsAnswered, OldAsAnswered
<1>3. QED  BY <1>1, <1>2 DEF AsAnswered

\* The result a once-only trigger acts on is one the registry can find.
LEMMA NotifiesResult ==
  ASSUME Typed, NEW w \in Watch, NEW i \in Id, Report(w, i), Notifies(w, i)
  PROVE  Checked(w, i).result \in Result
<1>0. copy[w][i] \in Doc /\ answer[w][i] \in Result \cup {Error}
  BY DEF Report, Typed, TypeOK, WatchOK
<1>1. Checked(w, i) \in Doc  BY <1>0, DocType DEF Checked
<1>2. Merged(i, Checked(w, i)).result = Checked(w, i).result
  BY <1>1 DEF Merged, Doc
<1>3. WithCached(i, Checked(w, i)).result = Checked(w, i).result
  BY <1>1 DEF WithCached, Doc
<1>4. StoredAs(w, i).result = Checked(w, i).result
  BY <1>2, <1>3 DEF StoredAs
<1>5. Checked(w, i).result # None
  BY <1>4 DEF Notifies, UpdateAvailable, HasUpdate
<1>6. QED  BY <1>1, <1>5 DEF Doc

LEMMA ReportAnswered ==
  ASSUME OneWatch, Typed, AsAnswered, NEW w \in Watch, NEW i \in Id,
         Report(w, i), NoJobs'
  PROVE  AsAnswered'
<1> DEFINE d == Checked(w, i)
<1>1. copy[w][i] \in Doc /\ answer[w][i] \in Result \cup {Error}
  BY DEF Report, Typed, TypeOK, WatchOK
<1>2. d \in Doc  BY <1>1, DocType DEF Checked
<1>3. answer[w][i] \in Result => d.result = answer[w][i]
  BY <1>1, SentinelAssumption DEF Checked, Doc
<1>4. db \in [Id -> Seq(Doc)] /\ answered \in [Id -> Result \cup {None, Error}]
  BY DEF Typed, TypeOK, StoreOK, HistoryOK
<1>5. answered' = [answered EXCEPT ![i] = answer[w][i]]  BY DEF Report
<1>6. /\ Stored(i)' /\ Get(i)'.result = d.result
      /\ \A k \in Id : k # i => db'[k] = db[k]
  BY <1>2, <1>4, AfterWrite DEF Report
<1>7. StoredAsAnswered'
  <2> SUFFICES ASSUME NEW k \in Id, Stored(k)', answered'[k] \in Result
               PROVE  Get(k)'.result = answered'[k]
    BY DEF StoredAsAnswered
  <2>1. CASE k = i  BY <1>3, <1>4, <1>5, <1>6, <2>1
  <2>2. CASE k # i
    <3>1. db'[k] = db[k] /\ answered'[k] = answered[k]
      BY <1>4, <1>5, <1>6, <2>2
    <3>2. QED  BY <3>1 DEF AsAnswered, StoredAsAnswered, Stored, Get
  <2>3. QED  BY <2>1, <2>2
<1>8. OldAsAnswered'
  <2>1. \A v \in Watch, k \in Id : old[v][k] = None
    BY DEF Report, OneWatch, AsAnswered, OldAsAnswered
  <2>2. UNCHANGED old  BY DEF Report
  <2>3. QED  BY <2>1, <2>2 DEF OldAsAnswered
<1>9. repeated' = {}
  <2>1. ASSUME Notifies(w, i), Stored(i), answered[i] = d.result  PROVE FALSE
    <3>1. d.result \in Result  BY <2>1, NotifiesResult
    <3>2. Get(i).result = d.result
      BY <2>1, <3>1 DEF AsAnswered, StoredAsAnswered
    <3>3. QED  BY <2>1, <3>2 DEF Notifies, Changed
  <2>2. QED  BY <2>1 DEF Report, AsAnswered
<1>10. QED  BY <1>7, <1>8, <1>9 DEF AsAnswered

LEMMA PruneAnswered ==
  ASSUME Typed, AsAnswered, NEW w \in Watch, PruneApply(w), NoJobs'
  PROVE  AsAnswered'
<1>0. PICK i \in Id : i = asked[w].id
  BY DEF PruneApply, Typed, TypeOK, WatchOK
<1> DEFINE d == [old[w][i] EXCEPT !.status = asked[w].seen]
<1>1. /\ asked[w].seen \in Status \cup {Error} /\ old[w][i] \in Doc
      /\ old[w][i] # None
  BY <1>0 DEF PruneApply, Typed, TypeOK, WatchOK, AskedIsOld
<1>2. db \in [Id -> Seq(Doc)]  BY DEF Typed, TypeOK, StoreOK
<1>3. /\ asked[w].seen = Error => DeleteContainer(i)
      /\ asked[w].seen # Error => UpdateContainer(i, d)
      /\ old' = [old EXCEPT ![w][i] = None]
      /\ UNCHANGED <<pc, answered, repeated>>
  BY <1>0 DEF PruneApply, history
<1>4. asked[w].seen # Error => d \in Doc /\ d.result = old[w][i].result
  BY <1>1, DocType DEF Doc
<1> HIDE DEF d
<1>5. \A k \in Id : k # i => db'[k] = db[k]
  BY <1>1, <1>2, <1>3, <1>4, AfterWrite DEF DeleteContainer
<1>6. Stored(i)' => Get(i)'.result = old[w][i].result
  <2>1. CASE asked[w].seen = Error
    BY <1>1, <1>2, <1>3, <2>1 DEF DeleteContainer, Stored
  <2>2. CASE asked[w].seen # Error
    BY <1>1, <1>2, <1>3, <1>4, <2>2, AfterWrite
  <2>3. QED  BY <2>1, <2>2
<1>7. StoredAsAnswered'
  <2> SUFFICES ASSUME NEW k \in Id, Stored(k)', answered[k] \in Result
               PROVE  Get(k)'.result = answered[k]
    BY <1>3 DEF StoredAsAnswered
  <2>1. CASE k = i  BY <1>1, <1>6, <2>1 DEF AsAnswered, OldAsAnswered
  <2>2. CASE k # i
    BY <1>5, <2>2 DEF AsAnswered, StoredAsAnswered, Stored, Get
  <2>3. QED  BY <2>1, <2>2
<1>8. OldAsAnswered'
  BY <1>1, <1>3 DEF AsAnswered, OldAsAnswered, Typed, TypeOK, WatchOK
<1>9. QED  BY <1>3, <1>7, <1>8 DEF AsAnswered

\* What the events and the calls of users write keeps the result.
LEMMA UserAnswered ==
  ASSUME Typed, AsAnswered, NoJobs',
         Api \/ \E e \in Event : EventStep(e)
  PROVE  AsAnswered'
<1>1. db \in [Id -> Seq(Doc)]  BY DEF Typed, TypeOK, StoreOK
<1>2. UNCHANGED <<answered, repeated, old, pc>>
  BY DEF Api, SkipCurrent, ClearPolicy, DeleteCall, EventStep, InspectEvent,
     ApplyEvent, watchVars, history
<1>3. ASSUME NEW i \in Id, NEW d \in Doc, Stored(i), UpdateContainer(i, d),
             d.result = Get(i).result
      PROVE  AsAnswered'
  <2>1. \A k \in Id : Stored(k)' => Stored(k) /\ Get(k)'.result = Get(k).result
    <3> SUFFICES ASSUME NEW k \in Id, Stored(k)'
                 PROVE  Stored(k) /\ Get(k)'.result = Get(k).result
      OBVIOUS
    <3>1. CASE k = i  BY <1>1, <1>3, <3>1, AfterWrite
    <3>2. CASE k # i
      <4>1. db'[k] = db[k]  BY <1>1, <1>3, <3>2, AfterWrite
      <4>2. QED  BY <4>1 DEF Stored, Get
    <3>3. QED  BY <3>1, <3>2
  <2>2. QED  BY <1>2, <2>1, SameAnswered
<1>4. ASSUME NEW i \in Id, SkipCurrent(i)  PROVE AsAnswered'
  <2> DEFINE p == (IF Falsy(Get(i).updatePolicy) THEN {}
                   ELSE Get(i).updatePolicy) \cup {Get(i).result}
             d == [Get(i) EXCEPT !.updatePolicy = p]
  <2>1. Stored(i) /\ Get(i) \in Doc  BY <1>1, <1>4, GetType DEF SkipCurrent
  <2>2. p \in Policy
    BY <1>4, <2>1 DEF SkipCurrent, HasUpdate, Falsy, Doc, Policy
  <2>3. d \in Doc /\ d.result = Get(i).result  BY <2>1, <2>2, DocType, ZenonT(60) DEF Doc
  <2>4. UpdateContainer(i, d)  BY <1>4 DEF SkipCurrent
  <2> HIDE DEF d
  <2>5. QED  BY <1>3, <2>1, <2>3, <2>4
<1>5. ASSUME NEW i \in Id, ClearPolicy(i)  PROVE AsAnswered'
  <2> DEFINE d == [Get(i) EXCEPT !.updatePolicy = None]
  <2>1. Stored(i) /\ Get(i) \in Doc  BY <1>1, <1>5, GetType DEF ClearPolicy
  <2>2. d \in Doc /\ d.result = Get(i).result  BY <2>1, DocType DEF Doc
  <2>3. UpdateContainer(i, d)  BY <1>5 DEF ClearPolicy
  <2> HIDE DEF d
  <2>4. QED  BY <1>3, <2>1, <2>2, <2>3
<1>6. ASSUME NEW i \in Id, DeleteCall(i)  PROVE AsAnswered'
  <2>1. \A k \in Id : Stored(k)' => Stored(k) /\ Get(k)'.result = Get(k).result
    BY <1>1, <1>6 DEF DeleteCall, DeleteContainer, Stored, Get
  <2>2. QED  BY <1>2, <2>1, SameAnswered
<1>7. ASSUME UNCHANGED db  PROVE AsAnswered'
  <2>1. \A k \in Id : Stored(k)' => Stored(k) /\ Get(k)'.result = Get(k).result
    BY <1>7 DEF Stored, Get
  <2>2. QED  BY <1>2, <2>1, SameAnswered
<1>8. ASSUME NEW e \in Event, EventStep(e)  PROVE AsAnswered'
  <2>1. CASE UNCHANGED db  BY <1>7, <2>1
  <2>2. CASE ~UNCHANGED db
    <3> DEFINE i == event[e].id
               d == [Get(i) EXCEPT !.status = event[e].seen]
    <3>1. /\ i \in Id /\ event[e].seen \in Status /\ Stored(i)
          /\ UpdateContainer(i, d)
      BY <1>8, <2>2 DEF EventStep, InspectEvent, ApplyEvent, storeVars, Typed,
         TypeOK, TaskOK
    <3>2. Get(i) \in Doc  BY <1>1, <3>1, GetType
    <3>3. d \in Doc /\ d.result = Get(i).result  BY <3>1, <3>2, DocType DEF Doc
    <3> HIDE DEF d
    <3>4. QED  BY <1>3, <3>1, <3>3
  <2>3. QED  BY <2>1, <2>2
<1>9. QED  BY <1>4, <1>5, <1>6, <1>8 DEF Api

\* The steps of a watch that write no document.
LEMMA ReadingAnswered ==
  ASSUME Typed, AsAnswered, NoJobs', NEW w \in Watch,
         \/ StartWatch(w) \/ List(w) \/ ListFails(w) \/ ReadStore(w) \/ GetOld(w)
         \/ StartChecks(w) \/ StopWatch(w)
         \/ \E i \in Id : StartWatchOne(w, i) \/ PruneAsk(w, i) \/ Lookup(w, i)
  PROVE  AsAnswered'
<1>1. UNCHANGED <<db, answered, repeated>>
  BY DEF StartWatch, List, ListFails, ReadStore, GetOld, StartChecks, StopWatch,
     StartWatchOne, PruneAsk, Lookup, storeVars, history
<1>2. StoredAsAnswered' /\ repeated' = {}
  BY <1>1 DEF AsAnswered, StoredAsAnswered, Stored, Get
<1>3. pc \in [Watch -> {"idle", "listing", "reading", "read", "pruning",
                        "checking"}]
  BY DEF Typed, TypeOK, WatchOK
<1>4. CASE GetOld(w)
  <2>1. \A i \in Id : Stored(i) /\ answered[i] \in Result
                         => Get(i).result = answered[i]
    BY DEF AsAnswered, StoredAsAnswered
  <2>2. OldAsAnswered'
    BY <1>1, <1>4, <2>1 DEF GetOld, AsAnswered, OldAsAnswered, Typed, TypeOK, WatchOK
  <2>3. QED  BY <1>2, <2>2 DEF AsAnswered
<1>5. CASE StartChecks(w)
  <2>1. \A i \in Id : old[w][i] = None  BY <1>5 DEF StartChecks, Nothing
  <2>2. /\ UNCHANGED old
        /\ \A v \in Watch : v # w => pc'[v] = pc[v]
    BY <1>3, <1>5 DEF StartChecks
  <2>3. OldAsAnswered'  BY <1>1, <2>1, <2>2 DEF AsAnswered, OldAsAnswered
  <2>4. QED  BY <1>2, <2>3 DEF AsAnswered
<1>6. CASE ~GetOld(w) /\ ~StartChecks(w)
  <2>1. /\ UNCHANGED old
        /\ \A v \in Watch : pc[v] = "pruning" => pc'[v] = "pruning"
    BY <1>3, <1>6 DEF StartWatch, List, ListFails, ReadStore, StopWatch,
       StartWatchOne, PruneAsk, Lookup
  <2>2. OldAsAnswered'  BY <1>1, <2>1 DEF AsAnswered, OldAsAnswered
  <2>3. QED  BY <1>2, <2>2 DEF AsAnswered
<1>7. QED  BY <1>4, <1>5, <1>6

LEMMA NextAnswered ==
  ASSUME OneWatch, NoSlowWriter, Typed, AsAnswered, [Next]_vars
  PROVE  AsAnswered'
<1>1. NoJobs'  BY NextNoJobs DEF AsAnswered
<1>2. CASE World \/ UNCHANGED vars
  <2>1. UNCHANGED <<answered, repeated, old, pc, db>>
    BY <1>2 DEF World, Create, Remove, Switch, Publish, vars, storeVars,
       watchVars, history
  <2>2. QED  BY <1>1, <2>1, SameAnswered DEF Stored, Get
<1>3. ASSUME NEW w \in Watch, WatchNext(w)  PROVE AsAnswered'
  BY <1>1, <1>3, ReadingAnswered, PruneAnswered, ReportAnswered
  DEF WatchNext, WatchStep
<1>4. ASSUME NEW j \in Job  PROVE ~JobStep(j)
  BY DEF NoSlowWriter, AsAnswered, NoJobs, JobStep, StartJob, FinishScan,
     FinishGate, ActionDone, FinishAction, JobFails
<1>5. QED  BY <1>1, <1>2, <1>3, <1>4, UserAnswered DEF Next

\* A once-only trigger is told of a result again only after another answer of
\* the registry: if watches do not overlap and nothing that waits writes to the
\* store, whatever users do with policies, deletions and single watches.
THEOREM ToldOnce == OneWatch /\ NoSlowWriter /\ Spec => []OncePerResult
<1> SUFFICES ASSUME OneWatch, NoSlowWriter  PROVE Spec => []OncePerResult
  OBVIOUS
<1>1. Init => AsAnswered
  BY DEF Init, AsAnswered, NoJobs, StoredAsAnswered, OldAsAnswered, Stored, Nothing
<1>2. Typed /\ AsAnswered /\ [Next]_vars => Typed' /\ AsAnswered'
  BY NextTyped, NextAnswered
<1>3. AsAnswered => OncePerResult  BY DEF AsAnswered, OncePerResult
<1>4. QED  BY <1>1, <1>2, <1>3, InitTyped, PTL DEF Spec

\* The followers of the added and removed events know the stored containers.
\* A prune writes back only copies of containers that are still stored, if no
\* other watch or call may take one away while it waits for its inspect.
OldStored == \A w \in Watch, i \in Id : old[w][i] # None => Stored(i)
Heard     == NoJobs /\ AnnouncedIsStored /\ OldStored

\* A step that adds no document and takes none away.
LEMMA SameHeard ==
  ASSUME Heard, NoJobs', UNCHANGED <<announced, old>>,
         \A i \in Id : Stored(i)' <=> Stored(i)
  PROVE  Heard'
  BY DEF Heard, AnnouncedIsStored, OldStored

LEMMA UpdateHeard ==
  ASSUME Typed, NEW i \in Id, NEW d \in Doc, Stored(i), UpdateContainer(i, d)
  PROVE  announced' = announced /\ \A k \in Id : Stored(k)' <=> Stored(k)
<1>1. db \in [Id -> Seq(Doc)]  BY DEF Typed, TypeOK, StoreOK
<1>2. \A k \in Id : k # i => db'[k] = db[k]  BY <1>1, AfterWrite
<1>3. Stored(i)'  BY <1>1, AfterWrite
<1>4. QED  BY <1>2, <1>3 DEF Stored, UpdateContainer

LEMMA WatchHeard ==
  ASSUME OneWatch, Typed, Heard, NEW w \in Watch, WatchNext(w), NoJobs'
  PROVE  Heard'
<1>1. db \in [Id -> Seq(Doc)]  BY DEF Typed, TypeOK, StoreOK
<1>2. CASE PruneApply(w)
  <2>0. PICK i \in Id : i = asked[w].id
    BY <1>2 DEF PruneApply, Typed, TypeOK, WatchOK
  <2> DEFINE d == [old[w][i] EXCEPT !.status = asked[w].seen]
  <2>1. /\ asked[w].seen \in Status \cup {Error}
        /\ old[w][i] \in Doc /\ Stored(i)
    BY <1>2, <2>0 DEF PruneApply, Typed, TypeOK, WatchOK, AskedIsOld, Heard, OldStored
  <2>2. /\ asked[w].seen = Error => DeleteContainer(i)
        /\ asked[w].seen # Error => UpdateContainer(i, d)
        /\ old' = [old EXCEPT ![w][i] = None]
    BY <1>2, <2>0 DEF PruneApply
  <2>3. \A k \in Id : old'[w][k] # None => k # i /\ Stored(k)
    BY <2>0, <2>2 DEF Heard, OldStored, Typed, TypeOK, WatchOK
  <2>4. CASE asked[w].seen = Error
    <3>1. /\ announced' = announced \ {i} /\ ~Stored(i)'
          /\ \A k \in Id : k # i => (Stored(k)' <=> Stored(k))
      BY <1>1, <2>1, <2>2, <2>4 DEF DeleteContainer, Stored
    <3>2. AnnouncedIsStored'  BY <3>1 DEF Heard, AnnouncedIsStored
    <3>3. OldStored'  BY <2>3, <3>1 DEF OldStored, OneWatch
    <3>4. QED  BY <3>2, <3>3 DEF Heard
  <2>5. CASE asked[w].seen # Error
    <3>1. d \in Doc  BY <2>1, <2>5, DocType
    <3> HIDE DEF d
    <3>2. announced' = announced /\ \A k \in Id : Stored(k)' <=> Stored(k)
      BY <2>1, <2>2, <2>5, <3>1, UpdateHeard
    <3>3. AnnouncedIsStored'  BY <3>2 DEF Heard, AnnouncedIsStored
    <3>4. OldStored'  BY <2>3, <3>2 DEF OldStored, OneWatch
    <3>5. QED  BY <3>3, <3>4 DEF Heard
  <2>6. QED  BY <2>4, <2>5
<1>3. ASSUME NEW i \in Id, Report(w, i)  PROVE Heard'
  <2>1. copy[w][i] \in Doc /\ answer[w][i] \in Result \cup {Error}
    BY <1>3 DEF Report, Typed, TypeOK, WatchOK
  <2>2. Checked(w, i) \in Doc  BY <2>1, DocType DEF Checked
  <2>3. UNCHANGED old  BY <1>3 DEF Report
  <2>4. CASE Stored(i)
    BY <1>3, <2>2, <2>3, <2>4, UpdateHeard, SameHeard DEF Report
  <2>5. CASE ~Stored(i)
    <3>1. InsertContainer(i, Checked(w, i))  BY <1>3, <2>5 DEF Report
    <3>2. /\ announced' = announced \cup {i} /\ Stored(i)'
          /\ \A k \in Id : k # i => (Stored(k)' <=> Stored(k))
      BY <1>1, <2>2, <2>5, <3>1, AfterWrite DEF InsertContainer, Stored
    <3>3. AnnouncedIsStored'  BY <3>2 DEF Heard, AnnouncedIsStored
    <3>4. OldStored'  BY <2>3, <3>2 DEF Heard, OldStored
    <3>5. QED  BY <3>3, <3>4 DEF Heard
  <2>6. QED  BY <2>4, <2>5
<1>4. CASE GetOld(w)
  <2>1. UNCHANGED <<db, announced>>  BY <1>4 DEF GetOld, storeVars
  <2>2. OldStored'
    BY <1>4, <2>1 DEF GetOld, Heard, OldStored, Typed, TypeOK, WatchOK, Stored
  <2>3. QED  BY <2>1, <2>2 DEF Heard, AnnouncedIsStored, Stored
<1>5. CASE ~PruneApply(w) /\ ~GetOld(w) /\ ~\E i \in Id : Report(w, i)
  <2>1. UNCHANGED <<db, announced, old>>
    BY <1>5 DEF WatchNext, WatchStep, StartWatch, StartWatchOne, ListFails, List,
       ReadStore, PruneAsk, Lookup, StartChecks, StopWatch, storeVars
  <2>2. QED  BY <2>1, SameHeard DEF Stored
<1>6. QED  BY <1>2, <1>3, <1>4, <1>5

LEMMA NextHeard ==
  ASSUME OneWatch, NoSlowWriter, "delete" \notin Calls, Typed, Heard, [Next]_vars
  PROVE  Heard'
<1>1. NoJobs'  BY NextNoJobs DEF Heard
<1>2. CASE World \/ UNCHANGED vars
  <2>1. UNCHANGED <<db, announced, old>>
    BY <1>2 DEF World, Create, Remove, Switch, Publish, vars, storeVars, watchVars
  <2>2. QED  BY <1>1, <2>1, SameHeard DEF Stored
<1>3. CASE Api
  <2>1. UNCHANGED old  BY <1>3 DEF Api, SkipCurrent, ClearPolicy, DeleteCall, watchVars
  <2>2. PICK i \in Id : SkipCurrent(i) \/ ClearPolicy(i)
    BY <1>3 DEF Api, DeleteCall
  <2>3. Stored(i) /\ Get(i) \in Doc
    BY <2>2, GetType DEF SkipCurrent, ClearPolicy, Typed, TypeOK, StoreOK
  <2>4. CASE SkipCurrent(i)
    <3> DEFINE p == (IF Falsy(Get(i).updatePolicy) THEN {}
                     ELSE Get(i).updatePolicy) \cup {Get(i).result}
               d == [Get(i) EXCEPT !.updatePolicy = p]
    <3>1. p \in Policy
      BY <2>3, <2>4 DEF SkipCurrent, HasUpdate, Falsy, Doc, Policy
    <3>2. d \in Doc  BY <2>3, <3>1, DocType
    <3>3. UpdateContainer(i, d)  BY <2>4 DEF SkipCurrent
    <3> HIDE DEF d
    <3>4. QED  BY <1>1, <2>1, <2>3, <3>2, <3>3, UpdateHeard, SameHeard
  <2>5. CASE ClearPolicy(i)
    <3> DEFINE d == [Get(i) EXCEPT !.updatePolicy = None]
    <3>1. d \in Doc  BY <2>3, DocType
    <3>2. UpdateContainer(i, d)  BY <2>5 DEF ClearPolicy
    <3> HIDE DEF d
    <3>3. QED  BY <1>1, <2>1, <2>3, <3>1, <3>2, UpdateHeard, SameHeard
  <2>6. QED  BY <2>2, <2>4, <2>5
<1>4. ASSUME NEW e \in Event, EventStep(e)  PROVE Heard'
  <2>1. UNCHANGED old
    BY <1>4 DEF EventStep, InspectEvent, ApplyEvent, watchVars
  <2>2. CASE UNCHANGED storeVars
    BY <1>1, <2>1, <2>2, SameHeard DEF Stored, storeVars
  <2>3. CASE ~UNCHANGED storeVars
    <3> DEFINE i == event[e].id
               d == [Get(i) EXCEPT !.status = event[e].seen]
    <3>1. /\ i \in Id /\ event[e].seen \in Status /\ Stored(i)
          /\ UpdateContainer(i, d)
      BY <1>4, <2>3 DEF EventStep, InspectEvent, ApplyEvent, Typed, TypeOK, TaskOK
    <3>2. Get(i) \in Doc  BY <3>1, GetType, SMTT(30) DEF Typed, TypeOK, StoreOK
    <3>3. d \in Doc  BY <3>1, <3>2, DocType
    <3> HIDE DEF d
    <3>4. QED  BY <1>1, <2>1, <3>1, <3>3, UpdateHeard, SameHeard
  <2>4. QED  BY <2>2, <2>3
<1>5. ASSUME NEW j \in Job  PROVE ~JobStep(j)
  BY DEF NoSlowWriter, Heard, NoJobs, JobStep, StartJob, FinishScan,
     FinishGate, ActionDone, FinishAction, JobFails
<1>6. QED  BY <1>1, <1>2, <1>3, <1>4, <1>5, WatchHeard DEF Next

\* The UI and a controller that follow dd:container-added and
\* dd:container-removed know exactly the stored containers, if watches do not
\* overlap, nothing that waits writes to the store and users delete nothing.
THEOREM FollowersKnow ==
  OneWatch /\ NoSlowWriter /\ "delete" \notin Calls /\ Spec => []AnnouncedIsStored
<1> SUFFICES ASSUME OneWatch, NoSlowWriter, "delete" \notin Calls
             PROVE  Spec => []AnnouncedIsStored
  OBVIOUS
<1>1. Init => Heard
  BY DEF Init, Heard, NoJobs, AnnouncedIsStored, OldStored, Stored, Nothing
<1>2. Typed /\ Heard /\ [Next]_vars => Typed' /\ Heard'
  BY NextTyped, NextHeard
<1>3. Heard => AnnouncedIsStored  BY DEF Heard
<1>4. QED  BY <1>1, <1>2, <1>3, InitTyped, PTL DEF Spec
-------------------------------------------------------------------------------
(***************************************************************************)
(* Pruning.  A container whose document is stored, listed, copied or held  *)
(* by a call was created before, and a prune that saw an error asked when  *)
(* its container was gone; so it removes no document of one that exists.   *)
(***************************************************************************)
Created(i) == docker[i] # "none"

DbCreated   == \A i \in Id : Stored(i) => Created(i)
WatchCreated == \A w \in Watch, i \in Id :
                  listed[w][i] # None \/ copy[w][i] # None \/ old[w][i] # None => Created(i)
OnlyCreated == \A w \in Watch : only[w] # None => Created(only[w].id)
JobCreated  == \A j \in Job : job[j] # None => Created(job[j].id)
AskedGone   == \A w \in Watch : asked[w] # None /\ asked[w].seen = Error
                                  => docker[asked[w].id] = "gone"
AllCreated  == DbCreated /\ WatchCreated /\ OnlyCreated /\ JobCreated /\ AskedGone

\* A container stays created, and one that is gone never comes back.
LEMMA DockerMoves ==
  ASSUME Typed, [Next]_vars, NEW i \in Id
  PROVE  (Created(i) => Created(i)') /\ (docker[i] = "gone" => docker'[i] = "gone")
<1> USE DEF Created
<1>1. docker \in [Id -> Status \cup {"none", "gone"}]
  BY DEF Typed, TypeOK, WorldOK
<1>2. ASSUME NEW k \in Id, Create(k) \/ Remove(k) \/ \E s \in Status : Switch(k, s)
      PROVE  (docker[i] # "none" => docker'[i] # "none") /\ (docker[i] = "gone" => docker'[i] = "gone")
  BY <1>1, <1>2 DEF Create, Remove, Switch, Exists, Status
<1>3. ASSUME NEW j \in Job, NEW s \in Status, ActionDone(j, s)
      PROVE  (docker[i] # "none" => docker'[i] # "none") /\ (docker[i] = "gone" => docker'[i] = "gone")
  BY <1>1, <1>3 DEF ActionDone, Exists, Status
<1>4. ASSUME NEW j \in Job, JobStep(j), ~\E s \in Status : ActionDone(j, s)
      PROVE  UNCHANGED docker
  BY <1>4 DEF JobStep, StartJob, FinishScan, FinishGate, FinishAction, JobFails, dockerVars
<1>5. ASSUME NEW w \in Watch, WatchNext(w) PROVE UNCHANGED docker
  BY <1>5 DEF WatchNext, WatchStep, StartWatch, StartWatchOne, ListFails, List, ReadStore,
     GetOld, PruneAsk, Lookup, Report, PruneApply, StartChecks, StopWatch, dockerVars
<1>6. ASSUME NEW e \in Event, EventStep(e) PROVE UNCHANGED docker
  BY <1>6 DEF EventStep, InspectEvent, ApplyEvent, dockerVars
<1>7. ASSUME Api \/ (\E r \in Result : Publish(r)) \/ UNCHANGED vars PROVE UNCHANGED docker
  BY <1>7 DEF Api, SkipCurrent, ClearPolicy, DeleteCall, Publish, vars, dockerVars
<1> QED BY <1>2, <1>3, <1>4, <1>5, <1>6, <1>7 DEF Next, World

\* What the store, the watch runs and the calls keep stays created.
LEMMA SameCreated ==
  ASSUME Typed, AllCreated, [Next]_vars
  PROVE  /\ UNCHANGED db => DbCreated'
         /\ UNCHANGED <<listed, copy, old>> => WatchCreated'
         /\ UNCHANGED only => OnlyCreated'
         /\ UNCHANGED job => JobCreated'
         /\ UNCHANGED asked => AskedGone'
<1>1. \A i \in Id : (Created(i) => Created(i)') /\ (docker[i] = "gone" => docker'[i] = "gone")
  BY DockerMoves
<1>2. UNCHANGED db => DbCreated'
  BY <1>1 DEF AllCreated, DbCreated, Stored
<1>3. UNCHANGED <<listed, copy, old>> => WatchCreated'
  BY <1>1 DEF AllCreated, WatchCreated
<1>4. ASSUME UNCHANGED only PROVE OnlyCreated'
  <2>1. \A w \in Watch : only[w] # None => only[w].id \in Id
    BY DEF Typed, TypeOK, WatchOK
  <2> QED BY <1>1, <1>4, <2>1 DEF AllCreated, OnlyCreated, Created
<1>5. ASSUME UNCHANGED job PROVE JobCreated'
  <2>1. \A j \in Job : job[j] # None => job[j].id \in Id
    BY DEF Typed, TypeOK, TaskOK
  <2> QED BY <1>1, <1>5, <2>1 DEF AllCreated, JobCreated, Created
<1>6. ASSUME UNCHANGED asked PROVE AskedGone'
  <2>1. \A w \in Watch : asked[w] # None => asked[w].id \in Id
    BY DEF Typed, TypeOK, WatchOK
  <2> QED BY <1>1, <1>6, <2>1 DEF AllCreated, AskedGone
<1> QED BY <1>2, <1>3, <1>4, <1>5, <1>6

\* A write of one document of a created container.
LEMMA WriteCreated ==
  ASSUME Typed, AllCreated, [Next]_vars, NEW i \in Id, Created(i),
         NEW ds, db' = [db EXCEPT ![i] = ds]
  PROVE  DbCreated'
<1>1. \A k \in Id : (Created(k) => Created(k)')
  BY DockerMoves
<1>2. \A k \in Id : k # i => db'[k] = db[k]
  BY DEF Typed, TypeOK, StoreOK
<1> QED BY <1>1, <1>2 DEF AllCreated, DbCreated, Stored

LEMMA WatchCreates ==
  ASSUME ~Flaky, Typed, AllCreated, [Next]_vars, NEW w \in Watch, WatchNext(w)
  PROVE  AllCreated'
<1>1. /\ listed \in [Watch -> [Id -> Status \cup {None}]]
      /\ copy \in [Watch -> [Id -> Doc \cup {None}]] /\ old \in [Watch -> [Id -> Doc \cup {None}]]
      /\ asked \in [Watch -> [id : Id, seen : Status \cup {Error}] \cup {None}]
      /\ only \in [Watch -> [id : Id, doc : Doc] \cup {None}]
      /\ docker \in [Id -> Status \cup {"none", "gone"}]
      /\ db \in [Id -> Seq(Doc)]
  BY DEF Typed, TypeOK, WatchOK, WorldOK, StoreOK
<1>2. \A i \in Id : (Created(i) => Created(i)') /\ (docker[i] = "gone" => docker'[i] = "gone")
  BY DockerMoves
<1>3. UNCHANGED <<docker, job>>
  BY DEF WatchNext, WatchStep, StartWatch, StartWatchOne, ListFails, List, ReadStore,
     GetOld, PruneAsk, Lookup, Report, PruneApply, StartChecks, StopWatch, dockerVars, taskVars
<1>4. /\ DbCreated /\ WatchCreated /\ OnlyCreated /\ JobCreated /\ AskedGone
      /\ JobCreated' /\ (UNCHANGED db => DbCreated')
      /\ (UNCHANGED <<listed, copy, old>> => WatchCreated')
      /\ (UNCHANGED only => OnlyCreated') /\ (UNCHANGED asked => AskedGone')
  BY <1>3, SameCreated DEF AllCreated
<1>5. CASE StartWatch(w) \/ StopWatch(w) \/ (\E i \in Id : Lookup(w, i))
  <2>1. UNCHANGED <<db, listed, copy, old, only, asked>>
    BY <1>5 DEF StartWatch, StopWatch, Lookup, storeVars
  <2> QED BY <1>4, <2>1 DEF AllCreated
<1>6. CASE ListFails(w) \/ \E i \in Id : StartWatchOne(w, i)
  <2>1. UNCHANGED <<db, listed, copy, old, asked>>
    BY <1>6 DEF ListFails, StartWatchOne, storeVars
  <2>2. ASSUME NEW v \in Watch, only'[v] # None
        PROVE  docker'[only'[v].id] # "none"
    <3>1. CASE ListFails(w)
      <4>1. only' = [only EXCEPT ![w] = None]
        BY <3>1 DEF ListFails
      <4> QED BY <1>1, <1>3, <1>4, <2>2, <4>1 DEF OnlyCreated, Created
    <3>2. ASSUME NEW i \in Id, StartWatchOne(w, i) PROVE docker'[only'[v].id] # "none"
      <4>1. only' = [only EXCEPT ![w] = [id |-> i, doc |-> Get(i)]] /\ Stored(i)
        BY <3>2 DEF StartWatchOne
      <4> QED BY <1>1, <1>3, <1>4, <2>2, <4>1 DEF OnlyCreated, DbCreated, Created
    <3> QED BY <1>6, <3>1, <3>2
  <2>3. OnlyCreated'
    BY <2>2 DEF OnlyCreated, Created
  <2> QED BY <1>4, <2>1, <2>3 DEF AllCreated
<1>7. CASE List(w)
  <2>1. UNCHANGED <<db, copy, old, only, asked>>
    BY <1>7 DEF List, storeVars
  <2>2. WatchCreated'
    BY <1>1, <1>3, <1>4, <1>7, <2>1 DEF List, WatchCreated, Created
  <2> QED BY <1>4, <2>1, <2>2 DEF AllCreated
<1>8. CASE ReadStore(w)
  <2>1. UNCHANGED <<db, old, only, asked>>
    BY <1>8 DEF ReadStore, storeVars
  <2>2. \A v \in Watch, i \in Id : /\ v # w => copy'[v] = copy[v] /\ listed'[v] = listed[v]
                                   /\ copy'[w][i] # None => listed[w][i] # None
                                   /\ listed'[w][i] = None
    BY <1>1, <1>8 DEF ReadStore, Nothing
  <2>3. ASSUME NEW v \in Watch, NEW i \in Id,
               listed'[v][i] # None \/ copy'[v][i] # None \/ old'[v][i] # None
        PROVE  Created(i)
    BY <1>4, <2>1, <2>2, <2>3 DEF WatchCreated
  <2>4. WatchCreated'
    BY <1>2, <2>3 DEF WatchCreated
  <2> QED BY <1>4, <2>1, <2>4 DEF AllCreated
<1>9. CASE GetOld(w)
  <2>1. UNCHANGED <<db, listed, copy, only, asked>>
    BY <1>9 DEF GetOld, storeVars
  <2>2. \A v \in Watch, i \in Id : /\ v # w => old'[v] = old[v]
                                   /\ old'[w][i] # None => Stored(i)
    BY <1>1, <1>9 DEF GetOld
  <2>3. ASSUME NEW v \in Watch, NEW i \in Id,
               listed'[v][i] # None \/ copy'[v][i] # None \/ old'[v][i] # None
        PROVE  Created(i)
    BY <1>4, <2>1, <2>2, <2>3 DEF WatchCreated, DbCreated
  <2>4. WatchCreated'
    BY <1>2, <2>3 DEF WatchCreated
  <2> QED BY <1>4, <2>1, <2>4 DEF AllCreated
<1>10. ASSUME NEW i \in Id, PruneAsk(w, i) PROVE AllCreated'
  <2>1. UNCHANGED <<db, listed, copy, old, only>>
    BY <1>10 DEF PruneAsk, storeVars
  <2>2. PICK s \in Inspect(i) : asked' = [asked EXCEPT ![w] = [id |-> i, seen |-> s]]
    BY <1>10 DEF PruneAsk
  <2>3. s = Error => docker[i] = "gone"
    <3>1. Created(i)
      BY <1>4, <1>10 DEF PruneAsk, WatchCreated
    <3> QED BY <1>1, <2>2, <3>1, StatusAssumption DEF Inspect, Exists, Created
  <2>4. \A v \in Watch : asked'[v] = IF v = w THEN [id |-> i, seen |-> s] ELSE asked[v]
    BY <1>1, <2>2
  <2>5. AskedGone'
    BY <1>3, <1>4, <2>3, <2>4 DEF AskedGone
  <2> QED BY <1>4, <2>1, <2>5 DEF AllCreated
<1>11. CASE PruneApply(w)
  <2> DEFINE i == asked[w].id
  <2>1. /\ i \in Id /\ old[w][i] # None /\ UNCHANGED <<listed, copy, only>>
        /\ old' = [old EXCEPT ![w][i] = None] /\ asked' = [asked EXCEPT ![w] = None]
    BY <1>1, <1>11 DEF PruneApply, Typed, AskedIsOld
  <2>2. \E ds : db' = [db EXCEPT ![i] = ds]
    BY <1>11 DEF PruneApply, DeleteContainer, UpdateContainer
  <2>3. Created(i)
    BY <1>4, <2>1 DEF WatchCreated
  <2> HIDE DEF i
  <2>4. DbCreated'
    BY <2>1, <2>2, <2>3, WriteCreated
  <2>5. \A v \in Watch, k \in Id : old'[v][k] # None => old[v][k] # None
    BY <1>1, <2>1
  <2>6. WatchCreated'
    BY <1>2, <1>4, <2>1, <2>5 DEF WatchCreated
  <2>7. AskedGone'
    BY <1>1, <1>3, <1>4, <2>1 DEF AskedGone
  <2> QED BY <1>4, <2>1, <2>4, <2>6, <2>7 DEF AllCreated
<1>12. CASE StartChecks(w)
  <2>1. UNCHANGED <<db, listed, old, asked>>
    BY <1>12 DEF StartChecks, storeVars
  <2>2. only' = [only EXCEPT ![w] = None]
    BY <1>12 DEF StartChecks
  <2>3. OnlyCreated'
    BY <1>1, <1>3, <1>4, <2>2 DEF OnlyCreated, Created
  <2>4. \A v \in Watch, i \in Id : copy'[v][i] # None => copy[v][i] # None
    <3> TAKE v \in Watch, i \in Id
    <3>1. CASE v # w
      BY <1>1, <1>12, <3>1 DEF StartChecks
    <3>2. CASE v = w
      BY <1>1, <1>12, <3>2 DEF StartChecks, Reset
    <3> QED BY <3>1, <3>2
  <2>5. WatchCreated'
    BY <1>2, <1>4, <2>1, <2>4 DEF WatchCreated
  <2> QED BY <1>4, <2>1, <2>3, <2>5 DEF AllCreated
<1>13. ASSUME NEW i \in Id, Report(w, i) PROVE AllCreated'
  <2>1. UNCHANGED <<listed, old, only, asked>> /\ copy' = [copy EXCEPT ![w][i] = None]
    BY <1>13 DEF Report
  <2>2. \E ds : db' = [db EXCEPT ![i] = ds]
    BY <1>13 DEF Report, UpdateContainer, InsertContainer
  <2>3. Created(i)
    BY <1>4, <1>13 DEF WatchCreated, Report
  <2>4. DbCreated'
    BY <2>2, <2>3, WriteCreated
  <2>5. \A v \in Watch, k \in Id : copy'[v][k] # None => copy[v][k] # None
    BY <1>1, <2>1
  <2>6. WatchCreated'
    BY <1>2, <1>4, <2>1, <2>5 DEF WatchCreated
  <2> QED BY <1>4, <2>1, <2>4, <2>6 DEF AllCreated
<1> QED BY <1>5, <1>6, <1>7, <1>8, <1>9, <1>10, <1>11, <1>12, <1>13 DEF WatchNext, WatchStep

LEMMA NextCreated ==
  ~Flaky /\ Typed /\ AllCreated /\ [Next]_vars => AllCreated'
<1> SUFFICES ASSUME ~Flaky, Typed, AllCreated, [Next]_vars PROVE AllCreated'
  OBVIOUS
<1>1. ASSUME World \/ UNCHANGED vars PROVE AllCreated'
  <2>1. UNCHANGED <<db, listed, copy, old, only, asked, job>>
    BY <1>1 DEF World, Create, Remove, Switch, Publish, vars, storeVars, watchVars, taskVars
  <2> QED BY <2>1, SameCreated DEF AllCreated
<1>2. CASE Api
  <2>1. UNCHANGED <<listed, copy, old, only, asked, job>>
    BY <1>2 DEF Api, SkipCurrent, ClearPolicy, DeleteCall, watchVars, taskVars
  <2>2. PICK i \in Id : Stored(i) /\ \E ds : db' = [db EXCEPT ![i] = ds]
    BY <1>2 DEF Api, SkipCurrent, ClearPolicy, DeleteCall, UpdateContainer, DeleteContainer
  <2>3. DbCreated'
    BY <2>2, WriteCreated DEF AllCreated, DbCreated
  <2> QED BY <2>1, <2>3, SameCreated DEF AllCreated
<1>3. ASSUME NEW e \in Event, EventStep(e) PROVE AllCreated'
  <2>1. UNCHANGED <<listed, copy, old, only, asked, job>>
    BY <1>3 DEF EventStep, InspectEvent, ApplyEvent, watchVars
  <2>2. CASE UNCHANGED db
    BY <2>1, <2>2, SameCreated DEF AllCreated
  <2>3. CASE ~UNCHANGED db
    <3>1. PICK i \in Id : Stored(i) /\ \E ds : db' = [db EXCEPT ![i] = ds]
      BY <1>3, <2>3 DEF EventStep, InspectEvent, ApplyEvent, UpdateContainer, storeVars,
         Typed, TypeOK, TaskOK
    <3>2. DbCreated'
      BY <3>1, WriteCreated DEF AllCreated, DbCreated
    <3> QED BY <2>1, <3>2, SameCreated DEF AllCreated
  <2> QED BY <2>2, <2>3
<1>4. ASSUME NEW j \in Job, JobStep(j) PROVE AllCreated'
  <2>1. UNCHANGED <<listed, copy, old, only, asked>>
    BY <1>4 DEF JobStep, StartJob, FinishScan, FinishGate, ActionDone, FinishAction, JobFails,
       watchVars
  <2>2. job \in [Job -> [kind : Slow, id : Id, doc : Doc, seen : Status \cup {None}] \cup {None}]
    BY DEF Typed, TypeOK, TaskOK
  <2>3. \A h \in Job : job'[h] # None =>
          \/ job[h] # None /\ job'[h].id = job[h].id
          \/ job'[h].id \in Id /\ Stored(job'[h].id)
    <3> TAKE h \in Job
    <3>1. CASE \E k \in Calls \cap Slow, i \in Id : StartJob(j, k, i)
      BY <2>2, <3>1 DEF StartJob
    <3>2. CASE \E s \in Status : ActionDone(j, s)
      <4>1. PICK s \in Status : job[j] # None /\ job' = [job EXCEPT ![j].seen = s]
        BY <3>2 DEF ActionDone
      <4> QED BY <2>2, <4>1
    <3>3. ASSUME job' = [job EXCEPT ![j] = None]
          PROVE  job'[h] # None => job[h] # None /\ job'[h].id = job[h].id
      BY <2>2, <3>3
    <3> QED BY <1>4, <3>1, <3>2, <3>3 DEF JobStep, FinishScan, FinishGate, FinishAction, JobFails
  <2>4. JobCreated'
    <3> SUFFICES ASSUME NEW h \in Job, job'[h] # None PROVE docker'[job'[h].id] # "none"
      BY DEF JobCreated, Created
    <3>1. PICK i \in Id : i = job'[h].id /\ docker[i] # "none"
      BY <2>2, <2>3 DEF AllCreated, JobCreated, DbCreated, Created
    <3>2. docker'[i] # "none"
      BY <3>1, DockerMoves DEF Created
    <3> QED BY <3>1, <3>2
  <2>5. DbCreated'
    <3>1. CASE UNCHANGED db
      BY <3>1, SameCreated
    <3>2. CASE ~UNCHANGED db
      <4>1. job[j] # None /\ \E ds : db' = [db EXCEPT ![job[j].id] = ds]
        BY <1>4, <3>2 DEF JobStep, StartJob, FinishScan, FinishGate, ActionDone, FinishAction,
           JobFails, UpdateContainer, storeVars
      <4>2. job[j].id \in Id /\ Created(job[j].id)
        BY <2>2, <4>1 DEF AllCreated, JobCreated
      <4> QED BY <4>1, <4>2, WriteCreated
    <3> QED BY <3>1, <3>2
  <2> QED BY <2>1, <2>4, <2>5, SameCreated DEF AllCreated
<1> QED BY <1>1, <1>2, <1>3, <1>4, WatchCreates DEF Next

\* Only a user's call and a prune that saw its container gone empty an entry.
LEMMA EmptiedByCallOrPrune ==
  ASSUME Typed, AllCreated, [Next]_vars, NEW i \in Id, Stored(i), db'[i] = <<>>, Exists(i)
  PROVE  DeleteCall(i)
<1>1. db \in [Id -> Seq(Doc)] /\ db[i] # <<>>
  BY DEF Typed, TypeOK, StoreOK, Stored
<1>2. ASSUME NEW k, NEW d, db' = [db EXCEPT ![k] = <<d>>] \/ db' = [db EXCEPT ![k] = Append(@, d)] PROVE FALSE
  <2>1. CASE k = i /\ db' = [db EXCEPT ![k] = <<d>>]
    BY <1>1, <2>1
  <2>2. CASE k = i /\ db' = [db EXCEPT ![k] = Append(@, d)]
    <3>1. Append(db[i], d) = <<>>
      BY <1>1, <2>2
    <3>2. Len(Append(db[i], d)) = Len(db[i]) + 1 /\ Len(db[i]) \in Nat
      BY <1>1
    <3> QED BY <3>1, <3>2
  <2>3. CASE k # i
    BY <1>1, <1>2, <2>3
  <2> QED BY <1>2, <2>1, <2>2, <2>3
<1>3. db' # db
  BY <1>1
<1>4. ASSUME NEW w \in Watch, PruneApply(w) PROVE FALSE
  <2>1. asked[w] # None /\ asked[w].seen = Error /\ db' = [db EXCEPT ![asked[w].id] = <<>>]
    BY <1>2, <1>4 DEF PruneApply, UpdateContainer, DeleteContainer
  <2>2. asked[w].id = i
    BY <1>1, <2>1
  <2>3. docker[i] = "gone"
    BY <2>1, <2>2 DEF AllCreated, AskedGone
  <2> QED BY <2>3 DEF Exists, Status
<1>5. ASSUME NEW w \in Watch, WatchNext(w) PROVE FALSE
  <2>1. ASSUME NEW k \in Id, Report(w, k) PROVE FALSE
    BY <1>2, <2>1 DEF Report, UpdateContainer, InsertContainer
  <2> QED BY <1>3, <1>4, <1>5, <2>1 DEF WatchNext, WatchStep, StartWatch, StartWatchOne, ListFails,
          List, ReadStore, GetOld, PruneAsk, Lookup, StartChecks, StopWatch, storeVars
<1>6. ASSUME NEW j \in Job, JobStep(j) PROVE FALSE
  BY <1>2, <1>3, <1>6 DEF JobStep, StartJob, FinishScan, FinishGate, ActionDone, FinishAction,
     JobFails, UpdateContainer, storeVars
<1>7. ASSUME NEW e \in Event, EventStep(e) PROVE FALSE
  BY <1>2, <1>3, <1>7 DEF EventStep, InspectEvent, ApplyEvent, UpdateContainer, storeVars
<1>8. ~World /\ ~UNCHANGED vars
  BY <1>3 DEF World, Create, Remove, Switch, Publish, vars, storeVars
<1>9. PICK k \in Id : DeleteCall(k)
  BY <1>2, <1>5, <1>6, <1>7, <1>8 DEF Next, Api, SkipCurrent, ClearPolicy, UpdateContainer
<1>10. k = i
  BY <1>1, <1>9 DEF DeleteCall, DeleteContainer
<1> QED BY <1>9, <1>10

\* If an inspect fails only for a container that is gone, pruneOldContainers
\* removes the document of no container that exists, however watches, events,
\* calls and stale copies overlap: only a user's DELETE does.
THEOREM PrunesOnlyGone == ~Flaky /\ Spec => RemovedOnlyWhenGone
<1> SUFFICES ASSUME ~Flaky PROVE Spec => RemovedOnlyWhenGone
  OBVIOUS
<1> DEFINE Only == \A i \in Id : Stored(i) /\ db'[i] = <<>> /\ Exists(i) => DeleteCall(i)
<1>1. Init => AllCreated
  BY DEF Init, AllCreated, DbCreated, WatchCreated, OnlyCreated, JobCreated, AskedGone,
     Stored, Nothing
<1>2. Typed /\ AllCreated /\ [Next]_vars => Typed' /\ AllCreated'
  BY NextTyped, NextCreated
<1>3. Typed /\ AllCreated /\ [Next]_vars => [Only]_vars
  BY EmptiedByCallOrPrune
<1> HIDE DEF Only
<1>4. Spec => [][Only]_vars
  BY <1>1, <1>2, <1>3, InitTyped, PTL DEF Spec
<1> QED BY <1>4 DEF RemovedOnlyWhenGone, Only
===============================================================================
