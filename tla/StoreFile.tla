------------------------------- MODULE StoreFile -------------------------------
(* The file dd.json. Two databases of the process keep it: the store *)
(* (app/store/index.ts), and the session store, which app/api/auth.ts opens on the *)
(* same path. Each loads the whole file when it starts and saves the whole of what *)
(* it has, so each overwrites what the other has saved since. The audit entries *)
(* stand for all the store alone writes: containers, policies, backups. *)
EXTENDS Naturals, Sequences, FiniteSets, SequencesExt, Ordering

CONSTANTS Versions,     \* of drydock: it is upgraded from 1 to Versions
          Actions,      \* what an audit entry tells
          MaxEntries, MaxStarts,
          Sid,          \* sessions
          NoFile

VARIABLES file,         \* dd.json
          legacy,       \* wud.json, of the predecessor
          processIs,    \* "down", "store" once the store is loaded, "api" once the API is up
          release,      \* the version that runs
          db,           \* the database of the store
          sessions,     \* the database of the session store
          dirtyDb, dirtySessions,
          starts,
          gone          \* history: what was in the file, and by which step it went

fileVars == <<file, legacy, processIs, release, db, sessions, dirtyDb, dirtySessions, starts, gone>>
theFiles == <<file, legacy, gone>>
theRun == <<processIs, release, starts>>

\* A collection that was not created yet is NoFile, as a file that is not there.
NoDb == [version |-> NoFile, audit |-> <<>>, sessions |-> NoFile]
LegacyDb == [version |-> 0, audit |-> <<>>, sessions |-> {}]
Entry == [id : 1..MaxEntries, action : Actions, at : 1..MaxEntries]
Db == [version : Nat \cup {NoFile}, audit : Seq(Entry), sessions : (SUBSET Sid) \cup {NoFile}]

ASSUME FileAssumption ==
  /\ Versions \in Nat \ {0} /\ MaxEntries \in Nat
  /\ NoFile \notin Db /\ \A s \in SUBSET Sid : s # NoFile

StoreFileInit ==
  /\ file = NoFile
  /\ legacy \in {NoFile, LegacyDb}
  /\ processIs = "down" /\ release = 1 /\ db = NoDb /\ sessions = NoDb
  /\ dirtyDb = FALSE /\ dirtySessions = FALSE
  /\ starts = 0 /\ gone = {}

SessionsIn(d) == IF d.sessions = NoFile THEN {} ELSE d.sessions
KeptIn(d) == IF d = NoFile THEN {}
             ELSE {[session |-> FALSE, id |-> e.id] : e \in ToSet(d.audit)}
                  \cup {[session |-> TRUE, id |-> s] : s \in SessionsIn(d)}

WriteFile(d, by) ==
  /\ file' = d
  /\ gone' = gone \cup {[what |-> k, by |-> by] : k \in KeptIn(file) \ KeptIn(d)}

\* Mutant: the file of the predecessor is preferred.
LegacyFirst == IF legacy # NoFile THEN legacy ELSE file

\* init: wud.json is renamed when there is no dd.json.
Opened == IF file = NoFile THEN legacy ELSE file

\* saveAppInfosAndMigrate: a migration deletes the containers of a collection that
\* is not created yet, so it deletes none.
WithAppInfos(d) == [d EXCEPT !.version = release']

StartStore ==
  /\ processIs = "down" /\ starts < MaxStarts
  /\ release' \in {v \in 1..Versions : v >= release}
  /\ processIs' = "store" /\ starts' = starts + 1
  /\ WriteFile(Opened, "start")
  /\ legacy' = IF Opened = file THEN legacy ELSE NoFile
  /\ db' = WithAppInfos(IF Opened = NoFile THEN NoDb ELSE Opened) /\ dirtyDb' = TRUE
  /\ UNCHANGED <<sessions, dirtySessions>>

\* The session store loads the file as it is now, and adds its collection.
StartApi ==
  /\ processIs = "store" /\ processIs' = "api"
  /\ LET d == IF file = NoFile THEN NoDb ELSE file
     IN  /\ sessions' = [d EXCEPT !.sessions = SessionsIn(d)]
         /\ dirtySessions' = (d.sessions = NoFile)
  /\ UNCHANGED <<theFiles, release, starts, db, dirtyDb>>

\* insertAudit: of an event or a call; times do not decrease.
InsertAudit(entry) ==
  /\ processIs # "down"
  /\ entry.id = Len(db.audit) + 1
  /\ db.audit # <<>> => entry.at \in {Last(db.audit).at, Last(db.audit).at + 1}
  /\ db.audit = <<>> => entry.at = 1
  /\ db' = [db EXCEPT !.audit = Append(@, entry)] /\ dirtyDb' = TRUE
  /\ UNCHANGED <<theFiles, theRun, sessions, dirtySessions>>

OpenSession(s) ==
  /\ processIs = "api" /\ s \notin sessions.sessions
  /\ sessions' = [sessions EXCEPT !.sessions = @ \cup {s}] /\ dirtySessions' = TRUE
  /\ UNCHANGED <<theFiles, theRun, db, dirtyDb>>

\* Of each database every five seconds, when a collection of it changed.
SaveDb ==
  /\ processIs # "down" /\ dirtyDb
  /\ WriteFile(db, "store") /\ dirtyDb' = FALSE
  /\ UNCHANGED <<legacy, theRun, db, sessions, dirtySessions>>

SaveSessions ==
  /\ processIs = "api" /\ dirtySessions
  /\ WriteFile(sessions, "sessions") /\ dirtySessions' = FALSE
  /\ UNCHANGED <<legacy, theRun, db, sessions, dirtyDb>>

\* A crash, or a stop: nothing is saved at the end.
ProcessEnds ==
  /\ processIs # "down" /\ processIs' = "down"
  /\ db' = NoDb /\ sessions' = NoDb /\ dirtyDb' = FALSE /\ dirtySessions' = FALSE
  /\ UNCHANGED <<theFiles, release, starts>>

\* A user goes back to wud and returns.
WudRuns ==
  /\ processIs = "down" /\ starts > 0 /\ legacy = NoFile /\ legacy' = LegacyDb
  /\ UNCHANGED <<file, gone, theRun, db, sessions, dirtyDb, dirtySessions>>

StoreFileNext ==
  \/ StartStore \/ StartApi \/ SaveDb \/ SaveSessions \/ ProcessEnds \/ WudRuns
  \/ \E entry \in Entry : InsertAudit(entry)
  \/ \E s \in Sid : OpenSession(s)

StoreFileSpec == StoreFileInit /\ [][StoreFileNext]_fileVars

-------------------------------------------------------------------------------
(* What the API lists: getAuditEntries of the store and of api/audit.ts. *)

Matching(query) == {e \in ToSet(db.audit) : /\ query.action \in {NoFile, e.action}
                                            /\ query.from = NoFile \/ e.at >= query.from
                                            /\ query.to = NoFile \/ e.at <= query.to}

\* Newest first; the sort is stable.
IsBefore(d, e) == d.at > e.at \/ (d.at = e.at /\ d.id < e.id)
NewestFirst(found) == InOrder(found, {p \in found \X found : IsBefore(p[1], p[2])})

AuditPage(query, page, limit) ==
  LET all == NewestFirst(Matching(query))
      skip == (page - 1) * limit
  IN  SubSeq(all, skip + 1, IF skip + limit < Len(all) THEN skip + limit ELSE Len(all))

-------------------------------------------------------------------------------
AuditQuery == [action : Actions \cup {NoFile}, from : 1..2 \cup {NoFile}, to : 1..2 \cup {NoFile}]

(* What a save loses is only what the other database wrote: no start, upgrade or *)
(* migration from wud.json loses an entry or a session, the store never drops an *)
(* entry the file has, nor the session store a session, over any order of starts, *)
(* saves and crashes (init and save of both databases). *)
LosesOnlyTheOthers == \A l \in gone : l.by = IF l.what.session THEN "store" ELSE "sessions"

(* The pages of the audit trail list each entry that matches once, a newer one *)
(* before an older one (getAuditEntries). *)
PagesAreWhole ==
  processIs = "api" => \A query \in AuditQuery, limit \in 1..MaxEntries :
    LET listing == [page \in 1..MaxEntries |-> AuditPage(query, page, limit)]
        rows == UNION {{page} \X DOMAIN listing[page] : page \in 1..MaxEntries}
        entry(r) == listing[r[1]][r[2]]
    IN  /\ \A r \in rows : entry(r) \in Matching(query)
        /\ \A e \in Matching(query) : \E r \in rows : \A q \in rows : entry(q) = e <=> q = r
        /\ \A q, r \in rows :
             q[1] < r[1] \/ (q[1] = r[1] /\ q[2] < r[2]) => entry(q).at >= entry(r).at

(* The audit trail is kept: no save loses what it should not, and what is there is *)
(* listed. *)
AuditIsKept == LosesOnlyTheOthers /\ PagesAreWhole
===============================================================================
