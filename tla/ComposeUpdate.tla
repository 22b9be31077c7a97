------------------------------ MODULE ComposeUpdate ------------------------------
(***************************************************************************)
(* The Docker Compose trigger                                              *)
(* (app/triggers/providers/dockercompose/Dockercompose.ts): a batch of     *)
(* containers is grouped by compose file; each file is parsed, read again  *)
(* as text, edited by textual replacement and written back, and then its   *)
(* services are updated side by side.  Batches may overlap (reports of two *)
(* watchers, calls of the API).  How one container is updated is the       *)
(* subject of DockerUpdate; here it passes or fails.                       *)
(***************************************************************************)
EXTENDS Naturals, Sequences, FiniteSets, FiniteSetsExt, SequencesExt

CONSTANTS
  Slot,       \* slots for calls of triggerBatch
  Svc,         \* compose services, each with its container
  FileOf,      \* the compose file of a service
  Files,       \* the files, in the order of a report
  Releases,    \* images of a service, from old to new
  Within,      \* pairs of images of which the first is part of the second's text
  Garbled      \* an image whose text was replaced in part

ASSUME ComposeAssumption == IsFiniteSet(Svc)

VARIABLES
  inFile,      \* the compose files: the image of each service
  runs,        \* the image its container runs
  newest,      \* the image of the update its container has, or the one it runs
  batch,       \* the calls under way
  dryrun,      \* the option, constant
  excused      \* history: services with an update or a write that failed, or
               \* whose declaration was lost to another batch or garbled

composeVars == <<inFile, runs, newest, batch, dryrun, excused>>

NoText == [s \in {} |-> Garbled]
IdleBatch == [at |-> "idle", files |-> <<>>, wants |-> {}, edits |-> {}, text |-> NoText]
AllImages == UNION {ToSet(Releases[s]) : s \in Svc} \cup {Garbled}

ComposeTypeOK ==
  /\ inFile \in [Svc -> AllImages] /\ runs \in [Svc -> AllImages]
  /\ newest \in [Svc -> AllImages] /\ dryrun \in BOOLEAN /\ excused \subseteq Svc
  /\ \A b \in Slot : /\ batch[b].at \in {"idle", "parse", "read", "write", "update"}
                      /\ \A e \in batch[b].edits : e.svc \in Svc /\ e.update \in AllImages

ComposeInit ==
  /\ inFile = [s \in Svc |-> Releases[s][1]] /\ runs = inFile /\ newest = inFile
  /\ dryrun \in BOOLEAN /\ excused = {}
  /\ batch = [b \in Slot |-> IdleBatch]

-------------------------------------------------------------------------------
\* A watch finds a newer image.
NewerFound(s) ==
  /\ \E i \in DOMAIN Releases[s] : /\ newest[s] # Releases[s][i]
                                   /\ newest[s] = runs[s] /\ runs[s] = Releases[s][1]
                                   /\ newest' = [newest EXCEPT ![s] = Releases[s][i]]
  /\ UNCHANGED <<inFile, runs, batch, dryrun, excused>>

\* triggerBatch: the containers with an update, grouped by compose file.
TriggerBatch(b) ==
  /\ batch[b].at = "idle"
  /\ \E ss \in SUBSET {s \in Svc : newest[s] # runs[s]} \ {{}} :
       batch' = [batch EXCEPT ![b] =
         [at |-> "parse", text |-> NoText, edits |-> {},
          files |-> SelectSeq(Files, LAMBDA f : \E s \in ss : FileOf[s] = f),
          wants |-> {[svc |-> s, update |-> newest[s]] : s \in ss}]]
  /\ UNCHANGED <<inFile, runs, newest, dryrun, excused>>

\* The next file, or the end of the batch.
NextFile(call) == IF Len(call.files) = 1 THEN IdleBatch
                  ELSE [call EXCEPT !.at = "parse", !.files = Tail(call.files), !.edits = {}]

\* getComposeFileAsObject and mapCurrentVersionToUpdateVersion: a service whose
\* declaration is the update already is left alone, whatever it runs.
EditsOf(call) ==
  {[svc |-> w.svc, current |-> inFile[w.svc], update |-> w.update] :
     w \in {v \in call.wants : FileOf[v.svc] = Head(call.files) /\ inFile[v.svc] # v.update}}

\* processComposeFile up to its decision.  A file that cannot be read or parsed
\* ends the batch.
ParseFile(b) ==
  /\ batch[b].at = "parse"
  /\ LET edits == EditsOf(batch[b]) IN
     batch' \in {[batch EXCEPT ![b] = IdleBatch],
                 [batch EXCEPT ![b] =
                    IF edits = {} THEN NextFile(@)
                    ELSE [@ EXCEPT !.edits = edits, !.at = IF dryrun THEN "update" ELSE "read"]]}
  /\ UNCHANGED <<inFile, runs, newest, dryrun, excused>>

\* backup, and getComposeFile: the text is read a second time.
ReadText(b) ==
  /\ batch[b].at = "read"
  /\ batch' = [batch EXCEPT ![b].at = "write", ![b].text = inFile]
  /\ UNCHANGED <<inFile, runs, newest, dryrun, excused>>

\* replaceAll
Replaced(text, current, update) ==
  [s \in Svc |-> IF text[s] = current THEN update
                 ELSE IF <<current, text[s]>> \in Within THEN Garbled ELSE text[s]]

\* Mutant: every replacement starts from the text that was read.
EditedOnce(call, order) ==
  LET file == Head(call.files)
      e == order[Len(order)]
      all == Replaced(call.text, e.current, e.update)
  IN  [s \in Svc |-> IF FileOf[s] = file THEN all[s] ELSE inFile[s]]

\* The replacements, one after the other, in the text of the file.
Edited(call, order) ==
  LET file == Head(call.files)
      text[n \in 0..Len(order)] ==
        IF n = 0 THEN call.text
        ELSE Replaced(text[n - 1], order[n].current, order[n].update)
  IN  [s \in Svc |-> IF FileOf[s] = file THEN text[Len(order)][s] ELSE inFile[s]]

\* What the edit does besides what it is for.
Spoilt(call) ==
  {s \in Svc : /\ FileOf[s] = Head(call.files)
               /\ \/ inFile[s] # call.text[s]
                  \/ \E e \in call.edits : s # e.svc /\ call.text[s] = e.current
                  \/ \E e \in call.edits : <<e.current, call.text[s]>> \in Within
                  \/ \E e \in call.edits : e.svc = s /\ call.text[s] # e.current
                  \/ \E d, e \in call.edits : d.svc = s /\ e.svc # s
                       /\ (d.update = e.current \/ <<e.current, d.update>> \in Within)}

\* writeComposeFile: an error is logged, and the updates follow all the same.
WriteFile(b) ==
  /\ batch[b].at = "write"
  /\ batch' = [batch EXCEPT ![b].at = "update", ![b].text = NoText]
  /\ \/ /\ \E order \in SetToSeqs(batch[b].edits) : inFile' = Edited(batch[b], order)
        /\ excused' = excused \cup Spoilt(batch[b])
     \/ /\ UNCHANGED inFile
        /\ excused' = excused \cup {e.svc : e \in batch[b].edits}
  /\ UNCHANGED <<runs, newest, dryrun>>

\* Docker.trigger and runServicePostStartHooks of one service: after the first
\* that fails the others go on, but no further file is processed.
UpdateService(b) ==
  /\ batch[b].at = "update"
  /\ \E e \in batch[b].edits :
       LET rest == batch[b].edits \ {e} IN
       \/ /\ runs' = IF dryrun THEN runs ELSE [runs EXCEPT ![e.svc] = e.update]
          /\ newest' = IF dryrun THEN newest ELSE [newest EXCEPT ![e.svc] = e.update]
          /\ UNCHANGED excused
          /\ batch' = [batch EXCEPT ![b] =
                         IF rest = {} THEN NextFile(@) ELSE [@ EXCEPT !.edits = rest]]
       \/ /\ UNCHANGED <<runs, newest>> /\ excused' = excused \cup {e.svc}
          /\ batch' = [batch EXCEPT ![b] =
                         IF rest = {} THEN IdleBatch
                         ELSE [@ EXCEPT !.edits = rest, !.files = <<Head(batch[b].files)>>]]
  /\ UNCHANGED <<inFile, dryrun>>

ComposeNext ==
  \/ \E s \in Svc : NewerFound(s)
  \/ \E b \in Slot : \/ TriggerBatch(b) \/ ParseFile(b) \/ ReadText(b)
                      \/ WriteFile(b) \/ UpdateService(b)

ComposeSpec == ComposeInit /\ [][ComposeNext]_composeVars

-------------------------------------------------------------------------------
(***************************************************************************)
(* DeclaredRuns: when no batch is under way, every service runs the image  *)
(* its compose file declares, so that "docker compose up" changes nothing, *)
(* unless an update or a write of it has failed, or its declaration was    *)
(* changed by another batch between the two reads and the write or by the  *)
(* replacement of another service's image.                                 *)
(***************************************************************************)
DeclaredRuns ==
  (\A b \in Slot : batch[b].at = "idle") =>
    \A s \in Svc \ excused : runs[s] = inFile[s]
================================================================================
