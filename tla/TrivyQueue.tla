------------------------------- MODULE TrivyQueue -------------------------------
(***************************************************************************)
(* Trivy runs, one at a time (app/security/scan.ts).  enqueueTrivy chains  *)
(* promises: a run waits for the gate of the run that was the tail when it *)
(* was asked for, and opens its own gate when it ends, well or not.  Scans *)
(* and SBOMs for API calls and update gates come at any time; an SBOM is   *)
(* one run for each format.                                                *)
(*                                                                         *)
(* A gate that is open is the same as no gate: opening one removes it from *)
(* those that wait for it.                                                 *)
(***************************************************************************)
EXTENDS Naturals, Sequences

CONSTANTS
  Task,      \* slots for calls of scanImageForVulnerabilities, generateImageSbom
  Formats,   \* bound: runs a call makes
  NoTask

ASSUME TaskAssumption == NoTask \notin Task /\ Formats \in Nat \ {0}

VARIABLES
  run,       \* the Trivy run of a task: idle, queued, running, or ended with
             \* more formats to come
  gate,      \* the task whose gate it waits for
  tail,      \* trivyQueue: the task whose gate is the last
  left,      \* the runs a call has still to make, the current one included
  asked      \* history: the tasks whose run is queued, in the order they asked

trivyVars == <<run, gate, tail, left, asked>>

TrivyTypeOK ==
  /\ run \in [Task -> {"idle", "queued", "running", "ended"}]
  /\ gate \in [Task -> Task \cup {NoTask}] /\ tail \in Task \cup {NoTask}
  /\ left \in [Task -> 0..Formats] /\ asked \in Seq(Task)

TrivyInit == /\ run = [t \in Task |-> "idle"]
             /\ gate = [t \in Task |-> NoTask] /\ tail = NoTask
             /\ left = [t \in Task |-> 0] /\ asked = <<>>

-------------------------------------------------------------------------------
\* Mutant: a run that finds a tail does not become the tail.
EnqueueAside(t) == /\ run' = [run EXCEPT ![t] = "queued"]
                   /\ gate' = [gate EXCEPT ![t] = tail]
                   /\ tail' = IF tail = NoTask THEN t ELSE tail
                   /\ asked' = Append(asked, t)

\* enqueueTrivy: the run waits for the tail, and is the new tail.
Enqueue(t) == /\ run' = [run EXCEPT ![t] = "queued"]
              /\ gate' = [gate EXCEPT ![t] = tail]
              /\ tail' = t
              /\ asked' = Append(asked, t)

\* A call: a scan is one run, an SBOM one for each format.
AskTrivy(t) == /\ run[t] = "idle"
               /\ left' \in {[left EXCEPT ![t] = n] : n \in 1..Formats}
               /\ Enqueue(t)

\* generateImageSbom: the next format is asked for when the last has ended.
AskFormat(t) == /\ run[t] = "ended"
                /\ Enqueue(t) /\ UNCHANGED left

\* The operation is started once the gate before it is open.
StartTrivy(t) == /\ run[t] = "queued" /\ gate[t] = NoTask
                 /\ run' = [run EXCEPT ![t] = "running"]
                 /\ asked' = Tail(asked)
                 /\ UNCHANGED <<gate, tail, left>>

\* Mutant: a run that fails does not open its gate.
OpenIfWell(t) == \/ /\ gate' = [u \in Task |-> IF gate[u] = t THEN NoTask ELSE gate[u]]
                    /\ tail' = IF tail = t THEN NoTask ELSE tail
                 \/ UNCHANGED <<gate, tail>>

\* resolve(): the gate of t opens.
Open(t) == /\ gate' = [u \in Task |-> IF gate[u] = t THEN NoTask ELSE gate[u]]
           /\ tail' = IF tail = t THEN NoTask ELSE tail

\* runCommand settles: Trivy ended, failed, or was killed by the time-out.
EndTrivy(t) ==
  /\ run[t] = "running"
  /\ Open(t)
  /\ run' = [run EXCEPT ![t] = IF left[t] = 1 THEN "idle" ELSE "ended"]
  /\ left' = [left EXCEPT ![t] = @ - 1]
  /\ UNCHANGED asked

TrivyNext == \E t \in Task : AskTrivy(t) \/ AskFormat(t) \/ StartTrivy(t) \/ EndTrivy(t)

TrivySpec == TrivyInit /\ [][TrivyNext]_trivyVars

\* Promises settle, and Trivy ends by its time-out.
TrivyFairness == \A t \in Task : WF_trivyVars(AskFormat(t) \/ StartTrivy(t) \/ EndTrivy(t))

-------------------------------------------------------------------------------
(* The queue implements a lock. *)

Inside == {t \in Task : run[t] = "running"}
TrivyLock == INSTANCE Lock WITH Client <- Task, waiting <- asked, inside <- Inside

(***************************************************************************)
(* RunsTakeTurns: the chain of gates is a lock: Trivy is never run twice   *)
(* at a time, and runs are started in the order they were asked for.       *)
(***************************************************************************)
RunsTakeTurns == TrivyLock!LockSpec

(***************************************************************************)
(* RunsEnd: every call that asks for Trivy is answered, whatever runs      *)
(* before it fail.                                                         *)
(***************************************************************************)
RunsEnd == \A t \in Task : run[t] # "idle" ~> run[t] = "idle"
================================================================================
