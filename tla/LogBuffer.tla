------------------------------- MODULE LogBuffer -------------------------------
(***************************************************************************)
(* The log entries that the API shows (app/log/buffer.ts): a ring of fixed *)
(* size, read from the oldest entry with a minimum level, a component, a   *)
(* time and a number of last entries.                                      *)
(***************************************************************************)
EXTENDS Naturals, Sequences, FiniteSets, SequencesExt, Ordering

CONSTANTS
  Size,      \* MAX_SIZE of the ring
  Level,     \* levels: LEVEL_ORDER
  Part,      \* components
  MaxLogged  \* bound: entries ever logged

ASSUME LogAssumption == Size \in Nat \ {0} /\ Level \subseteq Nat /\ MaxLogged \in Nat

VARIABLES
  ring,    \* buffer
  head,    \* where the next entry goes, from 0
  count,   \* entries in the ring
  logged   \* history: every entry, oldest first; entry i has time i

logVars == <<ring, head, count, logged>>

Entry == [level : Level, component : Part, time : 1..MaxLogged]
NoEntry == [level |-> 0, component |-> "none", time |-> 0]

LogInit == ring = [i \in 0..(Size - 1) |-> NoEntry] /\ head = 0 /\ count = 0 /\ logged = <<>>

\* Mutant: the count goes on.
AddUncapped(e) ==
  /\ ring' = [ring EXCEPT ![head] = e]
  /\ head' = (head + 1) % Size
  /\ count' = IF count <= Size THEN count + 1 ELSE count

\* addEntry
AddEntry(e) ==
  /\ ring' = [ring EXCEPT ![head] = e]
  /\ head' = (head + 1) % Size
  /\ count' = IF count < Size THEN count + 1 ELSE count

\* parseLogChunk
LogLine ==
  /\ Len(logged) < MaxLogged
  /\ \E l \in Level, p \in Part :
       LET e == [level |-> l, component |-> p, time |-> Len(logged) + 1]
       IN  AddEntry(e) /\ logged' = Append(logged, e)

LogNext == LogLine
LogSpec == LogInit /\ [][LogNext]_logVars

-------------------------------------------------------------------------------
\* getStartIndex, readRingBuffer
StartAt(h, n) == (h + Size - n) % Size
Drained == [i \in 1..count |-> ring[(StartAt(head, count) + i - 1) % Size]]

\* applyTail
Tailed(entries, n) == SubSeq(entries, IF Len(entries) > n THEN Len(entries) - n + 1 ELSE 1, Len(entries))

\* meetsMinLevel, matchesComponent, isSince; 0 and "any" are no filter.
Passes(e, min, part, since) == e.level >= min /\ part \in {"any", e.component} /\ e.time >= since

\* getEntries: filter keeps the order.
Entries(min, part, since, tail) ==
  LET passing == {i \in 1..count : Passes(Drained[i], min, part, since)}
      order == InOrder(passing, {p \in passing \X passing : p[1] < p[2]})
  IN  Tailed([n \in 1..Cardinality(passing) |-> Drained[order[n]]], tail)

(***************************************************************************)
(* RingKeepsLast: the ring is read as the last Size entries ever logged,   *)
(* oldest first: none is lost, repeated or out of order when it wraps.     *)
(***************************************************************************)
RingKeepsLast ==
  LET n == IF Len(logged) < Size THEN Len(logged) ELSE Size
  IN  Drained = [i \in 1..n |-> logged[Len(logged) - n + i]]

(***************************************************************************)
(* BufferKeepsLatest: whatever was logged, an answer is the last `tail`    *)
(* entries among the last Size ever logged that pass the filters, oldest   *)
(* first.                                                                  *)
(***************************************************************************)
BufferKeepsLatest ==
  /\ RingKeepsLast
  /\ \A min \in Level \cup {0}, part \in Part \cup {"any"}, since \in 0..Len(logged), tail \in 0..(Size + 1) :
       LET kept == {i \in 1..Len(logged) : i > Len(logged) - Size /\ Passes(logged[i], min, part, since)}
           answer == Entries(min, part, since, tail)
       IN  /\ ToSet(answer) = {logged[i] : i \in {i \in kept : Cardinality({j \in kept : j > i}) < tail}}
           /\ \A i \in 1..(Len(answer) - 1) : answer[i].time < answer[i + 1].time

LogTypeOK == /\ head \in 0..(Size - 1) /\ count \in 0..Size
             /\ ring \in [0..(Size - 1) -> Entry \cup {NoEntry}] /\ logged \in Seq(Entry)
================================================================================
