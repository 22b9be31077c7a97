------------------------------ MODULE DockerEvents ------------------------------
(***************************************************************************)
(* The event stream of Docker as a watcher reads it (onDockerEvent of      *)
(* app/watchers/providers/docker/Docker.ts).  The stream is JSON objects,  *)
(* one a line, that arrive in chunks cut anywhere.  Every chunk runs a     *)
(* handler that awaits the processing of each line, so that handlers       *)
(* overlap and share the buffer.                                           *)
(***************************************************************************)
EXTENDS Naturals, Sequences, FiniteSets, SequencesExt

CONSTANTS
  Events,   \* the stream holds the events 1..Events
  Patient   \* a chunk that ends between an object and its newline comes, and
            \* is dealt with, while no other is

ASSUME EventsAssumption == Events \in Nat /\ Patient \in BOOLEAN

\* An object is cut into two halves at most: the first starts with its brace,
\* the second ends with it.
Token == [event : 1..Events, part : {"head", "tail", "line"}]
PartOf(i) == <<"head", "tail", "line">>[((i - 1) % 3) + 1]
Stream == [i \in 1..3 * Events |-> [event |-> ((i - 1) \div 3) + 1, part |-> PartOf(i)]]

VARIABLES
  sent,      \* how many tokens of the stream have arrived
  buffer,    \* dockerEventsBuffer
  reader,    \* the handlers under way: lines left, and what is awaited
  handed     \* how often an event was given to processDockerEvent

eventVars == <<sent, buffer, reader, handed>>

Reader == [lines : Seq(Seq(Token)), last : BOOLEAN]

EventsTypeOK == /\ sent \in 0..3 * Events
                /\ buffer \in Seq(Token)
                /\ \A i \in DOMAIN reader : /\ reader[i].last \in BOOLEAN
                                            /\ reader[i].lines \in Seq(Seq(Token))
                /\ handed \in [1..Events -> Nat]

EventsInit == /\ sent = 0 /\ buffer = <<>> /\ reader = <<>>
              /\ handed = [e \in 1..Events |-> 0]

-------------------------------------------------------------------------------
\* JSON.parse of a trimmed payload: which event it is, or none.
ParsedAs(text) ==
  {e \in 1..Events : text = <<[event |-> e, part |-> "head"], [event |-> e, part |-> "tail"]>>}

\* processDockerEventPayload: a payload that does not parse is dropped.
HandOver(text) == [e \in 1..Events |-> IF e \in ParsedAs(text) THEN handed[e] + 1 ELSE handed[e]]

\* Mutant: a rest that is no object yet is processed, and cleared, as well.
LooksStarted(text) == text # <<>> /\ Head(text).part = "head"

\* The buffered text starts and ends like an object.
LooksComplete(text) == text # <<>> /\ Head(text).part = "head" /\ Last(text).part = "tail"

\* split('\n'): the complete lines of a text, between its newlines, and what
\* follows the last.  NewLine is where the k-th newline is.
Ends(text) == {i \in DOMAIN text : text[i].part = "line"}
NewLine(text, k) == CHOOSE i \in Ends(text) : Cardinality({j \in Ends(text) : j <= i}) = k
LinesOf(text) ==
  LET start(k) == IF k = 1 THEN 1 ELSE NewLine(text, k - 1) + 1
  IN  [k \in 1..Cardinality(Ends(text)) |-> SubSeq(text, start(k), NewLine(text, k) - 1)]
RestOf(text) ==
  SubSeq(text, IF Ends(text) = {} THEN 1
               ELSE 1 + (CHOOSE i \in Ends(text) : \A j \in Ends(text) : j <= i), Len(text))

(***************************************************************************)
(* A handler goes on with the lines it has left and the buffer as it is    *)
(* now, up to the next await: the next line, then what looks like a whole  *)
(* object without its newline, then it is done.                            *)
(***************************************************************************)
GoOn(others, lines, text) ==
  IF lines # <<>>
  THEN /\ handed' = HandOver(Head(lines))
       /\ reader' = Append(others, [lines |-> Tail(lines), last |-> FALSE])
  ELSE IF LooksComplete(text)
  THEN /\ handed' = HandOver(text)
       /\ reader' = Append(others, [lines |-> <<>>, last |-> TRUE])
  ELSE reader' = others /\ UNCHANGED handed

\* The cut after i tokens is between an object and its newline.
EndsOpen(i) == i > 0 /\ Stream[i].part = "tail"

\* onDockerEvent: a chunk is appended, split, and its first line started.
Chunk ==
  \E end \in (sent + 1)..3 * Events :
    LET text == buffer \o SubSeq(Stream, sent + 1, end) IN
    /\ (Patient /\ (EndsOpen(sent) \/ EndsOpen(end))) => reader = <<>>
    /\ sent' = end
    /\ buffer' = RestOf(text)
    /\ GoOn(reader, LinesOf(text), RestOf(text))

\* The processing a handler awaits is done, and it reads the buffer again.
Resume ==
  \E i \in DOMAIN reader :
    LET others == RemoveAt(reader, i) IN
    /\ UNCHANGED sent
    /\ \/ /\ reader[i].last
          /\ buffer' = <<>> /\ reader' = others
          /\ UNCHANGED handed
       \/ /\ ~reader[i].last
          /\ GoOn(others, reader[i].lines, buffer)
          /\ UNCHANGED buffer

EventsNext == Chunk \/ Resume

EventsSpec == EventsInit /\ [][EventsNext]_eventVars

-------------------------------------------------------------------------------
(***************************************************************************)
(* HandedOnce: however the stream is cut and however long the processing   *)
(* of its events takes, an event is processed at most once, and exactly    *)
(* once when all has arrived and no handler is under way.                  *)
(***************************************************************************)
HandedOnce ==
  /\ \A e \in 1..Events : handed[e] <= 1
  /\ sent = 3 * Events /\ reader = <<>> => \A e \in 1..Events : handed[e] = 1
================================================================================
