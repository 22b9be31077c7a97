------------------------------ MODULE HassSensors ------------------------------
(***************************************************************************)
(* The sensors that the MQTT trigger keeps in Home Assistant               *)
(* (app/triggers/providers/mqtt/Hass.ts).  Every container event and every *)
(* start or end of a watch starts a task that publishes retained messages, *)
(* each awaited before the next; tasks of several events are under way at  *)
(* once on one MQTT connection, which acknowledges messages in the order   *)
(* they were published.                                                    *)
(***************************************************************************)
EXTENDS Naturals, Sequences, FiniteSets

CONSTANTS
  Tile,      \* the containers that may be watched
  HostOf,    \* the watcher of each
  MaxTasks   \* bound: tasks under way at once

\* The topics of containers, of watchers and of all have names of their own.
ASSUME SensorAssumption ==
  /\ MaxTasks \in Nat \ {0} /\ IsFiniteSet(Tile)
  /\ {"all", "update"} \cap {HostOf[c] : c \in Tile} = {}

VARIABLES
  discovery,  \* hass.discovery
  tile,       \* the state of each container in the store
  running,    \* the watchers whose watch runs
  line,       \* the tasks under way, in the order their messages were sent
  displayed,      \* topics with a retained discovery message
  value,      \* retained values, of the sensors that have one
  crossed     \* history: watchers whose sensors were removed after a container came

sensorVars == <<discovery, tile, running, line, displayed, value, crossed>>

Host == {HostOf[c] : c \in Tile}
Kinds == <<"total_count", "update_count", "update_status">>
Topics == ((Host \cup {"all"}) \X {Kinds[k] : k \in 1..3}) \cup (Host \X {"running"})
NoCounts == [all |-> <<0, 0, 0>>, own |-> <<0, 0, 0>>]

SensorInit ==
  /\ discovery \in BOOLEAN
  /\ tile = [c \in Tile |-> "absent"] /\ running = {}
  /\ line = <<>> /\ displayed = {} /\ value = [t \in {} |-> 0] /\ crossed = {}

\* The three values of the containers cs.
Counts(cs) ==
  LET outdated == Cardinality({c \in cs : tile'[c] = "outdated"})
  IN  <<Cardinality({c \in cs : tile'[c] # "absent"}), outdated, IF outdated > 0 THEN 1 ELSE 0>>

CountsFor(c) == [all |-> Counts(Tile), own |-> Counts({o \in Tile : HostOf[o] = HostOf[c]})]

(***************************************************************************)
(* Message number `at` of a task: 1 the container's own discovery message, *)
(* or its removal; 2-7 discovery of the counters of all and of its         *)
(* watcher; 8-13 their values; 14-16 removal of the watcher's.  Tasks of a *)
(* watch have number 17, discovery, and 18, the value.                     *)
(***************************************************************************)
Owner(t) == IF t.at \in (2..4) \cup (8..10) THEN "all" ELSE HostOf[t.of]
Topic(t) == CASE t.at = 1 -> <<"update", t.of>>
              [] t.at > 16 -> <<t.of, "running">>
              [] OTHER -> <<Owner(t), Kinds[((t.at - 2) % 3) + 1]>>
Value(t) == CASE t.at = 18 -> IF t.adds THEN 1 ELSE 0
              [] OTHER -> (IF Owner(t) = "all" THEN t.read.all ELSE t.read.own)[((t.at - 2) % 3) + 1]

Removes(t) == t.at \in 14..16 \/ (t.at = 1 /\ ~t.adds)
Publish(t) ==
  /\ displayed' = IF Removes(t) THEN displayed \ {Topic(t)}
                  ELSE IF t.at \in (1..7) \cup {17} THEN displayed \cup {Topic(t)}
                  ELSE displayed
  /\ value' = IF t.at \in (8..13) \cup {18}
              THEN [k \in DOMAIN value \cup {Topic(t)} |-> IF k = Topic(t) THEN Value(t) ELSE value[k]]
              ELSE value
  /\ crossed' = IF t.at \in 14..16 /\ \E c \in Tile : HostOf[c] = HostOf[t.of] /\ tile'[c] # "absent"
                THEN crossed \cup {HostOf[t.of]} ELSE crossed

-------------------------------------------------------------------------------
\* addContainerSensor, removeContainerSensor: called with the store changed.
\* Without discovery the counts are read at once.
TileEvent(c, s) ==
  /\ Len(line) < MaxTasks
  /\ s # tile[c] /\ tile' = [tile EXCEPT ![c] = s]
  /\ LET t == [of |-> c, adds |-> s # "absent", at |-> IF discovery THEN 1 ELSE 8,
               read |-> IF discovery THEN NoCounts ELSE CountsFor(c)]
     IN  line' = Append(line, t) /\ Publish(t)
  /\ UNCHANGED <<discovery, running>>

\* updateWatcherSensors, at the start and at the end of a watch.
WatchEvent(w) ==
  /\ Len(line) < MaxTasks
  /\ running' = IF w \in running THEN running \ {w} ELSE running \cup {w}
  /\ UNCHANGED <<discovery, tile>>
  /\ LET t == [of |-> w, adds |-> w \in running', at |-> IF discovery THEN 17 ELSE 18, read |-> NoCounts]
     IN  line' = Append(line, t) /\ Publish(t)

\* updateContainerSensors reads the counts after its discovery messages.
Continue(t) == [t EXCEPT !.at = t.at + 1, !.read = IF t.at = 7 THEN CountsFor(t.of) ELSE t.read]

\* Mutant: they stay.
EndsSooner(t) == t.at \in {13, 16, 18}

\* The sensors of a watcher go with its last container.
Finishes(t) == t.at \in {16, 18} \/ (t.at = 13 /\ ~(discovery /\ t.read.own[1] = 0))

\* The connection acknowledges the oldest message: its task publishes the next.
Acknowledged ==
  /\ line # <<>>
  /\ UNCHANGED <<discovery, tile, running>>
  /\ IF Finishes(Head(line))
     THEN line' = Tail(line) /\ UNCHANGED <<displayed, value, crossed>>
     ELSE LET t == Continue(Head(line)) IN line' = Append(Tail(line), t) /\ Publish(t)

SensorNext ==
  \/ \E c \in Tile, s \in {"absent", "current", "outdated"} : TileEvent(c, s)
  \/ \E w \in Host : WatchEvent(w)
  \/ Acknowledged

SensorSpec == SensorInit /\ [][SensorNext]_sensorVars

-------------------------------------------------------------------------------
Populated(w) == \E c \in Tile : HostOf[c] = w /\ tile[c] # "absent"
Right(topic) ==
  LET cs == IF topic[1] = "all" THEN Tile ELSE {c \in Tile : HostOf[c] = topic[1]}
      total == Cardinality({c \in cs : tile[c] # "absent"})
      outdated == Cardinality({c \in cs : tile[c] = "outdated"})
  IN  CASE topic[2] = "running" -> IF topic[1] \in running THEN 1 ELSE 0
        [] topic[2] = "total_count" -> total
        [] topic[2] = "update_count" -> outdated
        [] OTHER -> IF outdated > 0 THEN 1 ELSE 0

(***************************************************************************)
(* SensorsSettle: once the messages of all events are published, Home      *)
(* Assistant shows the store: every value is the count of the containers   *)
(* there are now, a container has a sensor exactly while it is stored, and *)
(* a watcher has its counters exactly while it has a container - except    *)
(* where one came back while the counters of the last were being removed.  *)
(***************************************************************************)
SensorsSettle ==
  line = <<>> =>
    /\ \A t \in DOMAIN value : value[t] = Right(t)
    /\ discovery => \A c \in Tile : (<<"update", c>> \in displayed) <=> (tile[c] # "absent")
    /\ discovery => \A w \in Host \ crossed, k \in 1..3 :
                      (<<w, Kinds[k]>> \in displayed) <=> Populated(w)

SensorsTypeOK ==
  /\ discovery \in BOOLEAN /\ running \subseteq Host /\ crossed \subseteq Host
  /\ tile \in [Tile -> {"absent", "current", "outdated"}]
  /\ DOMAIN value \subseteq Topics /\ displayed \subseteq Topics \cup ({"update"} \X Tile)
================================================================================
