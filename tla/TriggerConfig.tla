------------------------------ MODULE TriggerConfig ------------------------------
(***************************************************************************)
(* Which updates a trigger fires for: the threshold it gets from its own   *)
(* configuration, the group, the provider and its namesakes                *)
(* (app/registry/trigger-shared-config.ts), the triggers that a container  *)
(* includes and excludes, and what listing the triggers of a container     *)
(* does to them (app/api/container.ts).  A threshold stands for each of    *)
(* the shared options; the trigger keeps it from start to end.             *)
(***************************************************************************)
EXTENDS Naturals, Sequences, FiniteSets

CONSTANTS
  Alert,      \* the configured triggers
  TypeOf,     \* the provider of each
  NameOf,     \* its name, shared with triggers of other providers
  Masked,     \* those of a provider with a maskConfiguration of its own
  AtAgent,     \* those that run on an agent
  Own,        \* alternatives for the thresholds given to triggers,
  Group,      \*   to trigger groups (by name)
  Provider,   \*   and to providers
  Unset,      \* no threshold
  Cargo,      \* containers
  OnAgent,    \* those of the agent
  Lists       \* alternatives for their lists of included or excluded triggers

ASSUME AlertAssumption ==
  IsFiniteSet(Alert) /\ Masked \subseteq Alert /\ AtAgent \subseteq Alert

VARIABLES
  ownOf, groupOf, providerOf,  \* the configuration
  live,                  \* the threshold of each registered trigger
  include, exclude,      \* the lists of each container; Unset when it has none
  overwritten            \* history: triggers whose threshold was overwritten

alertVars == <<ownOf, groupOf, providerOf, live, include, exclude, overwritten>>

\* parseThresholdWithDigestBehavior
All == [base |-> "all", digests |-> TRUE]

-------------------------------------------------------------------------------
\* A merge: the second record's own value wins.
Over(v, default) == IF v = Unset THEN default ELSE v

\* applyTriggerGroupDefaults, then applyProviderSharedTriggerConfiguration
WithGroup(a) == Over(ownOf[a], groupOf[NameOf[a]])
\* Mutant: the provider's value wins over the group's.
ProviderFirst(a) == Over(Over(ownOf[a], providerOf[TypeOf[a]]), groupOf[NameOf[a]])

WithProvider(a) == Over(WithGroup(a), providerOf[TypeOf[a]])

\* getSharedTriggerConfigurationByName: one value among the namesakes.
SharedByName(a) ==
  LET values == {WithProvider(o) : o \in {o \in Alert : NameOf[o] = NameOf[a]}} \ {Unset}
  IN  IF Cardinality(values) = 1 THEN CHOOSE v \in values : TRUE ELSE Unset

\* applySharedTriggerConfigurationByName; validateConfiguration's default.
Threshold(a) == Over(Over(WithProvider(a), SharedByName(a)), All)

AlertInit ==
  /\ ownOf \in Own /\ groupOf \in Group /\ providerOf \in Provider
  /\ include \in [Cargo -> Lists \cup {Unset}] /\ exclude = [c \in Cargo |-> Unset]
  /\ live = [a \in Alert |-> Threshold(a)]
  /\ overwritten = {}

-------------------------------------------------------------------------------
\* isThresholdReached for the updates that there are.
News == {"digest", "unknown", "major", "minor", "patch", "prerelease"}
Reached(u, threshold) ==
  /\ u = "digest" => threshold.digests
  /\ IF threshold.base = "digest" THEN u = "digest"
     ELSE \/ threshold.base = "all" \/ u \in {"digest", "unknown"}
          \/ CASE threshold.base = "major-only" -> u = "major"
               [] threshold.base = "minor-only" -> u = "minor"
               [] threshold.base = "minor" -> u # "major"
               [] threshold.base = "patch" -> u \notin {"major", "minor"}
               [] OTHER -> TRUE

\* doesReferenceMatchId: the id or the name alone; find takes the first.
RefersTo(ref, a) == ref = a \/ ref = NameOf[a]
Matching(list, a) == {i \in DOMAIN list : RefersTo(list[i].ref, a)}
Leading(list, a) == list[CHOOSE i \in Matching(list, a) : \A j \in Matching(list, a) : i <= j]

\* isTriggerIncludedOrExcluded
Listed(list, a, u) == Matching(list, a) # {} /\ Reached(u, Leading(list, a).threshold)

\* mustTrigger; local triggers of the docker kinds match the agent strictly.
RightHost(a, c) == /\ a \in AtAgent => c \in OnAgent
                   /\ TypeOf[a] = "docker" /\ a \notin AtAgent => c \notin OnAgent
MustTrigger(a, c, u) ==
  /\ RightHost(a, c)
  /\ include[c] # Unset => Listed(include[c], a, u)
  /\ exclude[c] # Unset => ~Listed(exclude[c], a, u)

\* handleContainerReport
Fires(a, c, u) == Reached(u, live[a]) /\ MustTrigger(a, c, u)

-------------------------------------------------------------------------------
\* isTriggerAgentCompatible: whether the list for c looks at trigger a.
Compatible(a, c) == /\ a \in AtAgent => c \in OnAgent
                    /\ c \in OnAgent /\ a \notin AtAgent => TypeOf[a] # "docker"

\* GET /containers/:id/triggers, resolveTriggerAssociation: the threshold of
\* the include is set in the configuration that is listed, and without a mask
\* that is the configuration of the trigger itself.
Associated(c) == {a \in Alert : /\ Compatible(a, c) /\ include[c] # Unset
                                /\ Matching(include[c], a) # {}}

Overwrites(c) == Associated(c) \ Masked

GetTriggers(c) ==
  /\ live' = [a \in Alert |-> IF a \in Overwrites(c) THEN Leading(include[c], a).threshold ELSE live[a]]
  /\ overwritten' = overwritten \cup {a \in Associated(c) \ Masked : live'[a] # Threshold(a)}
  /\ UNCHANGED <<ownOf, groupOf, providerOf, include, exclude>>

\* The container is redeployed with other labels.
Relabel(c) ==
  /\ \E list \in Lists \cup {Unset} :
       \/ include' = [include EXCEPT ![c] = list] /\ UNCHANGED exclude
       \/ exclude' = [exclude EXCEPT ![c] = list] /\ UNCHANGED include
  /\ UNCHANGED <<ownOf, groupOf, providerOf, live, overwritten>>

AlertNext == \E c \in Cargo : GetTriggers(c) \/ Relabel(c)
AlertSpec == AlertInit /\ [][AlertNext]_alertVars

-------------------------------------------------------------------------------
(***************************************************************************)
(* What the user declared, read off the configuration: the most specific   *)
(* threshold there is, and of those that namesakes share only an           *)
(* undisputed one.                                                         *)
(***************************************************************************)
ByCloseness(a) == <<ownOf[a], groupOf[NameOf[a]], providerOf[TypeOf[a]]>>
Given(a) == {i \in 1..3 : ByCloseness(a)[i] # Unset}
Nearest(a) == ByCloseness(a)[CHOOSE i \in Given(a) : \A j \in Given(a) : i <= j]
Declared(a) ==
  IF Given(a) # {} THEN Nearest(a)
  ELSE LET others == {o \in Alert : NameOf[o] = NameOf[a] /\ Given(o) # {}}
       IN  IF others # {} /\ \A o, p \in others : Nearest(o) = Nearest(p)
           THEN Nearest(CHOOSE o \in others : TRUE) ELSE All

\* The updates that each threshold holds back.
HeldBack(threshold) ==
  (IF threshold.digests THEN {} ELSE {"digest"}) \cup
  (CASE threshold.base = "digest" -> News \ {"digest"}
     [] threshold.base = "minor" -> {"major"}
     [] threshold.base = "patch" -> {"major", "minor"}
     [] threshold.base = "major-only" -> {"minor", "patch", "prerelease"}
     [] threshold.base = "minor-only" -> {"major", "patch", "prerelease"}
     [] OTHER -> {})

(***************************************************************************)
(* FiresAsDeclared: whatever was listed and relabelled before, no trigger  *)
(* fires for an update that its declared threshold holds back, nor for a   *)
(* container that lists triggers without it - unless the user looked at    *)
(* the triggers of a container that includes it with another threshold,    *)
(* and the provider masks nothing.                                         *)
(***************************************************************************)
FiresAsDeclared ==
  \A a \in Alert \ overwritten :
    LET held == HeldBack(Declared(a))
    IN  \A c \in Cargo, u \in News :
          Fires(a, c, u) <=> u \notin held /\ MustTrigger(a, c, u)

AlertTypeOK ==
  /\ ownOf \in Own /\ groupOf \in Group /\ providerOf \in Provider
  /\ include \in [Cargo -> Lists \cup {Unset}] /\ exclude \in [Cargo -> Lists \cup {Unset}]
  /\ overwritten \subseteq Alert \ Masked
================================================================================
