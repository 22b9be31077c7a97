----------------------------- MODULE ContainerDetails -----------------------------
(***************************************************************************)
(* What a Docker watcher takes a container's settings from                 *)
(* (app/watchers/providers/docker/Docker.ts): its labels, the labels of    *)
(* its swarm service, the imgset of the configuration that matches its     *)
(* image.  They are read when the container is first listed; afterwards    *)
(* its document is used as it is, and Docker events keep its name and      *)
(* labels up to date.  All settings go the same way, so there is one, the  *)
(* display name; its value is the place it was read from.                  *)
(***************************************************************************)
EXTENDS Naturals, Sequences, FiniteSets, FiniteSetsExt, SequencesExt

CONSTANTS
  Box,        \* containers of the daemon
  Service,    \* the swarm service of a container, or NoService
  NoService,
  ImageOf,    \* the image of a container, parsed: [domain, path]
  Labelled,   \* the containers that may have a display name label
  Orders,     \* configurations: sequences of imgset sections, that are records
              \* [name, domain, path, named], named if they have a display
              \* name; a name is a number, in the order of localeCompare
  Library,    \* pairs of a path "library/x" and its "x"
  Length,     \* the length of a domain (with the slash) or path
  Drydock,    \* paths of the image of drydock itself
  Names       \* names a container may have

\* The sections of a configuration are the keys of an object; every part of a
\* reference has a length.
ASSUME DetailsAssumption ==
  /\ Length \in [DOMAIN Length -> Nat] /\ IsFiniteSet(DOMAIN Length)
  /\ {"docker.io", "registry-1.docker.io", ""} \subseteq DOMAIN Length
  /\ \A entries \in Orders :
       /\ entries \in Seq([name : Nat, domain : DOMAIN Length, path : DOMAIN Length, named : BOOLEAN])
       /\ \A m, n \in DOMAIN entries : entries[m].name = entries[n].name => m = n

Keys == {"dd", "wud"}
Places == {"container", "task", "deploy"} \X Keys
SwarmServices == {Service[c] : c \in Box} \ {NoService}
Unnamed == <<"none", "">>
FromName == <<"name", "">>
Named(n) == <<"name", n>>

VARIABLES
  own,        \* which display name labels a container has, constant
  offered,    \* the labels of a service, at its two levels
  imgsets,    \* configuration.imgset
  named,      \* the name of a container at the daemon
  answer,     \* swarmServiceLabelsCache of a list under way
  listed,     \* containers of the list that are not detailed yet
  stored,     \* the store: [name, display, labels] of a container
  declared    \* history: the display name its document was to have

detailVars == <<own, offered, imgsets, named, answer, listed, stored, declared>>

NoAnswer == [at |-> "none", labels |-> {}]
NotStored == [name |-> CHOOSE n \in Names : TRUE, display |-> Unnamed, labels |-> {}]
IsStored(c) == stored[c].display # Unnamed
OwnPlaces(c) == {"container"} \X own[c]

DetailsTypeOK ==
  /\ own \in [Box -> SUBSET Keys] /\ named \in [Box -> Names]
  /\ \A s \in SwarmServices : offered[s] \subseteq Places
  /\ imgsets \in Orders /\ listed \subseteq Box
  /\ \A s \in SwarmServices : /\ answer[s].at \in {"none", "asked", "done"}
                              /\ answer[s].labels \subseteq Places
  /\ \A c \in Box : stored[c].name \in Names /\ stored[c].labels \subseteq Places

-------------------------------------------------------------------------------
(* Imgsets. *)

\* getImageReferenceCandidates
References(image) ==
  {"docker.io", "registry-1.docker.io", "", image.domain}
    \X ({image.path} \cup {short \in DOMAIN Length : <<image.path, short>> \in Library})

LengthOf(reference) == Length[reference[1]] + Length[reference[2]]

\* getImgsetSpecificity: no match, or the longest reference of the pattern.
Matches(imgset, image) == References(imgset) \cap References(image) # {}
Specificity(imgset) == Max({LengthOf(r) : r \in References(imgset)})

\* Mutant: the last of equally specific sections.
IsNoWorse(imgset, best) == Specificity(imgset) >= Specificity(best)

\* isBetterImgsetMatch
IsBetter(imgset, best) ==
  \/ Specificity(imgset) > Specificity(best)
  \/ Specificity(imgset) = Specificity(best) /\ imgset.name < best.name

\* getMatchingImgsetConfiguration: the best of the first n sections, in their order.
Best(entries, image) ==
  LET best[n \in 0..Len(entries)] ==
        IF n = 0 THEN {}
        ELSE IF /\ Matches(entries[n], image)
                /\ \A b \in best[n - 1] : IsBetter(entries[n], b)
             THEN {entries[n]} ELSE best[n - 1]
  IN  best[Len(entries)]

-------------------------------------------------------------------------------
(* Labels. *)

\* getEffectiveContainerLabels: for each key the container's label, else the
\* task's, else the deployment's.
Effective(places) ==
  {p \in places : \A q \in places : q[2] = p[2] =>
     \/ p[1] = "container" \/ q[1] = p[1]
     \/ p[1] = "task" /\ q[1] = "deploy"}

\* resolveLabelsFromContainer: dd.* before wud.*.  No label: no value.
FromLabels(places) ==
  LET labels == Effective(places) IN
  {p \in labels : p[2] = "dd" \/ \A q \in labels : q[2] = "wud"}

\* getResolvedImgsetConfiguration
FromImgset(entries, image) == {<<"imgset", i.name>> : i \in {b \in Best(entries, image) : b.named}}

\* mergeConfigWithImgset: labels before the imgset.
Merged(places, entries, image) ==
  IF FromLabels(places) # {} THEN FromLabels(places) ELSE FromImgset(entries, image)

\* getContainerDisplayName
DisplayOf(places, entries, image, name) ==
  IF Merged(places, entries, image) # {} THEN CHOOSE v \in Merged(places, entries, image) : TRUE
  ELSE IF image.path \in Drydock THEN <<"drydock", "">> ELSE Named(name)

(***************************************************************************)
(* What is declared, said without the code: of the places that name the    *)
(* container the closest to it, of the sections that match its image the   *)
(* most specific one, the first by name.                                   *)
(***************************************************************************)
Closest(places) ==
  LET level == CASE \E p \in places : p[1] = "container" -> "container"
                 [] ~(\E p \in places : p[1] = "container")
                    /\ (\E p \in places : p[1] = "task") -> "task"
                 [] OTHER -> "deploy"
      there == {p \in places : p[1] = level}
  IN  IF \E p \in there : p[2] = "dd" THEN <<level, "dd">> ELSE <<level, "wud">>

Ranked(entries, image) ==
  {i \in ToSet(entries) : /\ Matches(i, image)
                          /\ \A j \in ToSet(entries) \ {i} :
                               Matches(j, image) =>
                                 \/ Specificity(j) < Specificity(i)
                                 \/ Specificity(j) = Specificity(i) /\ i.name < j.name}

DeclaredOf(places, entries, image) ==
  IF places # {} THEN Closest(places)
  ELSE IF \E i \in Ranked(entries, image) : i.named
       THEN <<"imgset", (CHOOSE i \in Ranked(entries, image) : TRUE).name>>
  ELSE IF image.path \in Drydock THEN <<"drydock", "">> ELSE FromName

\* A legacy label of the container under a new label of its service.
MixedKeys(places) == /\ <<"container", "wud">> \in places /\ <<"container", "dd">> \notin places
                     /\ \E p \in places : p[2] = "dd"
MixedLevels(places) == /\ <<"task", "wud">> \in places /\ <<"task", "dd">> \notin places
                       /\ <<"deploy", "dd">> \in places

-------------------------------------------------------------------------------
DetailsInit ==
  /\ own \in {o \in [Box -> SUBSET Keys] : \A c \in Box \ Labelled : o[c] = {}}
  /\ offered \in [SwarmServices -> SUBSET (Places \ ({"container"} \X Keys))]
  /\ imgsets \in Orders
  /\ named = [c \in Box |-> CHOOSE n \in Names : TRUE]
  /\ answer = [s \in SwarmServices |-> NoAnswer]
  /\ listed = {} /\ stored = [c \in Box |-> NotStored]
  /\ declared = [c \in Box |-> FromName]

environment == <<own, offered, imgsets, named>>

\* getContainers: a list starts, with an empty cache; the labels of a service
\* are asked for once, by the first of its containers.
List ==
  /\ listed = {}
  /\ \E cs \in SUBSET Box \ {{}} :
       /\ listed' = cs
       /\ answer' = [s \in SwarmServices |->
                       IF \E c \in cs : Service[c] = s THEN [at |-> "asked", labels |-> {}]
                       ELSE NoAnswer]
  /\ UNCHANGED <<environment, stored, declared>>

\* getSwarmServiceLabels: an inspection that fails counts as no labels.
ServiceAnswers(s) ==
  /\ answer[s].at = "asked"
  /\ \E labels \in {offered[s], {}} : answer' = [answer EXCEPT ![s] = [at |-> "done", labels |-> labels]]
  /\ UNCHANGED <<environment, listed, stored, declared>>

LabelsOf(c) == OwnPlaces(c) \cup (IF Service[c] = NoService THEN {} ELSE answer[Service[c]].labels)

\* addImageDetailsToContainer: a container in the store is left as it is.
Detail(c) ==
  /\ c \in listed /\ listed' = listed \ {c}
  /\ \A s \in SwarmServices : answer[s].at # "asked"
  /\ IF IsStored(c) THEN UNCHANGED <<stored, declared>>
     ELSE /\ stored' = [stored EXCEPT ![c] =
               [name |-> named[c], labels |-> Effective(LabelsOf(c)),
                display |-> DisplayOf(LabelsOf(c), imgsets, ImageOf[c], named[c])]]
          /\ declared' = [declared EXCEPT ![c] =
               IF MixedKeys(LabelsOf(c)) \/ MixedLevels(LabelsOf(c)) THEN Unnamed
               ELSE DeclaredOf(LabelsOf(c), imgsets, ImageOf[c])]
  /\ UNCHANGED <<environment, answer>>

-------------------------------------------------------------------------------
(* Docker events: updateContainerFromInspect. *)

\* A label of the container itself; else a display name that was the name
\* becomes the new name (shouldUpdateDisplayNameFromContainerName).
OwnLabel(c) == IF "dd" \in own[c] THEN <<"container", "dd">> ELSE <<"container", "wud">>
WasName(c) == stored[c].display = Named(stored[c].name) /\ named[c] # stored[c].name

Renamed(c) == IF own[c] # {} THEN OwnLabel(c)
              ELSE IF WasName(c) THEN Named(named[c]) ELSE stored[c].display

Inspected(c) ==
  /\ IsStored(c)
  /\ stored' = [stored EXCEPT ![c] = [name |-> named[c], display |-> Renamed(c),
                                      labels |-> Effective(OwnPlaces(c))]]
  /\ UNCHANGED <<environment, answer, listed, declared>>

Rename(c) == /\ named' \in {[named EXCEPT ![c] = n] : n \in Names}
             /\ UNCHANGED <<own, offered, imgsets, answer, listed, stored, declared>>

\* The container of a service is replaced: nothing is stored of the new one.
Redeploy(s) ==
  /\ stored' = [c \in Box |-> IF Service[c] = s THEN NotStored ELSE stored[c]]
  /\ declared' = [c \in Box |-> IF Service[c] = s THEN FromName ELSE declared[c]]
  /\ UNCHANGED <<environment, answer, listed>>

\* drydock restarts with another configuration; the store is kept.
Reconfigure ==
  /\ imgsets' \in Orders
  /\ answer' = [s \in SwarmServices |-> NoAnswer] /\ listed' = {}
  /\ UNCHANGED <<own, offered, named, stored, declared>>

DetailsNext ==
  \/ List \/ Reconfigure
  \/ \E c \in Box : Detail(c) \/ Inspected(c) \/ Rename(c)
  \/ \E s \in SwarmServices : ServiceAnswers(s) \/ Redeploy(s)

DetailsSpec == DetailsInit /\ [][DetailsNext]_detailVars

-------------------------------------------------------------------------------
(***************************************************************************)
(* DisplayIsDeclared: a document has the display name that was declared,   *)
(* to the knowledge of the list that made it: of the closest labels, else  *)
(* of the most specific imgset, whatever their order in the configuration, *)
(* and renames, events and lists keep it.  Except where a legacy label is  *)
(* overridden by a new one of a farther place.                             *)
(***************************************************************************)
DisplayIsDeclared ==
  \A c \in Box : IsStored(c) /\ declared[c] # Unnamed =>
    stored[c].display = IF declared[c] = FromName THEN Named(stored[c].name) ELSE declared[c]
================================================================================
