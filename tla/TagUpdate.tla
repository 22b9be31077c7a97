-------------------------------- MODULE TagUpdate --------------------------------
(***************************************************************************)
(* Which update a container is offered, and what becomes of it: the tags   *)
(* and digests a watch reads from the registry (findNewVersion of          *)
(* app/watchers/providers/docker/Docker.ts), the kind of update they make  *)
(* and the policy that hides it (app/model/container.ts), the tag an       *)
(* update pulls (app/triggers/providers/docker/Docker.ts), and skips.      *)
(*                                                                         *)
(* A version is its rank in semver order; 0 is no version.  A digest is    *)
(* the number of the push that made it; 0 is undefined.  Manifests are of  *)
(* schema 2, the registry's own lists are as it answers them.              *)
(***************************************************************************)
EXTENDS Naturals, Sequences, FiniteSets

CONSTANTS
  Tag,         \* tags of the repository of the image
  Prefix,      \* the characters of a tag before its first digit
  Reads,       \* how a transform formula reads a tag: text, version and the
               \* number of numeric segments
  Listing,     \* Tag in the order of getTags, highest first
  Noise,       \* tags that start with "sha" or end with ".sig"
  Filters,     \* what include and exclude expressions match
  NoFilter,    \* the option is not set
  Pushes       \* bound: pushes to the repository

ASSUME TagAssumption ==
  /\ Listing \in Seq(Tag) /\ Prefix \in [Tag -> Seq(STRING)] /\ Pushes \in Nat \ {0}
  /\ \A t \in Tag : \E i \in DOMAIN Listing : Listing[i] = t
  /\ \A i, j \in DOMAIN Listing : Listing[i] = Listing[j] => i = j
  /\ \A f \in DOMAIN Reads, t \in Tag : Reads[f][t].version \in Nat

VARIABLES
  config,      \* the labels of the container, constant
  published,   \* the registry: the last push of each tag, 0 for none
  pushes,      \* pushes so far
  current,     \* image.tag.value
  local,       \* the push the container runs
  repo,        \* image.digest.repo is known
  known,       \* image.digest.value
  result,      \* the result of the last watch
  policy,      \* updatePolicy
  last         \* history: the last of a push, a watch, and an update or skip
               \* of what that watch offered

tagVars == <<config, published, pushes, current, local, repo, known, result, policy, last>>
image == <<current, local, repo>>

Labels == [include : Filters \cup {NoFilter}, exclude : Filters \cup {NoFilter},
           transform : DOMAIN Reads, digest : {"true", "false", ""}, hub : BOOLEAN]
Results == [tag : Tag, digest : 0..Pushes, found : BOOLEAN]
Policies == [tags : SUBSET Tag, digests : SUBSET (0..Pushes), snoozed : BOOLEAN]

NoResult == [tag |-> Listing[1], digest |-> 0, found |-> FALSE]
NoPolicy == [tags |-> {}, digests |-> {}, snoozed |-> FALSE]

TagTypeOK ==
  /\ config \in Labels
  /\ published \in [Tag -> 0..Pushes] /\ pushes \in 0..Pushes
  /\ current \in Tag /\ local \in 0..Pushes /\ repo \in BOOLEAN /\ known \in 0..Pushes
  /\ result \in Results
  /\ policy \in Policies
  /\ last \in {"push", "watch", "choice"}

-------------------------------------------------------------------------------
(* Reading tags. *)

\* transform
Read(t) == Reads[config.transform][t]

\* parse: a tag that is a version, as a container shows it (image.tag.semver).
Semver(t) == Read(t).version # 0

\* isGreater is semver's gte.
AtLeast(t, u) == Semver(t) /\ Semver(u) /\ Read(t).version >= Read(u).version

\* isDigestToWatch, and handleDigestWatch's condition.
DigestWatched == /\ \/ config.digest = "true"
                    \/ config.digest = "" /\ ~Semver(current) /\ ~config.hub
                 /\ repo

-------------------------------------------------------------------------------
(* getTagCandidates *)

\* applyIncludeExcludeFilters; "sha" tags go only when there is no include.
Filtered(tags) ==
  {t \in tags : /\ IF config.include = NoFilter THEN t \notin Noise.sha ELSE t \in config.include
                /\ config.exclude # NoFilter => t \notin config.exclude
                /\ t \notin Noise.sig}

Recovering == /\ config.include # NoFilter
              /\ Semver(current) /\ current \notin config.include

StartsLike(t) ==
  LET p == Prefix[current] IN
  IF p = <<>> THEN Prefix[t] = <<>>
  ELSE Len(p) <= Len(Prefix[t]) /\ SubSeq(Prefix[t], 1, Len(p)) = p

\* Mutant: in recovery mode as well as outside it, any version will do.
AnyVersion(tags) ==
  {t \in tags : /\ config.include = NoFilter => StartsLike(t)
                /\ Semver(t) /\ Read(t).segments = Read(current).segments
                /\ t # current}

Higher(tags) ==
  {t \in tags : /\ config.include = NoFilter => StartsLike(t)
                /\ Semver(t) /\ Read(t).segments = Read(current).segments
                /\ Recovering \/ AtLeast(t, current)}

Candidates(tags) ==
  IF Semver(current) THEN Higher(Filtered(tags))
  ELSE IF config.include = NoFilter THEN {}
  ELSE {t \in Filtered(tags) : Semver(t)}

\* sortSemverDescending, a stable sort of the listing, and its first element.
Precedes(t, u) == \E i, j \in DOMAIN Listing : i < j /\ Listing[i] = t /\ Listing[j] = u
First(tags) == CHOOSE t \in tags : \A u \in tags \ {t} :
                 AtLeast(t, u) /\ (AtLeast(u, t) => Precedes(t, u))

-------------------------------------------------------------------------------
(* The computed update of a container. *)

ByDigest == DigestWatched /\ known # 0 /\ result.digest # 0

\* getRawUpdateKind, hasRawUpdate: a digest has precedence over a tag.
UpdateKind ==
  IF ~result.found THEN "unknown"
  ELSE IF ByDigest THEN IF known # result.digest THEN "digest" ELSE "unknown"
  ELSE IF Read(current).text # Read(result.tag).text THEN "tag" ELSE "unknown"

\* isUpdateSuppressed
Suppressed == \/ policy.snoozed
              \/ UpdateKind = "tag" /\ result.tag \in policy.tags
              \/ UpdateKind = "digest" /\ result.digest \in policy.digests

UpdateAvailable == UpdateKind # "unknown" /\ ~Suppressed

\* getNewImageFullName
NewTag == IF UpdateKind = "digest" THEN current ELSE result.tag

-------------------------------------------------------------------------------
TagInit ==
  /\ config \in Labels
  /\ current \in Tag \ Noise.sig
  /\ published = [t \in Tag |-> IF t = current THEN 1 ELSE 0] /\ pushes = 1
  /\ local = 1 /\ repo \in BOOLEAN /\ known = 0
  /\ result = [tag |-> current, digest |-> 0, found |-> TRUE]
  /\ policy = NoPolicy /\ last = "push"

\* A push, under a tag that exists or a new one.
Push(t) == /\ pushes < Pushes /\ pushes' = pushes + 1
           /\ published' = [published EXCEPT ![t] = pushes']
           /\ last' = "push"
           /\ UNCHANGED <<config, image, known, result, policy>>

\* findNewVersion and handleDigestWatch: the digest looked up is that of the
\* first candidate, if there is one.
Watch ==
  LET candidates == Candidates({t \in Tag : published[t] # 0})
      tag == IF candidates = {} THEN current ELSE First(candidates)
  IN  /\ DigestWatched => published[tag] # 0
      /\ result' = [tag |-> tag, digest |-> IF DigestWatched THEN published[tag] ELSE 0,
                    found |-> TRUE]
      /\ known' = IF DigestWatched THEN local ELSE known
      /\ last' = IF last = "push" THEN "watch" ELSE last
      /\ UNCHANGED <<config, published, pushes, image, policy>>

\* The registry does not answer, or knows the running digest no more.
WatchFails == /\ result' = NoResult
              /\ UNCHANGED <<config, published, pushes, image, known, policy, last>>

Chosen == IF last = "push" THEN "push" ELSE "choice"
Reconsidered == IF last = "push" THEN "push" ELSE "watch"

\* An update: the new container runs what it pulled, and is a new document.
Update ==
  /\ UpdateAvailable /\ published[NewTag] # 0
  /\ current' = NewTag /\ local' = published[NewTag] /\ repo' = TRUE
  /\ known' = 0 /\ result' = [tag |-> NewTag, digest |-> 0, found |-> TRUE]
  /\ policy' = NoPolicy /\ last' = Chosen
  /\ UNCHANGED <<config, published, pushes>>

\* applySkipCurrentAction
SkipCurrent ==
  /\ UpdateKind # "unknown"
  /\ policy' = IF UpdateKind = "tag" THEN [policy EXCEPT !.tags = @ \cup {result.tag}]
               ELSE [policy EXCEPT !.digests = @ \cup {result.digest}]
  /\ last' = Chosen
  /\ UNCHANGED <<config, published, pushes, image, known, result>>

\* applyPolicyAction: clear-skips, snooze, unsnooze, clear.
ClearSkips == /\ policy' = [policy EXCEPT !.tags = {}, !.digests = {}] /\ last' = Reconsidered
              /\ UNCHANGED <<config, published, pushes, image, known, result>>
Snooze == /\ policy' = [policy EXCEPT !.snoozed = TRUE]
          /\ UNCHANGED <<config, published, pushes, image, known, result, last>>
Unsnooze == /\ policy.snoozed /\ policy' = [policy EXCEPT !.snoozed = FALSE]
            /\ UNCHANGED <<config, published, pushes, image, known, result, last>>
ClearPolicy == /\ policy' = NoPolicy /\ last' = Reconsidered
               /\ UNCHANGED <<config, published, pushes, image, known, result>>

TagNext == \/ \E t \in Tag : Push(t)
           \/ Watch \/ WatchFails \/ Update
           \/ SkipCurrent \/ ClearSkips \/ Snooze \/ Unsnooze \/ ClearPolicy

TagSpec == TagInit /\ [][TagNext]_tagVars

-------------------------------------------------------------------------------
\* The digest of another tag than the one that runs was looked up.
CandidateDigest == ByDigest /\ result.tag # current

(***************************************************************************)
(* UpdateSettles: once a container was updated, or its update skipped, no  *)
(* watch offers anything until there is a push or the skips are cleared:   *)
(* an automatic update does not repeat itself.  Not so where a digest is   *)
(* watched of a tag that has candidates, see the README.                   *)
(***************************************************************************)
UpdateSettles == last = "choice" /\ ~CandidateDigest => ~UpdateAvailable
================================================================================
