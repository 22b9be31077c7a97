------------------------------ MODULE ChoicesProofs ------------------------------
(***************************************************************************)
(* Proofs about the components that choose and show: the tag a container   *)
(* is offered, the name it is shown by, the image its compose file         *)
(* declares, the threshold a trigger fires at, the cards of the user       *)
(* interface, the sensors of Home Assistant, the log buffer, what a lookup *)
(* in a registry answers, and what a template says.                        *)
(***************************************************************************)
EXTENDS TagUpdate, ContainerDetails, ComposeUpdate, TriggerConfig, ContainersPage, HassSensors,
        LogBuffer, RegistryLookup, Expression, OrderingProofs, FiniteSetTheorems, FunctionTheorems,
        SequenceTheorems, WellFoundedInduction, TLAPS

---------------------------------------------------------------------------------
(***************************************************************************)
(* After an update, or a skip, no watch offers anything: the tag that runs *)
(* is the first of the candidates it has left. That a set of tags has a    *)
(* first one is an induction over the listing, by its smallest             *)
(* counterexample.                                                         *)
(***************************************************************************)
\* t is the tag of tags that sortSemverDescending puts first.
Better(r, t, u) == r[t].version # 0 /\ r[u].version # 0 /\ r[t].version >= r[u].version
IsFirst(r, t, tags) ==
  \A u \in tags \ {t} : Better(r, t, u) /\ (Better(r, u, t) => Precedes(t, u))

HasFirst(r, tags) == \E t \in tags : IsFirst(r, t, tags)
UpTo(tags, n) == {t \in tags : \E i \in DOMAIN Listing : i <= n /\ Listing[i] = t}

\* Sorting finds a first tag: by induction over the listing.
LEMMA FirstExists ==
  ASSUME NEW r, \A t \in Tag : r[t].version \in Nat,
         NEW tags, tags \subseteq Tag, tags # {}, \A t \in tags : r[t].version # 0
  PROVE  HasFirst(r, tags)
<1> DEFINE upTo(n) == UpTo(tags, n)
           None == {n \in 0..Len(Listing) : upTo(n) # {} /\ ~HasFirst(r, upTo(n))}
<1>1. DOMAIN Listing = 1..Len(Listing) /\ Len(Listing) \in Nat
  BY TagAssumption
<1>2. ASSUME None # {} PROVE FALSE
  <2>1. PICK n \in None : \A m \in None : n <= m
    BY <1>1, <1>2, LeastOf, None \subseteq Nat
  <2>2. n \in 0..Len(Listing) /\ upTo(n) # {}
    <3> HIDE DEF upTo
    <3> QED BY <2>1
  <2>3. n # 0
    BY <1>1, <2>2 DEF UpTo
  <2>4. n - 1 \in 0..Len(Listing) /\ n - 1 \notin None
    <3>1. n \in Nat /\ n - 1 \in 0..Len(Listing) /\ ~(n <= n - 1)
      BY <1>1, <2>2, <2>3
    <3> HIDE DEF None
    <3> QED BY <2>1, <3>1
  <2> DEFINE x == Listing[n]
  <2>5. x \in Tag /\ n \in DOMAIN Listing
    BY <1>1, <2>2, <2>3, TagAssumption
  <2>6. \A t \in upTo(n) : t = x \/ t \in upTo(n - 1)
    BY <1>1, <2>2 DEF UpTo
  <2>7. upTo(n - 1) \subseteq upTo(n)
    BY <1>1, <2>2 DEF UpTo
  <2>8. CASE x \notin tags
    <3>1. upTo(n) = upTo(n - 1)
      <4>1. \A t \in upTo(n) : t \in tags
        BY DEF UpTo
      <4> QED BY <2>6, <2>7, <2>8, <4>1
    <3> QED BY <2>1, <2>4, <3>1
  <2>9. CASE x \in tags /\ upTo(n - 1) = {}
    <3>1. x \in upTo(n)
      BY <2>5, <2>9, <2>2, <1>1 DEF UpTo
    <3>2. upTo(n) = {x}
      BY <2>6, <2>9, <3>1
    <3>3. IsFirst(r, x, upTo(n))
      BY <3>2 DEF IsFirst
    <3> QED BY <2>1, <3>1, <3>3 DEF HasFirst
  <2>10. CASE x \in tags /\ upTo(n - 1) # {}
    <3>1. PICK t \in upTo(n - 1) : IsFirst(r, t, upTo(n - 1))
      BY <2>4, <2>10 DEF HasFirst
    <3>2. x \in upTo(n) /\ t \in upTo(n)
      BY <1>1, <2>2, <2>5, <2>7, <2>10, <3>1 DEF UpTo
    <3>3. /\ r[x].version # 0 /\ r[t].version # 0
          /\ r[x].version \in Nat /\ r[t].version \in Nat
      BY <2>10, <3>1, TagAssumption DEF UpTo
    <3>4. \A u \in upTo(n) : r[u].version # 0 /\ r[u].version \in Nat
      BY TagAssumption DEF UpTo
    <3>5. CASE r[x].version > r[t].version
      <4>1. ASSUME NEW u \in upTo(n) \ {x} PROVE Better(r, x, u) /\ ~Better(r, u, x)
        <5>1. u = t \/ Better(r, t, u)
          BY <2>6, <3>1 DEF IsFirst
        <5> QED BY <3>3, <3>4, <3>5, <5>1 DEF Better
      <4> QED BY <2>1, <3>2, <4>1 DEF IsFirst, HasFirst
    <3>6. CASE ~(r[x].version > r[t].version)
      <4>1. Better(r, t, x)
        BY <3>3, <3>6 DEF Better
      <4>2. t # x => Precedes(t, x)
        BY <1>1, <2>2, <2>5, <3>1 DEF Precedes, UpTo
      <4>3. IsFirst(r, t, upTo(n))
        BY <2>6, <3>1, <4>1, <4>2 DEF IsFirst
      <4> QED BY <2>1, <3>2, <4>3 DEF HasFirst
    <3> QED BY <3>5, <3>6
  <2> QED BY <2>8, <2>9, <2>10
<1>3. Len(Listing) \notin None
  BY <1>2
<1>4. upTo(Len(Listing)) = tags
  BY <1>1, TagAssumption DEF UpTo
<1> QED BY <1>1, <1>3, <1>4

\* What sortSemverDescending puts first.
LEMMA FirstIsFirst ==
  ASSUME config.transform \in DOMAIN Reads,
         NEW tags, tags \subseteq Tag, tags # {}, \A t \in tags : Semver(t)
  PROVE  First(tags) \in tags /\ IsFirst(Reads[config.transform], First(tags), tags)
<1> DEFINE r == Reads[config.transform]
<1>1. PICK t \in tags : IsFirst(r, t, tags)
  BY FirstExists, TagAssumption DEF Semver, Read, HasFirst
<1>2. \A u \in tags \ {t} : AtLeast(t, u) /\ (AtLeast(u, t) => Precedes(t, u))
  BY <1>1 DEF IsFirst, Better, AtLeast, Semver, Read
<1>3. /\ First(tags) \in tags
      /\ \A u \in tags \ {First(tags)} :
           AtLeast(First(tags), u) /\ (AtLeast(u, First(tags)) => Precedes(First(tags), u))
  BY <1>2, Zenon DEF First
<1> QED BY <1>3 DEF IsFirst, Better, AtLeast, Semver, Read

\* Only one tag is first.
LEMMA OneIsFirst ==
  ASSUME NEW r, NEW tags, NEW t \in tags, NEW u \in tags, tags \subseteq Tag,
         IsFirst(r, t, tags), IsFirst(r, u, tags)
  PROVE  t = u
<1> SUFFICES ASSUME t # u PROVE FALSE
  OBVIOUS
<1>1. Better(r, t, u) /\ Better(r, u, t)
  BY DEF IsFirst
<1>2. Precedes(t, u) /\ Precedes(u, t)
  BY <1>1 DEF IsFirst
<1> QED BY <1>2, TagAssumption DEF Precedes

-------------------------------------------------------------------------------
\* What a watch finds, in the repository as it is.
Cand == Candidates({t \in Tag : published[t] # 0})
Latest == IF Cand = {} THEN current ELSE First(Cand)

\* After a push, the result is what a watch found then, or of a failed watch, or
\* what an update left.
Fresh ==
  \/ ~result.found
  \/ /\ result.tag = Latest
     /\ IF DigestWatched THEN result.digest = published[Latest] /\ result.digest # 0 /\ known = local
                         ELSE result.digest = 0
  \/ result.tag = current /\ result.digest = 0 /\ known = 0

\* A watch would offer nothing, but for the digest of another tag.
Settled ==
  IF DigestWatched THEN Latest = current => published[current] \in {local} \cup policy.digests
  ELSE Read(Latest).text = Read(current).text \/ Latest \in policy.tags

ITag == /\ TagTypeOK /\ local # 0
        /\ last # "push" => Fresh
        /\ last = "choice" => Settled

LEMMA CandidatesAreVersions ==
  ASSUME TagTypeOK
  PROVE  /\ Cand \subseteq Tag /\ \A t \in Cand : Semver(t)
         /\ Latest \in Tag
<1>1. Cand \subseteq Tag /\ \A t \in Cand : Semver(t)
  BY DEF Cand, Candidates, Higher, Filtered
<1>2. config.transform \in DOMAIN Reads /\ current \in Tag
  BY DEF TagTypeOK, Labels
<1>3. PICK tags : tags = Cand
  OBVIOUS
<1>4. tags # {} => First(tags) \in tags
  BY <1>1, <1>2, <1>3, FirstIsFirst
<1> QED BY <1>1, <1>2, <1>3, <1>4 DEF Latest

\* t starts like the current tag.
LikeTag(c, t) ==
  IF Prefix[c] = <<>> THEN Prefix[t] = <<>>
  ELSE Len(Prefix[c]) <= Len(Prefix[t]) /\ SubSeq(Prefix[t], 1, Len(Prefix[c])) = Prefix[c]

LEMMA LikeItself == ASSUME NEW t \in Tag PROVE LikeTag(t, t)
<1>1. Prefix[t] \in Seq(STRING)
  BY TagAssumption
<1> QED BY <1>1 DEF LikeTag

LEMMA LikeFurther ==
  ASSUME NEW c \in Tag, NEW t \in Tag, NEW u \in Tag, LikeTag(c, t), LikeTag(t, u)
  PROVE  LikeTag(c, u)
<1>1. Prefix[c] \in Seq(STRING) /\ Prefix[t] \in Seq(STRING) /\ Prefix[u] \in Seq(STRING)
  BY TagAssumption
<1>2. CASE Prefix[c] = <<>>
  BY <1>2 DEF LikeTag
<1>3. CASE Prefix[c] # <<>>
  <2> DEFINE C == Prefix[c]
             T == Prefix[t]
             U == Prefix[u]
  <2>1. /\ Len(C) \in Nat \ {0} /\ Len(C) <= Len(T) /\ Len(T) \in Nat
        /\ SubSeq(T, 1, Len(C)) = C
    BY <1>1, <1>3 DEF LikeTag
  <2>2. Len(T) <= Len(U) /\ SubSeq(U, 1, Len(T)) = T /\ Len(U) \in Nat
    BY <1>1, <2>1 DEF LikeTag
  <2>3. \A i \in 1..Len(T) : U[i] = T[i]
    BY <1>1, <2>1, <2>2
  <2>4. \A i \in 1..Len(C) : T[i] = C[i]
    BY <1>1, <2>1
  <2>5. SubSeq(U, 1, Len(C)) = C
    <3>1. /\ SubSeq(U, 1, Len(C)) \in Seq(STRING) /\ Len(SubSeq(U, 1, Len(C))) = Len(C)
          /\ \A i \in 1..Len(C) : SubSeq(U, 1, Len(C))[i] = U[i]
      BY <1>1, <2>1, <2>2
    <3>2. \A i \in 1..Len(C) : U[i] = C[i]
      BY <2>1, <2>3, <2>4
    <3> QED BY <1>1, <3>1, <3>2, SeqEqual
  <2> QED BY <1>3, <2>1, <2>2, <2>5 DEF LikeTag
<1> QED BY <1>2, <1>3

(***************************************************************************)
(* The tag that a watch found stays the one a watch finds, once it runs.   *)
(***************************************************************************)
LEMMA LatestStays ==
  ASSUME TagTypeOK, TagTypeOK', UNCHANGED <<config, published>>, Cand # {}, current' = Latest
  PROVE  Latest' = Latest
<1> DEFINE r == Reads[config.transform]
<1>a. config.transform \in DOMAIN Reads /\ config'.transform \in DOMAIN Reads /\ current \in Tag
  BY DEF TagTypeOK, Labels
<1>1. PICK tags : tags = Cand
  OBVIOUS
<1>2. PICK there : there = {t \in Tag : published[t] # 0}
  OBVIOUS
<1>3. PICK next : next = Cand'
  OBVIOUS
<1>4. tags \subseteq Tag /\ \A t \in tags : r[t].version # 0
  BY <1>1, CandidatesAreVersions DEF Semver, Read
<1>5. PICK t \in tags : t = Latest /\ IsFirst(r, t, tags)
  BY <1>a, <1>1, FirstIsFirst, CandidatesAreVersions DEF Latest
<1>6. current' = t /\ t \in Tag
  BY <1>4, <1>5, SMTT(30)
<1>7. next = {u \in Filtered(there) : /\ config.include = NoFilter => LikeTag(t, u)
                                      /\ r[u].version # 0 /\ r[u].segments = r[t].segments
                                      /\ \/ config.include # NoFilter /\ t \notin config.include
                                         \/ r[u].version >= r[t].version}
  <2>1. r[t].version # 0
    BY <1>4, <1>5
  <2> QED BY <1>2, <1>3, <1>6, <2>1
        DEF Cand, Candidates, Higher, Filtered, StartsLike, LikeTag, Semver, Read, Recovering, AtLeast
<1>8. t \in Filtered(there) /\ (config.include # NoFilter => t \in config.include)
  BY <1>1, <1>2, <1>5 DEF Cand, Candidates, Higher, Filtered
<1>9. \A u \in Tag : r[u].version \in Nat
  BY <1>a, TagAssumption
<1>10. t \in next
  BY <1>4, <1>5, <1>6, <1>7, <1>8, <1>9, LikeItself
<1>11. next \subseteq tags
  <2> SUFFICES ASSUME NEW u \in next PROVE u \in tags
    OBVIOUS
  <2>1. /\ u \in Filtered(there) /\ u \in Tag /\ r[u].version # 0 /\ r[u].segments = r[t].segments
        /\ config.include = NoFilter => LikeTag(t, u)
        /\ r[u].version >= r[t].version
    BY <1>7, <1>8, <1>2, SMTT(30) DEF Filtered
  <2>2. CASE Semver(current)
    <3>1. /\ r[current].version # 0
          /\ config.include = NoFilter => LikeTag(current, t)
          /\ r[t].segments = r[current].segments
          /\ Recovering \/ r[t].version >= r[current].version
      BY <1>1, <1>2, <1>5, <2>2
         DEF Cand, Candidates, Higher, StartsLike, LikeTag, Semver, Read, AtLeast
    <3>2. config.include = NoFilter => LikeTag(current, u)
      BY <1>a, <1>6, <2>1, <3>1, LikeFurther
    <3>3. Recovering \/ r[u].version >= r[current].version
      BY <1>a, <1>6, <1>9, <2>1, <3>1
    <3>4. tags = Higher(Filtered(there))
      BY <1>1, <1>2, <2>2 DEF Cand, Candidates
    <3>5. config.include = NoFilter => StartsLike(u)
      BY <3>2 DEF StartsLike, LikeTag
    <3>6. Semver(u) /\ Read(u).segments = Read(current).segments /\ (Recovering \/ AtLeast(u, current))
      BY <2>1, <3>1, <3>3 DEF Semver, Read, AtLeast
    <3> QED BY <2>1, <3>4, <3>5, <3>6 DEF Higher
  <2>3. CASE ~Semver(current)
    BY <1>1, <1>2, <1>5, <2>1, <2>3 DEF Cand, Candidates, Semver, Read
  <2> QED BY <2>2, <2>3
<1>12. IsFirst(r, t, next)
  BY <1>5, <1>11 DEF IsFirst
<1>13. Latest' \in next /\ IsFirst(r, Latest', next)
  <2>1. \A u \in next \ {t} : AtLeast(t, u)' /\ (AtLeast(u, t)' => Precedes(t, u))
    <3>1. \A u \in next \ {t} : Better(r, t, u) /\ (Better(r, u, t) => Precedes(t, u))
      BY <1>12, Zenon DEF IsFirst
    <3>2. ASSUME NEW u, NEW v PROVE AtLeast(u, v)' <=> Better(r, u, v)
      <4>1. Reads[config'.transform] = r
        OBVIOUS
      <4> HIDE DEF r
      <4> QED BY <4>1, Zenon DEF Better, AtLeast, Semver, Read
    <3> QED BY <3>1, <3>2, Zenon
  <2>2. /\ Latest' \in next
        /\ \A u \in next \ {Latest'} : AtLeast(Latest, u)' /\ (AtLeast(u, Latest)' => Precedes(Latest', u))
    BY <1>3, <1>10, <2>1 DEF Latest, First, AtLeast, Semver, Read
  <2> QED BY <2>2 DEF IsFirst, Better, AtLeast, Semver, Read
<1> QED BY <1>4, <1>5, <1>10, <1>11, <1>12, <1>13, OneIsFirst

LEMMA PoliciesTyped ==
  /\ NoPolicy \in Policies
  /\ \A p \in Policies : /\ [p EXCEPT !.tags = {}, !.digests = {}] \in Policies
                         /\ \A b \in BOOLEAN : [p EXCEPT !.snoozed = b] \in Policies
                         /\ \A t \in Tag : [p EXCEPT !.tags = @ \cup {t}] \in Policies
                         /\ \A n \in 0..Pushes : [p EXCEPT !.digests = @ \cup {n}] \in Policies
BY DEF Policies, NoPolicy

LEMMA ResultsTyped ==
  /\ \A t \in Tag, n \in 0..Pushes, b \in BOOLEAN : [tag |-> t, digest |-> n, found |-> b] \in Results
  /\ \A r \in Results : r.tag \in Tag /\ r.digest \in 0..Pushes /\ r.found \in BOOLEAN
BY DEF Results

LEMMA TagStarts == TagInit => ITag
<1> SUFFICES ASSUME TagInit PROVE ITag
  OBVIOUS
<1>1. 1 \in 0..Pushes /\ 0 \in 0..Pushes
  BY TagAssumption
<1>2. current \in Tag /\ result \in Results /\ policy \in Policies
  BY <1>1, PoliciesTyped, ResultsTyped DEF TagInit
<1>3. TagTypeOK
  BY <1>1, <1>2 DEF TagInit, TagTypeOK
<1> QED BY <1>3 DEF TagInit, ITag

LEMMA TagTyped == TagTypeOK /\ [TagNext]_tagVars => TagTypeOK'
<1> SUFFICES ASSUME TagTypeOK, [TagNext]_tagVars PROVE TagTypeOK'
  OBVIOUS
<1>0. Pushes \in Nat \ {0} /\ 0 \in 0..Pushes
  BY TagAssumption
<1>1. ASSUME NEW t \in Tag, Push(t) PROVE TagTypeOK'
  BY <1>0, <1>1 DEF Push, TagTypeOK, image
<1>2. CASE Watch
  <2>1. Latest \in Tag
    BY CandidatesAreVersions
  <2>2. PICK tag \in Tag : tag = Latest
    BY <2>1
  <2>3. PICK n \in 0..Pushes : n = IF DigestWatched THEN published[tag] ELSE 0
    BY <1>0, <2>2 DEF TagTypeOK
  <2>4. result' = [tag |-> tag, digest |-> n, found |-> TRUE]
    BY <1>2, <2>2, <2>3 DEF Watch, Latest, Cand
  <2>5. result' \in Results
    BY <2>4, ResultsTyped
  <2>6. known' \in {local, known} /\ last' \in {last, "watch"} /\ UNCHANGED <<config, published, pushes, image, policy>>
    BY <1>2 DEF Watch
  <2> QED BY <2>5, <2>6 DEF TagTypeOK, image
<1>3. CASE WatchFails
  <2>1. Listing[1] \in Tag
    BY TagAssumption DEF TagTypeOK
  <2>2. result' \in Results
    BY <1>0, <1>3, <2>1, ResultsTyped DEF WatchFails, NoResult
  <2> QED BY <1>3, <2>2 DEF WatchFails, TagTypeOK, image
<1>4. CASE Update
  <2>1. NewTag \in Tag
    BY ResultsTyped DEF NewTag, TagTypeOK
  <2>2. PICK tag \in Tag : tag = NewTag
    BY <2>1
  <2>3. published[tag] \in 0..Pushes
    BY DEF TagTypeOK
  <2>4. /\ current' = tag /\ local' = published[tag] /\ repo' = TRUE /\ known' = 0
        /\ result' = [tag |-> tag, digest |-> 0, found |-> TRUE] /\ policy' = NoPolicy
        /\ last' \in {"push", "choice"} /\ UNCHANGED <<config, published, pushes>>
    BY <1>4, <2>2 DEF Update, Chosen
  <2>5. result' \in Results
    BY <1>0, <2>4, ResultsTyped
  <2> QED BY <1>0, <2>3, <2>4, <2>5, PoliciesTyped DEF TagTypeOK
<1>5. CASE SkipCurrent
  <2>1. policy' \in Policies
    BY <1>5, PoliciesTyped, ResultsTyped DEF SkipCurrent, TagTypeOK
  <2> QED BY <1>5, <2>1 DEF SkipCurrent, TagTypeOK, image, Chosen
<1>6. CASE ClearSkips \/ ClearPolicy \/ Snooze \/ Unsnooze
  <2>1. policy' \in Policies
    BY <1>6, PoliciesTyped DEF ClearSkips, ClearPolicy, Snooze, Unsnooze, TagTypeOK
  <2> QED BY <1>6, <2>1 DEF ClearSkips, ClearPolicy, Snooze, Unsnooze, TagTypeOK, image, Reconsidered
<1>7. CASE UNCHANGED tagVars
  BY <1>7 DEF tagVars, TagTypeOK
<1> QED BY <1>1, <1>2, <1>3, <1>4, <1>5, <1>6, <1>7 DEF TagNext

\* What a watch finds depends on the container and the repository alone.
LEMMA SameLatest ==
  ASSUME UNCHANGED <<config, published, current>> PROVE Latest' = Latest
BY DEF Latest, Cand, Candidates, Higher, Filtered, StartsLike, Semver, Read, Recovering, AtLeast, First

LEMMA SameWatched ==
  ASSUME UNCHANGED <<config, current, repo>> PROVE DigestWatched' = DigestWatched
BY DEF DigestWatched, Semver, Read

\* An update that is offered is what the last watch found.
LEMMA OfferedIsLatest ==
  ASSUME ITag, last # "push", UpdateKind # "unknown"
  PROVE  /\ result.tag = Latest /\ current \in Tag
         /\ IF DigestWatched THEN result.digest = published[Latest] /\ result.digest # 0 /\ known = local
                             ELSE result.digest = 0
         /\ UpdateKind = "tag" => Read(current).text # Read(Latest).text
BY DEF ITag, Fresh, UpdateKind, ByDigest, TagTypeOK

\* Steps that leave the container and what is known of its update alone.
LEMMA StaysFresh ==
  ASSUME Fresh, UNCHANGED <<config, published, image, known, result>> PROVE Fresh'
<1>1. /\ Latest' = Latest /\ DigestWatched' = DigestWatched
      /\ UNCHANGED <<config, published, current, local, repo, known, result>>
  BY SameLatest, SameWatched DEF image
<1> QED BY <1>1 DEF Fresh

\* Steps that take no skip back.
LEMMA StaysSettled ==
  ASSUME Settled, UNCHANGED <<config, published, image>>,
         policy.tags \subseteq policy'.tags, policy.digests \subseteq policy'.digests
  PROVE  Settled'
<1>1. /\ Latest' = Latest /\ DigestWatched' = DigestWatched
      /\ UNCHANGED <<config, published, current, local, repo>>
  BY SameLatest, SameWatched DEF image
<1>2. Read(Latest)' = Read(Latest) /\ Read(current)' = Read(current)
  BY <1>1 DEF Read
<1> QED BY <1>1, <1>2 DEF Settled

LEMMA WatchKeeps == ASSUME ITag, TagTypeOK', Watch PROVE ITag'
<1>1. /\ result' = [tag |-> Latest, digest |-> IF DigestWatched THEN published[Latest] ELSE 0, found |-> TRUE]
      /\ known' = IF DigestWatched THEN local ELSE known
      /\ last' = (IF last = "push" THEN "watch" ELSE last)
      /\ DigestWatched => published[Latest] # 0
      /\ UNCHANGED <<config, published, image, policy>>
  BY DEF Watch, Latest, Cand
<1>2. Latest' = Latest /\ DigestWatched' = DigestWatched /\ UNCHANGED <<published, local>>
  BY <1>1, SameLatest, SameWatched DEF image
<1>3. Fresh'
  BY <1>1, <1>2 DEF Fresh
<1>4. last' = "choice" => Settled'
  BY <1>1, StaysSettled DEF ITag
<1> QED BY <1>2, <1>3, <1>4 DEF ITag

LEMMA UpdateKeeps == ASSUME ITag, TagTypeOK', Update PROVE ITag'
<1>1. /\ current' = NewTag /\ local' = published[NewTag] /\ repo' = TRUE /\ published[NewTag] # 0
      /\ known' = 0 /\ result' = [tag |-> NewTag, digest |-> 0, found |-> TRUE]
      /\ last' = (IF last = "push" THEN "push" ELSE "choice") /\ UNCHANGED <<config, published>>
      /\ UpdateKind # "unknown"
  BY DEF Update, Chosen, UpdateAvailable
<1>2. Fresh' /\ local' # 0
  BY <1>1 DEF Fresh
<1>3. ASSUME last # "push" PROVE Settled'
  <2>1. /\ result.tag = Latest
        /\ IF DigestWatched THEN result.digest = published[Latest] /\ result.digest # 0 /\ known = local
                            ELSE result.digest = 0
        /\ UpdateKind = "tag" => Read(current).text # Read(Latest).text
    BY <1>1, <1>3, OfferedIsLatest
  <2>2. CASE UpdateKind = "digest"
    <3>1. NewTag = current
      BY <2>2 DEF NewTag
    <3>2. DigestWatched /\ repo
      BY <2>2 DEF UpdateKind, ByDigest, DigestWatched
    <3>3. DigestWatched' /\ Latest' = Latest
      BY <1>1, <3>1, <3>2, SameLatest, SameWatched DEF ITag, TagTypeOK
    <3> QED BY <1>1, <3>1, <3>3 DEF Settled
  <2>3. CASE UpdateKind = "tag"
    <3>1. NewTag = Latest
      BY <2>1, <2>3 DEF NewTag
    <3>2. Cand # {}
      BY <2>1, <2>3 DEF Latest
    <3>3. Latest' = Latest
      BY <1>1, <3>1, <3>2, LatestStays DEF ITag
    <3>4. Latest' = current'
      BY <1>1, <3>1, <3>3
    <3>5. published'[current'] = local'
      BY <1>1
    <3> QED BY <3>4, <3>5 DEF Settled, Read
  <2> QED BY <1>1, <2>2, <2>3 DEF UpdateKind
<1> QED BY <1>1, <1>2, <1>3 DEF ITag

LEMMA SkipKeeps == ASSUME ITag, TagTypeOK', SkipCurrent PROVE ITag'
<1>1. /\ UpdateKind # "unknown" /\ UNCHANGED <<config, published, image, known, result>>
      /\ last' = (IF last = "push" THEN "push" ELSE "choice")
      /\ IF UpdateKind = "tag" THEN result.tag \in policy'.tags ELSE result.digest \in policy'.digests
  BY DEF SkipCurrent, Chosen, ITag, TagTypeOK, Policies
<1>2. UNCHANGED <<config, published, current, local, repo, known, result>>
  BY <1>1 DEF image
<1>3. ASSUME last # "push" PROVE Settled'
  <2>1. /\ result.tag = Latest
        /\ IF DigestWatched THEN result.digest = published[Latest] /\ result.digest # 0 /\ known = local
                            ELSE result.digest = 0
        /\ UpdateKind = "tag" => Read(current).text # Read(Latest).text
    BY <1>1, <1>3, OfferedIsLatest
  <2>2. Latest' = Latest /\ DigestWatched' = DigestWatched
    BY <1>2, SameLatest, SameWatched
  <2>3. CASE UpdateKind = "tag"
    BY <1>1, <1>2, <2>1, <2>2, <2>3 DEF Settled
  <2>4. CASE UpdateKind = "digest"
    <3>1. DigestWatched
      BY <2>4 DEF UpdateKind, ByDigest
    <3> QED BY <1>1, <1>2, <2>1, <2>2, <2>4, <3>1 DEF Settled
  <2> QED BY <1>1, <2>3, <2>4 DEF UpdateKind
<1> QED BY <1>1, <1>2, <1>3, StaysFresh DEF ITag

LEMMA TagKeeps == ITag /\ [TagNext]_tagVars => ITag'
<1> SUFFICES ASSUME ITag, [TagNext]_tagVars PROVE ITag'
  OBVIOUS
<1>1. TagTypeOK'
  BY TagTyped DEF ITag
<1>2. ASSUME NEW t \in Tag, Push(t) PROVE ITag'
  BY <1>1, <1>2 DEF ITag, Push, image
<1>3. CASE WatchFails
  <2>1. Fresh'
    BY <1>3 DEF WatchFails, NoResult, Fresh
  <2>2. last' = "choice" => Settled'
    BY <1>3, StaysSettled DEF WatchFails, ITag
  <2> QED BY <1>1, <1>3, <2>1, <2>2 DEF ITag, WatchFails, image
<1>4. CASE ClearSkips \/ ClearPolicy
  <2>1. last' \in {last, "watch"} /\ (last' # "push" => last # "push") /\ last' # "choice"
    BY <1>4 DEF ClearSkips, ClearPolicy, Reconsidered
  <2> QED BY <1>1, <1>4, <2>1, StaysFresh DEF ITag, ClearSkips, ClearPolicy, image
<1>5. CASE Snooze \/ Unsnooze
  <2>1. policy'.tags = policy.tags /\ policy'.digests = policy.digests
    BY <1>5 DEF Snooze, Unsnooze, ITag, TagTypeOK, Policies
  <2> QED BY <1>1, <1>5, <2>1, StaysFresh, StaysSettled DEF ITag, Snooze, Unsnooze, image
<1>6. CASE UNCHANGED tagVars
  BY <1>1, <1>6, StaysFresh, StaysSettled DEF ITag, tagVars, image
<1> QED BY <1>1, <1>2, <1>3, <1>4, <1>5, <1>6, WatchKeeps, UpdateKeeps, SkipKeeps DEF TagNext

(***************************************************************************)
(* Settles: for any tags, listing, versions and policies, once a container *)
(* was updated or its update skipped no watch offers anything until a push *)
(* or the end of the skips, except by the digest of a candidate's tag      *)
(* (getTagCandidates and findNewVersion of Docker.ts, updateAvailable of   *)
(* model/container.ts).                                                    *)
(***************************************************************************)
THEOREM Settles == TagSpec => []UpdateSettles
<1>1. ITag => UpdateSettles
  <2> SUFFICES ASSUME ITag, last = "choice", ~CandidateDigest, UpdateKind # "unknown" PROVE Suppressed
    BY DEF UpdateSettles, UpdateAvailable
  <2>1. /\ result.tag = Latest
        /\ IF DigestWatched THEN result.digest = published[Latest] /\ result.digest # 0 /\ known = local
                            ELSE result.digest = 0
        /\ UpdateKind = "tag" => Read(current).text # Read(Latest).text
    BY OfferedIsLatest
  <2>2. CASE UpdateKind = "digest"
    <3>1. ByDigest /\ DigestWatched /\ known # result.digest
      BY <2>2 DEF UpdateKind, ByDigest
    <3>2. Latest = current
      BY <2>1, <3>1 DEF CandidateDigest
    <3>3. result.digest \in policy.digests
      BY <2>1, <3>1, <3>2 DEF ITag, Settled
    <3> QED BY <2>2, <3>3 DEF Suppressed
  <2>3. CASE UpdateKind = "tag"
    <3>1. ~DigestWatched
      <4> SUFFICES ASSUME DigestWatched PROVE FALSE
        OBVIOUS
      <4>1. known # 0 /\ result.digest = 0
        BY <2>1, <2>3 DEF UpdateKind, ByDigest, ITag
      <4> QED BY <2>1, <4>1
    <3> QED BY <2>1, <2>3, <3>1 DEF ITag, Settled, Suppressed
  <2> QED BY <2>2, <2>3 DEF UpdateKind
<1> QED BY <1>1, TagStarts, TagKeeps, PTL DEF TagSpec

---------------------------------------------------------------------------------
(***************************************************************************)
(* No trigger fires against its declared threshold. The merge of own,      *)
(* group, provider and shared settings is the closest of them; a trigger   *)
(* that a listing has not overwritten keeps it.                            *)
(***************************************************************************)
\* The threshold that is closest to a trigger is what the merge of group and
\* provider defaults leaves.
LEMMA MergeIsNearest ==
  ASSUME NEW a \in Alert
  PROVE  WithProvider(a) = IF Given(a) # {} THEN Nearest(a) ELSE Unset
<1>1. /\ ByCloseness(a)[1] = ownOf[a] /\ ByCloseness(a)[2] = groupOf[NameOf[a]]
      /\ ByCloseness(a)[3] = providerOf[TypeOf[a]]
  BY DEF ByCloseness
<1>2. CASE ownOf[a] # Unset
  <2>1. 1 \in Given(a) /\ \A j \in Given(a) : 1 <= j
    BY <1>1, <1>2 DEF Given
  <2>2. \A i \in Given(a) : (\A j \in Given(a) : i <= j) => i = 1
    BY <2>1 DEF Given
  <2> QED BY <1>1, <1>2, <2>1, <2>2 DEF Nearest, WithProvider, WithGroup, Over
<1>3. CASE ownOf[a] = Unset /\ groupOf[NameOf[a]] # Unset
  <2>1. 2 \in Given(a) /\ \A j \in Given(a) : 2 <= j
    BY <1>1, <1>3 DEF Given
  <2>2. \A i \in Given(a) : (\A j \in Given(a) : i <= j) => i = 2
    BY <2>1 DEF Given
  <2> QED BY <1>1, <1>3, <2>1, <2>2 DEF Nearest, WithProvider, WithGroup, Over
<1>4. CASE ownOf[a] = Unset /\ groupOf[NameOf[a]] = Unset /\ providerOf[TypeOf[a]] # Unset
  <2>1. Given(a) = {3}
    BY <1>1, <1>4 DEF Given
  <2> QED BY <1>1, <1>4, <2>1 DEF Nearest, WithProvider, WithGroup, Over
<1>5. CASE ownOf[a] = Unset /\ groupOf[NameOf[a]] = Unset /\ providerOf[TypeOf[a]] = Unset
  <2>1. Given(a) = {}
    BY <1>1, <1>5 DEF Given
  <2> QED BY <1>5, <2>1 DEF WithProvider, WithGroup, Over
<1> QED BY <1>2, <1>3, <1>4, <1>5

LEMMA GivenIsSet ==
  ASSUME NEW a \in Alert
  PROVE  WithProvider(a) # Unset <=> Given(a) # {}
<1>1. /\ ByCloseness(a)[1] = ownOf[a] /\ ByCloseness(a)[2] = groupOf[NameOf[a]]
      /\ ByCloseness(a)[3] = providerOf[TypeOf[a]]
  BY DEF ByCloseness
<1> QED BY <1>1 DEF Given, WithProvider, WithGroup, Over

\* The namesakes of a trigger that were given a threshold, and what it was.
Sharing(a) == {o \in Alert : NameOf[o] = NameOf[a] /\ Given(o) # {}}
Shared(a) == {WithProvider(o) : o \in {o \in Alert : NameOf[o] = NameOf[a]}} \ {Unset}

LEMMA SharedFinite == ASSUME NEW a \in Alert PROVE IsFiniteSet(Shared(a))
<1> DEFINE threshold == [o \in Alert |-> WithProvider(o)]
           all == {threshold[o] : o \in Alert}
<1>1. threshold \in Surjection(Alert, all)
  BY DEF Surjection
<1>2. IsFiniteSet(all)
  BY <1>1, AlertAssumption, FS_Surjection
<1>3. Shared(a) \subseteq all
  BY DEF Shared
<1> QED BY <1>2, <1>3, FS_Subset

LEMMA SharedIsNearest ==
  ASSUME NEW a \in Alert PROVE Shared(a) = {Nearest(o) : o \in Sharing(a)}
BY MergeIsNearest, GivenIsSet DEF Shared, Sharing

\* The merges give a trigger the threshold that was declared.
LEMMA ThresholdIsDeclared == ASSUME NEW a \in Alert PROVE Threshold(a) = Declared(a)
<1>1. CASE Given(a) # {}
  BY <1>1, MergeIsNearest, GivenIsSet DEF Threshold, Declared, Over
<1>2. CASE Given(a) = {}
  <2>1. WithProvider(a) = Unset
    BY <1>2, MergeIsNearest
  <2>2. SharedByName(a) = IF Cardinality(Shared(a)) = 1 THEN CHOOSE v \in Shared(a) : TRUE ELSE Unset
    BY DEF SharedByName, Shared
  <2>3. Declared(a) = IF Sharing(a) # {} /\ \A o, p \in Sharing(a) : Nearest(o) = Nearest(p)
                      THEN Nearest(CHOOSE o \in Sharing(a) : TRUE) ELSE All
    BY <1>2 DEF Declared, Sharing
  <2>4. CASE Sharing(a) # {} /\ \A o, p \in Sharing(a) : Nearest(o) = Nearest(p)
    <3> DEFINE one == CHOOSE o \in Sharing(a) : TRUE
    <3>1. one \in Sharing(a)
      BY <2>4
    <3>2. Shared(a) = {Nearest(one)}
      BY <2>4, <3>1, SharedIsNearest
    <3>3. Cardinality(Shared(a)) = 1
      BY <3>2, FS_Singleton
    <3>4. SharedByName(a) = Nearest(one)
      BY <2>2, <3>2, <3>3
    <3>5. Nearest(one) # Unset
      BY <3>2 DEF Shared
    <3> QED BY <2>1, <2>3, <2>4, <3>4, <3>5 DEF Threshold, Over
  <2>5. CASE ~(Sharing(a) # {} /\ \A o, p \in Sharing(a) : Nearest(o) = Nearest(p))
    <3>1. Cardinality(Shared(a)) # 1
      <4> SUFFICES ASSUME Cardinality(Shared(a)) = 1 PROVE FALSE
        OBVIOUS
      <4>1. PICK v : Shared(a) = {v}
        BY SharedFinite, FS_Singleton
      <4> QED BY <2>5, <4>1, SharedIsNearest
    <3> QED BY <2>1, <2>2, <2>3, <2>5, <3>1 DEF Threshold, Over
  <2> QED BY <2>4, <2>5
<1> QED BY <1>1, <1>2

\* A threshold is reached by the updates that it does not hold back.
LEMMA ReachedIsNotHeld ==
  ASSUME NEW threshold, NEW u \in News
  PROVE  Reached(u, threshold) <=> u \notin HeldBack(threshold)
BY DEF Reached, HeldBack, News

\* A trigger that was not overwritten keeps the threshold it was registered with.
IAlert == /\ live = [a \in Alert |-> live[a]]
          /\ \A a \in Alert \ overwritten : live[a] = Threshold(a)

LEMMA ThresholdStays ==
  ASSUME UNCHANGED <<ownOf, groupOf, providerOf>>, NEW a \in Alert
  PROVE  Threshold(a)' = Threshold(a)
BY DEF Threshold, SharedByName, WithProvider, WithGroup

LEMMA AlertStarts == AlertInit => IAlert
BY DEF AlertInit, IAlert

LEMMA AlertKeeps == IAlert /\ [AlertNext]_alertVars => IAlert'
<1> SUFFICES ASSUME IAlert, [AlertNext]_alertVars PROVE IAlert'
  OBVIOUS
<1>1. ASSUME NEW c \in Cargo, GetTriggers(c) PROVE IAlert'
  <2>1. live' = [a \in Alert |-> live'[a]]
    BY <1>1 DEF GetTriggers
  <2>2. ASSUME NEW a \in Alert \ overwritten' PROVE live'[a] = Threshold(a)
    BY <1>1, <2>2 DEF GetTriggers, IAlert, Overwrites
  <2> QED BY <1>1, <2>1, <2>2, ThresholdStays DEF IAlert, GetTriggers
<1>2. ASSUME NEW c \in Cargo, Relabel(c) PROVE IAlert'
  BY <1>2, ThresholdStays DEF Relabel, IAlert
<1>3. CASE UNCHANGED alertVars
  BY <1>3, ThresholdStays DEF alertVars, IAlert
<1> QED BY <1>1, <1>2, <1>3 DEF AlertNext

(***************************************************************************)
(* FiresDeclared: for any triggers, groups, providers, labels and          *)
(* listings, no trigger fires for an update that its declared threshold    *)
(* holds back, nor for a container that lists triggers without it, except  *)
(* after getTriggers overwrote a threshold: what the merges of             *)
(* registry/trigger-shared-config.ts and mustTrigger of Trigger.ts add up to. *)
(***************************************************************************)
THEOREM FiresDeclared == AlertSpec => []FiresAsDeclared
<1>1. IAlert => FiresAsDeclared
  BY ThresholdIsDeclared, ReachedIsNotHeld DEF IAlert, FiresAsDeclared, Fires
<1> QED BY <1>1, AlertStarts, AlertKeeps, PTL DEF AlertSpec

---------------------------------------------------------------------------------
(***************************************************************************)
(* The cards of the containers page are the newest answers, for any        *)
(* containers and requests.                                                *)
(***************************************************************************)
Answers == UNION {[of -> Doc] : of \in SUBSET Card}
Ops == {"idle", "all", "failed"} \cup OneCard

PageTyped ==
  /\ doc \in [Card -> Doc] /\ seen \in [Card -> Doc] /\ cards \in [Card -> 0..MaxChange]
  /\ late \subseteq Card /\ passed \subseteq Card
  /\ request \in [Request -> [op : Ops, of : SUBSET Card, answer : Answers]]
  /\ \A r \in Request : DOMAIN request[r].answer \in {{}, request[r].of}

\* One document has one change: two documents of a container that are equally new
\* are the same.
Agree(d, e) == d.change = e.change => d = e
NoneNewer ==
  /\ \A c \in Card : seen[c].change <= doc[c].change /\ Agree(seen[c], doc[c])
  /\ \A r \in Request : \A c \in DOMAIN request[r].answer :
       /\ request[r].answer[c].change <= doc[c].change
       /\ Agree(request[r].answer[c], doc[c]) /\ Agree(request[r].answer[c], seen[c])
  /\ \A r, o \in Request : \A c \in (DOMAIN request[r].answer) \cap DOMAIN request[o].answer :
       Agree(request[r].answer[c], request[o].answer[c])

IPage == PageTyped /\ NoneNewer /\ CardsAreLatest

LEMMA AnswerFields ==
  ASSUME NEW a \in Answers
  PROVE  a \in [DOMAIN a -> Doc] /\ DOMAIN a \in SUBSET Card /\ \A c \in DOMAIN a : a[c] \in Doc
BY DEF Answers

LEMMA NoRequestTyped ==
  /\ NoRequest \in [op : Ops, of : SUBSET Card, answer : Answers]
  /\ NoRequest.op = "idle" /\ NoRequest.of = {} /\ DOMAIN NoRequest.answer = {}
<1>1. [c \in {} |-> 0] \in [{} -> Doc]
  OBVIOUS
<1>2. [c \in {} |-> 0] \in Answers
  BY <1>1 DEF Answers
<1> QED BY <1>2 DEF NoRequest, Ops

LEMMA DocTyped == ASSUME NEW d \in Doc PROVE d.change \in 0..MaxChange /\ d.there \in BOOLEAN
BY DEF Doc

LEMMA PageStarts == PageInit => IPage
<1> SUFFICES ASSUME PageInit PROVE IPage
  OBVIOUS
<1>1. [change |-> 1, there |-> TRUE] \in Doc /\ 1 \in 0..MaxChange
  BY PageAssumption DEF Doc
<1>2. \A r \in Request : request[r] = NoRequest
  BY DEF PageInit
<1>3. PageTyped
  BY <1>1, <1>2, NoRequestTyped DEF PageInit, PageTyped
<1>4. \A c \in Card : doc[c] = seen[c] /\ seen[c].there = TRUE /\ seen[c].change = 1 /\ cards[c] = 1
  BY DEF PageInit
<1>5. NoneNewer
  BY <1>1, <1>2, <1>4, NoRequestTyped DEF NoneNewer, Agree
<1> QED BY <1>3, <1>4, <1>5 DEF IPage, CardsAreLatest

\* A request is made, dropped or failed: it has no answer.
LEMMA AskKeeps ==
  ASSUME IPage, NEW r \in Request,
         NEW q \in [op : Ops, of : SUBSET Card, answer : Answers], DOMAIN q.answer = {},
         request' = [request EXCEPT ![r] = q], UNCHANGED <<doc, cards, seen, late, passed>>
  PROVE  IPage'
<1>1. request'[r] = q /\ \A o \in Request : o # r => request'[o] = request[o]
  BY DEF IPage, PageTyped
<1>2. PageTyped'
  BY <1>1 DEF IPage, PageTyped
<1>3. NoneNewer'
  BY <1>1 DEF IPage, NoneNewer
<1> QED BY <1>2, <1>3 DEF IPage, CardsAreLatest

\* The server changes some documents: each is newer than all that was answered.
LEMMA DocsKeep ==
  ASSUME IPage, doc' \in [Card -> Doc],
         \A c \in Card : doc'[c] = doc[c] \/ doc'[c].change > doc[c].change,
         UNCHANGED <<seen>>
  PROVE  /\ \A c \in Card : seen[c].change <= doc'[c].change /\ Agree(seen[c], doc'[c])
         /\ \A r \in Request : \A c \in DOMAIN request[r].answer :
              /\ request[r].answer[c].change <= doc'[c].change
              /\ Agree(request[r].answer[c], doc'[c])
<1>1. \A c \in Card : doc[c].change \in Nat /\ doc'[c].change \in Nat /\ seen[c].change \in Nat
  BY DocTyped, PageAssumption DEF IPage, PageTyped
<1>2. \A r \in Request : \A c \in DOMAIN request[r].answer : c \in Card /\ request[r].answer[c].change \in Nat
  <2> SUFFICES ASSUME NEW r \in Request, NEW c \in DOMAIN request[r].answer
               PROVE  c \in Card /\ request[r].answer[c].change \in Nat
    OBVIOUS
  <2>1. request[r].answer \in Answers
    BY DEF IPage, PageTyped
  <2> QED BY <2>1, AnswerFields, DocTyped, PageAssumption
<1>3. \A c \in Card : seen[c].change <= doc[c].change /\ Agree(seen[c], doc[c])
  BY DEF IPage, NoneNewer
<1>4. \A r \in Request : \A c \in DOMAIN request[r].answer :
        request[r].answer[c].change <= doc[c].change /\ Agree(request[r].answer[c], doc[c])
  BY DEF IPage, NoneNewer
<1> QED BY <1>1, <1>2, <1>3, <1>4 DEF Agree

LEMMA ChangedTyped ==
  ASSUME doc \in [Card -> Doc], NEW c \in Card, doc[c].change < MaxChange, NEW there \in BOOLEAN
  PROVE  /\ Changed(c, there) \in [Card -> Doc] /\ Changed(c, there)[c].change = doc[c].change + 1
         /\ \A o \in Card : o # c => Changed(c, there)[o] = doc[o]
<1>1. doc[c].change \in 0..MaxChange
  BY DocTyped
<1>2. [change |-> doc[c].change + 1, there |-> there] \in Doc
  BY <1>1, PageAssumption DEF Doc
<1> QED BY <1>2 DEF Changed

LEMMA StoreChangesKeeps == ASSUME IPage, NEW c \in Card, StoreChanges(c) PROVE IPage'
<1>1. PICK there \in BOOLEAN : doc' = Changed(c, there)
  BY DEF StoreChanges
<1>2. doc[c].change < MaxChange /\ UNCHANGED <<cards, request, seen, late, passed>>
  BY DEF StoreChanges
<1>3. doc' \in [Card -> Doc] /\ \A o \in Card : doc'[o] = doc[o] \/ doc'[o].change > doc[o].change
  BY <1>1, <1>2, ChangedTyped, DocTyped, PageAssumption DEF IPage, PageTyped
<1>4. NoneNewer'
  BY <1>2, <1>3, DocsKeep DEF IPage, NoneNewer
<1> QED BY <1>2, <1>3, <1>4 DEF IPage, PageTyped, CardsAreLatest

LEMMA ServedKeeps == ASSUME IPage, NEW r \in Request, Served(r) PROVE IPage'
<1> DEFINE of == request[r].of
           altered == {c \in of : request[r].op \in {"change", "delete"}}
<1>t. PageTyped /\ of \in SUBSET Card
  BY DEF IPage, PageTyped
<1>1. /\ \A c \in altered : doc[c].there /\ doc[c].change < MaxChange
      /\ doc' = [c \in Card |-> IF c \in altered THEN Changed(c, request[r].op # "delete")[c] ELSE doc[c]]
      /\ UNCHANGED <<cards, seen, late, passed>>
  BY DEF Served
<1>2. ASSUME NEW c \in Card
      PROVE  doc'[c] \in Doc /\ (doc'[c] = doc[c] \/ doc'[c].change > doc[c].change)
  <2>1. CASE c \in altered
    <3>1. doc[c].change < MaxChange /\ (request[r].op # "delete") \in BOOLEAN
      BY <1>1, <2>1
    <3>2. doc'[c] = Changed(c, request[r].op # "delete")[c]
      BY <1>1, <2>1
    <3>3. Changed(c, request[r].op # "delete") \in [Card -> Doc]
          /\ Changed(c, request[r].op # "delete")[c].change = doc[c].change + 1
      BY <1>t, <3>1, ChangedTyped DEF PageTyped
    <3> QED BY <1>t, <3>2, <3>3, DocTyped, PageAssumption DEF PageTyped
  <2>2. CASE c \notin altered
    BY <1>1, <1>t, <2>2 DEF PageTyped
  <2> QED BY <2>1, <2>2
<1>3. doc' \in [Card -> Doc]
  BY <1>1, <1>2
<1>4. PICK a \in [of -> Doc] : /\ request' = [request EXCEPT ![r].answer = a]
                               /\ \A c \in of : a[c] = doc'[c]
  <2>1. request' = [request EXCEPT ![r].answer = [c \in of |-> doc'[c]]]
    BY DEF Served
  <2>2. [c \in of |-> doc'[c]] \in [of -> Doc]
    BY <1>t, <1>3
  <2>3. \A c \in of : [d \in of |-> doc'[d]][c] = doc'[c]
    OBVIOUS
  <2> QED BY <2>1, <2>2, <2>3, Zenon
<1>5. a \in Answers
  BY <1>t, <1>4 DEF Answers
<1> HIDE DEF of, altered
<1>6. /\ request'[r].answer = a /\ request'[r].of = of /\ request'[r] \in [op : Ops, of : SUBSET Card, answer : Answers]
      /\ \A o \in Request : o # r => request'[o] = request[o]
  BY <1>t, <1>4, <1>5 DEF PageTyped, of
<1>7. PageTyped'
  BY <1>t, <1>1, <1>3, <1>4, <1>6, ZenonT(60) DEF PageTyped
<1>8. /\ \A c \in Card : seen[c].change <= doc'[c].change /\ Agree(seen[c], doc'[c])
      /\ \A o \in Request : \A c \in DOMAIN request[o].answer :
           request[o].answer[c].change <= doc'[c].change /\ Agree(request[o].answer[c], doc'[c])
  BY <1>1, <1>2, <1>3, DocsKeep
<1>9. \A c \in of : a[c].change \in Nat
  BY <1>4, DocTyped, PageAssumption
<1>10. NoneNewer'
  <2>1. \A c \in Card : seen'[c].change <= doc'[c].change /\ Agree(seen'[c], doc'[c])
    BY <1>1, <1>8
  <2>2. ASSUME NEW o \in Request, NEW c \in DOMAIN request'[o].answer
        PROVE  /\ request'[o].answer[c].change <= doc'[c].change
               /\ Agree(request'[o].answer[c], doc'[c]) /\ Agree(request'[o].answer[c], seen'[c])
    <3>1. CASE o = r
      <4>1. c \in of /\ request'[o].answer[c] = doc'[c]
        BY <1>4, <1>6, <2>2, <3>1
      <4>2. doc'[c].change \in Nat
        BY <1>4, <1>9, <4>1
      <4>3. Agree(seen[c], doc'[c])
        BY <1>t, <1>8, <4>1
      <4> QED BY <1>1, <4>1, <4>2, <4>3 DEF Agree
    <3>2. CASE o # r
      BY <1>1, <1>6, <1>8, <2>2, <3>2 DEF IPage, NoneNewer
    <3> QED BY <3>1, <3>2
  <2>3. ASSUME NEW o \in Request, NEW q \in Request,
               NEW c \in (DOMAIN request'[o].answer) \cap DOMAIN request'[q].answer
        PROVE  Agree(request'[o].answer[c], request'[q].answer[c])
    <3>1. CASE o # r /\ q # r
      BY <1>6, <2>3, <3>1 DEF IPage, NoneNewer
    <3>2. CASE o = r \/ q = r
      BY <1>4, <1>6, <1>8, <2>3, <3>2 DEF Agree
    <3> QED BY <3>1, <3>2
  <2> QED BY <2>1, <2>2, <2>3 DEF NoneNewer
<1> QED BY <1>1, <1>7, <1>10 DEF IPage, CardsAreLatest

\* What a container's card and the newest answer about it become.
LEMMA ArriveKeeps == ASSUME IPage, NEW r \in Request, Arrive(r) PROVE IPage'
<1>t. PageTyped /\ NoneNewer /\ CardsAreLatest
  BY DEF IPage
<1>1. PICK of \in SUBSET Card, reply \in Answers, op \in Ops :
        /\ reply \in [of -> Doc] /\ of = request[r].of /\ reply = request[r].answer /\ op = request[r].op
  <2>1. request[r].answer \in Answers /\ request[r].of \in SUBSET Card /\ request[r].op \in Ops
    BY <1>t DEF PageTyped
  <2>2. DOMAIN request[r].answer = request[r].of
    BY <1>t DEF PageTyped, Arrive
  <2> QED BY <2>1, <2>2, AnswerFields
<1>2. /\ cards' = [c \in Card |-> IF c \notin of THEN cards[c]
                    ELSE IF op = "all" THEN AfterAll(reply[c]) ELSE AfterOne(op, c, reply[c])]
      /\ seen' = [c \in Card |-> IF c \in of /\ reply[c].change > seen[c].change THEN reply[c] ELSE seen[c]]
      /\ late' = late \cup {c \in of : reply[c].change < seen[c].change}
      /\ passed' = passed \cup {c \in of : op = "group" /\ ~reply[c].there}
      /\ request' = [request EXCEPT ![r] = NoRequest] /\ doc' = doc
  BY <1>1 DEF Arrive
<1>3. \A c \in Card : /\ doc[c].change \in Nat /\ seen[c].change \in Nat /\ seen[c] \in Doc /\ doc[c] \in Doc
                      /\ c \in of => reply[c] \in Doc /\ reply[c].change \in 0..MaxChange
                      /\ cards[c] \in 0..MaxChange
  BY <1>t, <1>1, DocTyped, PageAssumption DEF PageTyped
<1>4. DOMAIN request[r].answer = of
  BY <1>1
<1>5. /\ DOMAIN request'[r].answer = {} /\ request'[r] \in [op : Ops, of : SUBSET Card, answer : Answers]
      /\ \A o \in Request : o # r => request'[o] = request[o]
  BY <1>t, <1>2, NoRequestTyped DEF PageTyped
<1>6. \A c \in Card : cards'[c] \in 0..MaxChange
  BY <1>2, <1>3, PageAssumption DEF AfterAll, AfterOne
<1>7. \A c \in Card : seen'[c] \in Doc
  BY <1>2, <1>3
<1>8. PageTyped'
  <2>1. cards' \in [Card -> 0..MaxChange] /\ seen' \in [Card -> Doc]
    BY <1>2, <1>6, <1>7
  <2>2. late' \subseteq Card /\ passed' \subseteq Card
    BY <1>t, <1>2 DEF PageTyped
  <2>3. request' \in [Request -> [op : Ops, of : SUBSET Card, answer : Answers]]
        /\ \A o \in Request : DOMAIN request'[o].answer \in {{}, request'[o].of}
    BY <1>t, <1>2, <1>5, NoRequestTyped DEF PageTyped
  <2> QED BY <1>t, <1>2, <2>1, <2>2, <2>3 DEF PageTyped
<1>9. NoneNewer'
  <2>1. ASSUME NEW c \in Card PROVE seen'[c] = seen[c] \/ (c \in of /\ seen'[c] = reply[c])
    BY <1>2
  <2>2. ASSUME NEW c \in of
        PROVE  /\ reply[c].change <= doc[c].change /\ Agree(reply[c], doc[c]) /\ Agree(reply[c], seen[c])
               /\ \A o \in Request : c \in DOMAIN request[o].answer => Agree(request[o].answer[c], reply[c])
    BY <1>t, <1>1, <1>4 DEF NoneNewer
  <2>3. \A c \in Card : seen'[c].change <= doc'[c].change /\ Agree(seen'[c], doc'[c])
    BY <1>t, <1>2, <2>1, <2>2 DEF NoneNewer
  <2>4. ASSUME NEW o \in Request, NEW c \in DOMAIN request'[o].answer
        PROVE  /\ request'[o].answer[c].change <= doc'[c].change
               /\ Agree(request'[o].answer[c], doc'[c]) /\ Agree(request'[o].answer[c], seen'[c])
    <3>1. o # r /\ request'[o] = request[o]
      BY <1>5, <2>4
    <3>2. c \in Card
      BY <1>t, <2>4, <3>1, AnswerFields DEF PageTyped
    <3> QED BY <1>t, <1>2, <2>1, <2>2, <2>4, <3>1, <3>2 DEF NoneNewer
  <2>5. \A o, q \in Request : \A c \in (DOMAIN request'[o].answer) \cap DOMAIN request'[q].answer :
          Agree(request'[o].answer[c], request'[q].answer[c])
    BY <1>t, <1>5 DEF NoneNewer
  <2> QED BY <2>3, <2>4, <2>5 DEF NoneNewer
<1>10. CardsAreLatest'
  <2> SUFFICES ASSUME NEW c \in Card, c \notin late', c \notin passed', cards'[c] > 0
               PROVE  seen'[c].there /\ cards'[c] = seen'[c].change
    BY DEF CardsAreLatest
  <2>0. c \notin late /\ c \notin passed
    BY <1>2
  <2>1. CASE c \notin of
    BY <1>t, <1>2, <2>0, <2>1 DEF CardsAreLatest
  <2>2. CASE c \in of
    <3>1. ~(reply[c].change < seen[c].change) /\ (op = "group" => reply[c].there)
      BY <1>2, <2>2
    <3>2. seen'[c] = reply[c]
      <4>1. Agree(reply[c], seen[c])
        BY <1>t, <1>1, <1>4, <2>2 DEF NoneNewer
      <4>2. reply[c].change \in Nat /\ seen[c].change \in Nat
        BY <1>3, <2>2, PageAssumption
      <4>3. reply[c].change > seen[c].change \/ reply[c] = seen[c]
        BY <3>1, <4>1, <4>2 DEF Agree
      <4> QED BY <1>2, <2>2, <4>3
    <3>3. reply[c].there /\ cards'[c] = reply[c].change
      <4>1. cards'[c] = IF op = "all" THEN AfterAll(reply[c]) ELSE AfterOne(op, c, reply[c])
        BY <1>2, <2>2
      <4>2. reply[c].there \in BOOLEAN
        BY <1>3, <2>2, DocTyped
      <4> QED BY <3>1, <4>1, <4>2 DEF AfterAll, AfterOne
    <3> QED BY <3>2, <3>3
  <2> QED BY <2>1, <2>2
<1> QED BY <1>8, <1>9, <1>10 DEF IPage

LEMMA PageKeeps == IPage /\ [PageNext]_pageVars => IPage'
<1> SUFFICES ASSUME IPage, [PageNext]_pageVars PROVE IPage'
  OBVIOUS
<1>0. \A r \in Request : request[r] \in [op : Ops, of : SUBSET Card, answer : Answers]
  BY DEF IPage, PageTyped
<1>1. ASSUME NEW c \in Card, StoreChanges(c) PROVE IPage'
  BY <1>1, StoreChangesKeeps
<1>2. ASSUME NEW r \in Request, NEW c \in Card, NEW op \in OneCard, Press(r, c, op) PROVE IPage'
  <2>1. PICK q : q = [NoRequest EXCEPT !.op = op, !.of = {c}]
    OBVIOUS
  <2>2. q \in [op : Ops, of : SUBSET Card, answer : Answers] /\ DOMAIN q.answer = {}
    BY <2>1, NoRequestTyped DEF Ops
  <2>3. request' = [request EXCEPT ![r] = q]
    BY <1>2, <2>1 DEF Press
  <2> QED BY <1>2, <2>2, <2>3, AskKeeps DEF Press
<1>3. ASSUME NEW r \in Request, PressAll(r) PROVE IPage'
  <2>1. PICK q : q = [NoRequest EXCEPT !.op = "all", !.of = Card]
    OBVIOUS
  <2>2. q \in [op : Ops, of : SUBSET Card, answer : Answers] /\ DOMAIN q.answer = {}
    BY <2>1, NoRequestTyped DEF Ops
  <2>3. request' = [request EXCEPT ![r] = q]
    BY <1>3, <2>1 DEF PressAll
  <2> QED BY <1>3, <2>2, <2>3, AskKeeps DEF PressAll
<1>4. ASSUME NEW r \in Request, Fails(r) PROVE IPage'
  BY <1>4, NoRequestTyped, AskKeeps DEF Fails
<1>5. ASSUME NEW r \in Request, Served(r) \/ Arrive(r) PROVE IPage'
  BY <1>5, ServedKeeps, ArriveKeeps
<1>6. CASE UNCHANGED pageVars
  BY <1>6 DEF pageVars, IPage, PageTyped, NoneNewer, CardsAreLatest
<1> QED BY <1>1, <1>2, <1>3, <1>4, <1>5, <1>6 DEF PageNext

(***************************************************************************)
(* PageIsLatest: for any containers and requests and any order of the      *)
(* answers, a card shows the newest document any answer carried, and none  *)
(* is left of a container an answer said is gone, except where an older    *)
(* answer overtook a newer one or a group update passed over a missing     *)
(* container.                                                              *)
(***************************************************************************)
THEOREM PageIsLatest == PageSpec => []CardsAreLatest
<1>1. IPage => CardsAreLatest
  BY DEF IPage
<1> QED BY <1>1, PageStarts, PageKeeps, PTL DEF PageSpec

---------------------------------------------------------------------------------
(***************************************************************************)
(* The sensors of Home Assistant.  Tasks take turns, one message each, so  *)
(* a task that started later is never ahead of one that started earlier:   *)
(* of the tasks that publish a topic, the youngest publishes it last, and  *)
(* no container has come, gone or changed since it started.                *)
(***************************************************************************)
Triples == Nat \X Nat \X Nat
Readings == [all : Triples, own : Triples]
Sent == [of : Tile \cup Host, adds : BOOLEAN, at : 1..18, read : Readings]
FirstAt == IF discovery THEN 1 ELSE 8

\* A task is one of a container, or one of a watcher.
Sound(t) == /\ t.at <= 16 => t.of \in Tile /\ FirstAt <= t.at
            /\ t.at > 16 => t.of \in Host
            /\ t.at = 17 => discovery

Owners == Host \cup {"all"}
Concerns(t, o) == t.at <= 16 /\ (o = "all" \/ HostOf[t.of] = o)
Of(o) == {i \in 1..Len(line) : Concerns(line[i], o)}
Senior(i, j) == line[i].at > line[j].at \/ (line[i].at = line[j].at /\ i < j)
Youngest(j, o) == j \in Of(o) /\ \A i \in Of(o) : i = j \/ Senior(i, j)

ReadOf(t, o) == IF o = "all" THEN t.read.all ELSE t.read.own
ValueAt(o, k) == IF o = "all" THEN 7 + k ELSE 10 + k
Told(o, at) == \A i \in Of(o) : line[i].at >= at

LineTyped == /\ line \in Seq(Sent) /\ \A i \in 1..Len(line) : Sound(line[i])
             /\ discovery \in BOOLEAN /\ tile \in [Tile -> {"absent", "current", "outdated"}]
CountsFresh ==
  \A o \in Owners, k \in 1..3 : \A j \in 1..Len(line) :
    Youngest(j, o) /\ line[j].at \in 8..13 => ReadOf(line[j], o)[k] = Right(<<o, Kinds[k]>>)
CountsTold ==
  \A o \in Owners, k \in 1..3 :
    Told(o, ValueAt(o, k)) /\ <<o, Kinds[k]>> \in DOMAIN value
      => value[<<o, Kinds[k]>>] = Right(<<o, Kinds[k]>>)
WatchShown(w) ==
  /\ \A j \in 1..Len(line) :
       line[j].at = 17 /\ line[j].of = w
         /\ (\A i \in 1..Len(line) : line[i].at = 17 /\ line[i].of = w => i <= j)
       => (line[j].adds <=> w \in running)
  /\ (\A i \in 1..Len(line) : ~(line[i].at = 17 /\ line[i].of = w)) /\ <<w, "running">> \in DOMAIN value
       => value[<<w, "running">>] = IF w \in running THEN 1 ELSE 0
WatchTold == \A w \in Host : WatchShown(w)
TilesShown == discovery => \A c \in Tile : (<<"update", c>> \in displayed) <=> (tile[c] # "absent")
CountersShown ==
  discovery => \A w \in Host \ crossed, k \in 1..3 :
                 Populated(w) /\ Told(w, 4 + k) => <<w, Kinds[k]>> \in displayed
CountersHidden ==
  discovery => \A w \in Host, k \in 1..3 :
                 ~Populated(w) /\ Told(w, 13 + k) => <<w, Kinds[k]>> \notin displayed

ValuesKnown ==
  \A topic \in DOMAIN value : \/ \E o \in Owners, k \in 1..3 : topic = <<o, Kinds[k]>>
                             \/ \E w \in Host : topic = <<w, "running">>

ISensors == LineTyped /\ ValuesKnown /\ CountsFresh /\ CountsTold /\ WatchTold
            /\ TilesShown /\ CountersShown /\ CountersHidden

LEMMA KindsAre ==
  /\ Kinds[1] = "total_count" /\ Kinds[2] = "update_count" /\ Kinds[3] = "update_status"
  /\ \A i, j \in 1..3 : Kinds[i] = Kinds[j] => i = j
  /\ \A i \in 1..3 : Kinds[i] # "running"
BY DEF Kinds

LEMMA HostNames ==
  /\ \A c \in Tile : HostOf[c] \in Host
  /\ \A w \in Host : w # "all" /\ w # "update"
BY SensorAssumption DEF Host

\* The message of each number.
LEMMA TopicIs ==
  ASSUME NEW t, t.at \in 1..18
  PROVE  /\ t.at = 1 => Topic(t) = <<"update", t.of>>
         /\ \A k \in 1..3 :
              /\ t.at = 1 + k \/ t.at = 7 + k => Topic(t) = <<"all", Kinds[k]>>
              /\ t.at = 4 + k \/ t.at = 10 + k \/ t.at = 13 + k => Topic(t) = <<HostOf[t.of], Kinds[k]>>
         /\ t.at > 16 => Topic(t) = <<t.of, "running">>
<1>1. t.at = 1 => Topic(t) = <<"update", t.of>>
  BY DEF Topic
<1>2. t.at > 16 => Topic(t) = <<t.of, "running">>
  BY DEF Topic
<1>3. t.at \in 2..16 => Topic(t) = <<Owner(t), Kinds[((t.at - 2) % 3) + 1]>>
  BY DEF Topic
<1>4. ASSUME NEW k \in 1..3
      PROVE /\ t.at = 1 + k \/ t.at = 7 + k => Topic(t) = <<"all", Kinds[k]>>
            /\ t.at = 4 + k \/ t.at = 10 + k \/ t.at = 13 + k => Topic(t) = <<HostOf[t.of], Kinds[k]>>
  <2>1. t.at \in {1 + k, 4 + k, 7 + k, 10 + k, 13 + k} => ((t.at - 2) % 3) + 1 = k
    <3>1. CASE k = 1
      BY <3>1
    <3>2. CASE k = 2
      BY <3>2
    <3>3. CASE k = 3
      BY <3>3
    <3> QED BY <3>1, <3>2, <3>3
  <2>2. t.at = 1 + k \/ t.at = 7 + k => Owner(t) = "all"
    BY DEF Owner
  <2>3. t.at = 4 + k \/ t.at = 10 + k \/ t.at = 13 + k => Owner(t) = HostOf[t.of]
    BY DEF Owner
  <2> QED BY <1>3, <2>1, <2>2, <2>3
<1> QED BY <1>1, <1>2, <1>4

LEMMA ValueIs ==
  ASSUME NEW t, t.at \in 1..18, Sound(t)
  PROVE  /\ \A k \in 1..3 : /\ t.at = 7 + k => Value(t) = t.read.all[k]
                            /\ t.at = 10 + k => Value(t) = t.read.own[k]
         /\ t.at = 18 => Value(t) = IF t.adds THEN 1 ELSE 0
<1>1. t.at = 18 => Value(t) = IF t.adds THEN 1 ELSE 0
  BY DEF Value
<1>2. ASSUME NEW k \in 1..3
      PROVE  /\ t.at = 7 + k => Value(t) = t.read.all[k]
             /\ t.at = 10 + k => Value(t) = t.read.own[k]
  <2>1. t.at \in {7 + k, 10 + k} => ((t.at - 2) % 3) + 1 = k
    <3>1. CASE k = 1
      BY <3>1
    <3>2. CASE k = 2
      BY <3>2
    <3>3. CASE k = 3
      BY <3>3
    <3> QED BY <3>1, <3>2, <3>3
  <2>2. t.at = 7 + k => Owner(t) = "all"
    BY DEF Owner
  <2>3. ASSUME t.at = 10 + k PROVE Owner(t) # "all"
    BY <2>3, HostNames DEF Owner, Sound
  <2> QED BY <2>1, <2>2, <2>3 DEF Value
<1> QED BY <1>1, <1>2

\* What a message does to the sensors of the counters, of the containers and of
\* the watches, and to their values.
LEMMA PublishShows ==
  ASSUME NEW t, t.at \in 1..18, Sound(t), Publish(t)
  PROVE  /\ \A w \in Host, k \in 1..3 :
              (<<w, Kinds[k]>> \in displayed') <=>
                \/ t.at = 4 + k /\ HostOf[t.of] = w
                \/ <<w, Kinds[k]>> \in displayed /\ ~(t.at = 13 + k /\ HostOf[t.of] = w)
         /\ \A c \in Tile :
              (<<"update", c>> \in displayed') <=>
                IF t.at = 1 /\ t.of = c THEN t.adds ELSE <<"update", c>> \in displayed
         /\ crossed \subseteq crossed'
         /\ \A c \in Tile : t.at \in 14..16 /\ HostOf[c] = HostOf[t.of] /\ tile'[c] # "absent"
                              => HostOf[c] \in crossed'
<1>1. displayed' = IF Removes(t) THEN displayed \ {Topic(t)}
                   ELSE IF t.at \in (1..7) \cup {17} THEN displayed \cup {Topic(t)} ELSE displayed
  BY DEF Publish
<1>2. Removes(t) <=> t.at \in 14..16 \/ (t.at = 1 /\ ~t.adds)
  BY DEF Removes
<1>3. t.at = 1 => Topic(t) = <<"update", t.of>> /\ t.of \in Tile
  BY TopicIs DEF Sound
<1>4. t.at > 16 => Topic(t) = <<t.of, "running">> /\ t.of \in Host
  BY TopicIs DEF Sound
<1>5. ASSUME t.at \in 2..16
      PROVE  \E k \in 1..3 : /\ Topic(t) = <<Owner(t), Kinds[k]>>
                             /\ t.at \in {1 + k, 4 + k, 7 + k, 10 + k, 13 + k}
                             /\ t.at \in {1 + k, 7 + k} => Owner(t) = "all"
                             /\ t.at \in {4 + k, 10 + k, 13 + k} => Owner(t) = HostOf[t.of]
  <2>1. PICK k \in 1..3 : t.at \in {1 + k, 4 + k, 7 + k, 10 + k, 13 + k}
    <3>1. \E k \in 1..3 : t.at \in {1 + k, 4 + k, 7 + k, 10 + k, 13 + k}
      <4>1. t.at \in {2, 5, 8, 11, 14} \/ t.at \in {3, 6, 9, 12, 15} \/ t.at \in {4, 7, 10, 13, 16}
        BY <1>5
      <4>2. CASE t.at \in {2, 5, 8, 11, 14}
        BY <4>2, 1 \in 1..3
      <4>3. CASE t.at \in {3, 6, 9, 12, 15}
        BY <4>3, 2 \in 1..3
      <4>4. CASE t.at \in {4, 7, 10, 13, 16}
        BY <4>4, 3 \in 1..3
      <4> QED BY <4>1, <4>2, <4>3, <4>4
    <3> QED BY <3>1
  <2>2. t.at \in {1 + k, 7 + k} => Owner(t) = "all"
    BY <2>1 DEF Owner
  <2>3. t.at \in {4 + k, 10 + k, 13 + k} => Owner(t) = HostOf[t.of]
    BY <2>1 DEF Owner
  <2> QED BY <2>1, <2>2, <2>3, TopicIs
<1>6. ASSUME NEW w \in Host, NEW k \in 1..3
      PROVE  (<<w, Kinds[k]>> \in displayed') <=>
                \/ t.at = 4 + k /\ HostOf[t.of] = w
                \/ <<w, Kinds[k]>> \in displayed /\ ~(t.at = 13 + k /\ HostOf[t.of] = w)
  <2>1. CASE t.at = 1 \/ t.at > 16
    <3>1. Topic(t) # <<w, Kinds[k]>>
      BY <1>3, <1>4, <2>1, HostNames, KindsAre
    <3> QED BY <1>1, <2>1, <3>1
  <2>2. CASE t.at \in 2..16
    <3>1. PICK j \in 1..3 : /\ Topic(t) = <<Owner(t), Kinds[j]>>
                            /\ t.at \in {1 + j, 4 + j, 7 + j, 10 + j, 13 + j}
                            /\ t.at \in {1 + j, 7 + j} => Owner(t) = "all"
                            /\ t.at \in {4 + j, 10 + j, 13 + j} => Owner(t) = HostOf[t.of]
      BY <1>5, <2>2
    <3>2. <<w, Kinds[k]>> = Topic(t) <=> Owner(t) = w /\ j = k
      BY <3>1, KindsAre
    <3>3. w # "all"
      BY HostNames
    <3>4. CASE t.at \in {1 + j, 7 + j, 10 + j}
      <4>1. ~Removes(t) /\ (t.at \in 1..7 => Owner(t) = "all") /\ t.at # 17
        BY <1>2, <3>1, <3>4
      <4> QED BY <1>1, <3>1, <3>2, <3>3, <3>4, <4>1
    <3>5. CASE t.at = 4 + j
      <4>1. ~Removes(t) /\ t.at \in 1..7
        BY <1>2, <3>5
      <4> QED BY <1>1, <3>1, <3>2, <3>5, <4>1
    <3>6. CASE t.at = 13 + j
      <4>1. Removes(t)
        BY <1>2, <3>6
      <4> QED BY <1>1, <3>1, <3>2, <3>6, <4>1
    <3> QED BY <3>1, <3>4, <3>5, <3>6
  <2> QED BY <2>1, <2>2
<1>7. ASSUME NEW c \in Tile
      PROVE  (<<"update", c>> \in displayed') <=>
                IF t.at = 1 /\ t.of = c THEN t.adds ELSE <<"update", c>> \in displayed
  <2>1. CASE t.at = 1
    <3>1. Topic(t) = <<"update", c>> <=> t.of = c
      BY <1>3, <2>1
    <3> QED BY <1>1, <1>2, <2>1, <3>1
  <2>2. CASE t.at # 1
    <3>1. Topic(t) # <<"update", c>>
      <4>1. CASE t.at > 16
        BY <1>4, <4>1, HostNames
      <4>2. CASE t.at \in 2..16
        <5>1. Owner(t) # "update"
          BY <4>2, HostNames DEF Owner, Sound
        <5> QED BY <1>5, <4>2, <5>1
      <4> QED BY <2>2, <4>1, <4>2
    <3> QED BY <1>1, <2>2, <3>1
  <2> QED BY <2>1, <2>2
<1>8. crossed \subseteq crossed'
      /\ \A c \in Tile : t.at \in 14..16 /\ HostOf[c] = HostOf[t.of] /\ tile'[c] # "absent"
                              => HostOf[c] \in crossed'
  BY DEF Publish
<1> QED BY <1>6, <1>7, <1>8

LEMMA PublishTells ==
  ASSUME NEW t, t.at \in 1..18, Sound(t), Publish(t)
  PROVE  /\ \A o \in Owners, k \in 1..3 :
              LET hit == t.at = ValueAt(o, k) /\ Concerns(t, o)
                  topic == <<o, Kinds[k]>>
              IN  topic \in DOMAIN value' =>
                    IF hit THEN value'[topic] = ReadOf(t, o)[k]
                    ELSE topic \in DOMAIN value /\ value'[topic] = value[topic]
         /\ \A w \in Host :
              LET hit == t.at = 18 /\ t.of = w
                  topic == <<w, "running">>
              IN  topic \in DOMAIN value' =>
                    IF hit THEN value'[topic] = IF t.adds THEN 1 ELSE 0
                    ELSE topic \in DOMAIN value /\ value'[topic] = value[topic]
<1> DEFINE hit(o, k) == t.at = ValueAt(o, k) /\ Concerns(t, o)
           topic(o, k) == <<o, Kinds[k]>>
<1>1. CASE t.at \notin (8..13) \cup {18}
  <2>1. value' = value
    BY <1>1 DEF Publish
  <2>2. \A o \in Owners, k \in 1..3 : ~hit(o, k)
    BY <1>1 DEF ValueAt
  <2> QED BY <1>1, <2>1, <2>2
<1>2. CASE t.at \in (8..13) \cup {18}
  <2>1. value' = [k \in DOMAIN value \cup {Topic(t)} |-> IF k = Topic(t) THEN Value(t) ELSE value[k]]
    BY <1>2 DEF Publish
  <2>2. \A k \in DOMAIN value' : IF k = Topic(t) THEN value'[k] = Value(t)
                              ELSE k \in DOMAIN value /\ value'[k] = value[k]
    BY <2>1
  <2>3. CASE t.at = 18
    <3>1. Topic(t) = <<t.of, "running">> /\ Value(t) = IF t.adds THEN 1 ELSE 0
      BY <2>3, TopicIs, ValueIs
    <3>2. \A o \in Owners, k \in 1..3 : ~hit(o, k) /\ topic(o, k) # Topic(t)
      BY <2>3, <3>1, KindsAre DEF Concerns
    <3>3. \A w \in Host : <<w, "running">> = Topic(t) <=> t.of = w
      BY <3>1
    <3> QED BY <2>2, <2>3, <3>1, <3>2, <3>3
  <2>4. CASE t.at \in 8..13
    <3>1. PICK j \in 1..3 : t.at = 7 + j \/ t.at = 10 + j
      <4>1. t.at \in {8, 11} \/ t.at \in {9, 12} \/ t.at \in {10, 13}
        BY <2>4
      <4>2. CASE t.at \in {8, 11}
        BY <4>2, 1 \in 1..3
      <4>3. CASE t.at \in {9, 12}
        BY <4>3, 2 \in 1..3
      <4>4. CASE t.at \in {10, 13}
        BY <4>4, 3 \in 1..3
      <4> QED BY <4>1, <4>2, <4>3, <4>4
    <3> DEFINE owner == IF t.at = 7 + j THEN "all" ELSE HostOf[t.of]
    <3>2. t.at = 7 + j => t.at # 10 + j
      BY <3>1
    <3>3. Topic(t) = topic(owner, j)
      BY <3>1, <3>2, TopicIs
    <3>4. t.of \in Tile /\ HostOf[t.of] \in Host /\ HostOf[t.of] # "all"
      BY <2>4, HostNames DEF Sound
    <3>5. Value(t) = ReadOf(t, owner)[j]
      BY <3>1, <3>2, <3>4, ValueIs DEF ReadOf
    <3>6. ASSUME NEW o \in Owners, NEW k \in 1..3
          PROVE  topic(o, k) = Topic(t) <=> hit(o, k)
      <4>1. topic(o, k) = Topic(t) <=> o = owner /\ k = j
        BY <3>3, KindsAre
      <4>2. hit(o, k) <=> o = owner /\ k = j
        <5>1. CASE o = "all"
          BY <3>1, <3>2, <3>4, <2>4, <5>1 DEF ValueAt, Concerns
        <5>2. CASE o # "all"
          BY <3>1, <3>2, <3>4, <2>4, <5>2 DEF ValueAt, Concerns
        <5> QED BY <5>1, <5>2
      <4> QED BY <4>1, <4>2
    <3>7. ASSUME NEW o \in Owners, NEW k \in 1..3, hit(o, k)
          PROVE  Value(t) = ReadOf(t, o)[k]
      <4>1. topic(o, k) = topic(owner, j)
        BY <3>3, <3>6, <3>7
      <4>2. o = owner /\ k = j
        BY <4>1, KindsAre
      <4> QED BY <3>5, <4>2
    <3>8. \A w \in Host : <<w, "running">> # Topic(t)
      BY <3>3, KindsAre
    <3> HIDE DEF hit, topic
    <3>9. \A o \in Owners, k \in 1..3 : topic(o, k) \in DOMAIN value' =>
                    IF hit(o, k) THEN value'[topic(o, k)] = ReadOf(t, o)[k]
                    ELSE topic(o, k) \in DOMAIN value /\ value'[topic(o, k)] = value[topic(o, k)]
      BY <2>2, <3>6, <3>7
    <3> USE DEF hit, topic
    <3> QED BY <2>2, <2>4, <3>8, <3>9
  <2> QED BY <1>2, <2>3, <2>4
<1> QED BY <1>1, <1>2

LEMMA PublishKeeps ==
  ASSUME NEW t, t.at \in 1..18, Sound(t), Publish(t)
  PROVE  /\ \A o \in Owners, k \in 1..3 :
              ~(t.at = ValueAt(o, k) /\ Concerns(t, o)) /\ <<o, Kinds[k]>> \in DOMAIN value'
                => <<o, Kinds[k]>> \in DOMAIN value /\ value'[<<o, Kinds[k]>>] = value[<<o, Kinds[k]>>]
         /\ \A w \in Host :
              ~(t.at = 18 /\ t.of = w) /\ <<w, "running">> \in DOMAIN value'
                => <<w, "running">> \in DOMAIN value /\ value'[<<w, "running">>] = value[<<w, "running">>]
BY PublishTells

LEMMA PublishKnown ==
  ASSUME ValuesKnown, NEW t, t.at \in 1..18, Sound(t), Publish(t)
  PROVE  ValuesKnown'
<1>1. t.at \in 8..13 => \E o \in Owners, k \in 1..3 : Topic(t) = <<o, Kinds[k]>>
  <2> SUFFICES ASSUME t.at \in 8..13
               PROVE  \E o \in Owners, k \in 1..3 : Topic(t) = <<o, Kinds[k]>>
    OBVIOUS
  <2>1. "all" \in Owners /\ HostOf[t.of] \in Owners
    BY HostNames DEF Owners, Sound
  <2>2. \A k \in 1..3 : /\ t.at = 7 + k => Topic(t) = <<"all", Kinds[k]>>
                        /\ t.at = 10 + k => Topic(t) = <<HostOf[t.of], Kinds[k]>>
    BY TopicIs
  <2>3. /\ t.at = 8 => Topic(t) = <<"all", Kinds[1]>>
        /\ t.at = 9 => Topic(t) = <<"all", Kinds[2]>>
        /\ t.at = 10 => Topic(t) = <<"all", Kinds[3]>>
        /\ t.at = 11 => Topic(t) = <<HostOf[t.of], Kinds[1]>>
        /\ t.at = 12 => Topic(t) = <<HostOf[t.of], Kinds[2]>>
        /\ t.at = 13 => Topic(t) = <<HostOf[t.of], Kinds[3]>>
    BY <2>2, 1 \in 1..3, 2 \in 1..3, 3 \in 1..3
  <2> QED BY <2>1, <2>3
<1>2. t.at = 18 => \E w \in Host : Topic(t) = <<w, "running">>
  BY TopicIs DEF Sound
<1>3. \A topic \in DOMAIN value' :
        topic \in DOMAIN value \/ (topic = Topic(t) /\ t.at \in (8..13) \cup {18})
  <2>1. value' = IF t.at \in (8..13) \cup {18}
                 THEN [k \in DOMAIN value \cup {Topic(t)} |-> IF k = Topic(t) THEN Value(t) ELSE value[k]]
                 ELSE value
    BY DEF Publish
  <2> QED BY <2>1
<1> QED BY <1>1, <1>2, <1>3 DEF ValuesKnown

\* What the store says does not change with the messages.
LEMMA RightStays ==
  ASSUME UNCHANGED <<tile, running>>
  PROVE  /\ \A topic : Right(topic)' = Right(topic)
         /\ \A w \in Host : Populated(w)' <=> Populated(w)
BY DEF Right, Populated

LEMMA CountsRight ==
  ASSUME NEW c \in Tile, NEW k \in 1..3
  PROVE  /\ CountsFor(c).all[k] = Right(<<"all", Kinds[k]>>)'
         /\ CountsFor(c).own[k] = Right(<<HostOf[c], Kinds[k]>>)'
<1> DEFINE cs(o) == IF o = "all" THEN Tile ELSE {e \in Tile : HostOf[e] = o}
<1>1. ASSUME NEW o PROVE Right(<<o, Kinds[k]>>)' = Counts(cs(o))[k]
  <2>1. CASE k = 1
    BY <2>1, KindsAre DEF Right, Counts
  <2>2. CASE k = 2
    BY <2>2, KindsAre DEF Right, Counts
  <2>3. CASE k = 3
    BY <2>3, KindsAre DEF Right, Counts
  <2> QED BY <2>1, <2>2, <2>3
<1>2. CountsFor(c).all = Counts(cs("all")) /\ CountsFor(c).own = Counts(cs(HostOf[c]))
  BY HostNames DEF CountsFor
<1> HIDE DEF cs
<1> QED BY <1>1, <1>2

LEMMA CountsType == ASSUME NEW c \in Tile PROVE CountsFor(c) \in Readings
<1>1. ASSUME NEW cs, cs \subseteq Tile PROVE Counts(cs) \in Triples
  <2>1. /\ IsFiniteSet({e \in cs : tile'[e] = "outdated"})
        /\ IsFiniteSet({e \in cs : tile'[e] # "absent"})
    BY <1>1, SensorAssumption, FS_Subset
  <2>2. /\ Cardinality({e \in cs : tile'[e] = "outdated"}) \in Nat
        /\ Cardinality({e \in cs : tile'[e] # "absent"}) \in Nat
    BY <2>1, FS_CardinalityType
  <2> QED BY <2>2 DEF Counts, Triples
<1>2. Counts(Tile) \in Triples /\ Counts({o \in Tile : HostOf[o] = HostOf[c]}) \in Triples
  BY <1>1
<1> QED BY <1>2 DEF CountsFor, Readings

\* A watcher has a container exactly if its first counter is not zero.
LEMMA PopulatedCounts ==
  ASSUME NEW w \in Host
  PROVE  Right(<<w, Kinds[1]>>) # 0 <=> Populated(w)
<1> DEFINE cs == {e \in {e \in Tile : HostOf[e] = w} : tile[e] # "absent"}
<1>1. Right(<<w, Kinds[1]>>) = Cardinality(cs)
  BY KindsAre, HostNames DEF Right
<1>2. IsFiniteSet(cs)
  BY SensorAssumption, FS_Subset
<1>3. Cardinality(cs) = 0 <=> cs = {}
  BY <1>2, FS_EmptySet
<1> QED BY <1>1, <1>3 DEF Populated

-------------------------------------------------------------------------------
(* A new task comes last; it is the youngest of those it concerns. *)
LEMMA TaskComes ==
  ASSUME LineTyped, NEW t \in Sent, line' = Append(line, t)
  PROVE  /\ line' \in Seq(Sent) /\ Len(line) \in Nat /\ Len(line') = Len(line) + 1
         /\ line'[Len(line')] = t
         /\ \A i \in 1..Len(line) : i \in 1..Len(line') /\ line'[i] = line[i]
         /\ \A i \in 1..Len(line') : i \in 1..Len(line) \/ i = Len(line')
BY DEF LineTyped

LEMMA TaskGoesOn ==
  ASSUME LineTyped, line # <<>>, NEW t \in Sent, line' = Append(Tail(line), t)
  PROVE  /\ line' \in Seq(Sent) /\ Len(line) \in Nat \ {0} /\ Len(line') = Len(line)
         /\ line'[Len(line)] = t /\ line[1] = Head(line)
         /\ \A i \in 1..(Len(line) - 1) : i + 1 \in 1..Len(line) /\ line'[i] = line[i + 1]
         /\ \A i \in 2..Len(line) : i - 1 \in 1..Len(line') /\ line'[i - 1] = line[i]
BY DEF LineTyped

LEMMA TaskEnds ==
  ASSUME LineTyped, line # <<>>, line' = Tail(line)
  PROVE  /\ line' \in Seq(Sent) /\ Len(line) \in Nat \ {0} /\ Len(line') = Len(line) - 1
         /\ line[1] = Head(line)
         /\ \A i \in 1..(Len(line) - 1) : i + 1 \in 1..Len(line) /\ line'[i] = line[i + 1]
         /\ \A i \in 2..Len(line) : i - 1 \in 1..Len(line') /\ line'[i - 1] = line[i]
BY DEF LineTyped

\* The next message of a task.
LEMMA ContinueIs ==
  ASSUME LineTyped, line # <<>>, ~Finishes(Head(line)), UNCHANGED <<discovery, tile>>
  PROVE  LET h == Head(line)
             t == Continue(h)
         IN  /\ h \in Sent /\ Sound(h) /\ t \in Sent /\ Sound(t)
             /\ t.at = h.at + 1 /\ t.of = h.of /\ t.adds = h.adds
             /\ t.read = IF h.at = 7 THEN CountsFor(h.of) ELSE h.read
             /\ h.at # 16 /\ h.at # 18
<1> DEFINE h == Head(line)
<1>1. h \in Sent /\ Sound(h)
  <2>1. line \in Seq(Sent) /\ 1 \in 1..Len(line) /\ h = line[1]
    BY DEF LineTyped
  <2> QED BY <2>1 DEF LineTyped
<1>2. h.at \in 1..18 /\ h.at # 16 /\ h.at # 18
  BY <1>1 DEF Finishes, Sent
<1> DEFINE r == IF h.at = 7 THEN CountsFor(h.of) ELSE h.read
<1>3. r \in Readings
  <2>1. h.at = 7 => h.of \in Tile
    BY <1>1 DEF Sound
  <2> QED BY <1>1, <2>1, CountsType DEF Sent
<1>4. Continue(h) = [h EXCEPT !.at = h.at + 1, !.read = r]
  BY DEF Continue
<1> HIDE DEF h, r
<1>5. h.at + 1 \in 1..18
  BY <1>2, SMTT(30)
<1>6. /\ Continue(h) \in Sent /\ Continue(h).at = h.at + 1 /\ Continue(h).of = h.of
      /\ Continue(h).adds = h.adds /\ Continue(h).read = r
  BY <1>1, <1>3, <1>4, <1>5 DEF Sent
<1>7. Sound(Continue(h))
  BY <1>1, <1>2, <1>6, SMTT(30) DEF Sound, FirstAt
<1> QED BY <1>1, <1>2, <1>6, <1>7 DEF h, r

-------------------------------------------------------------------------------
\* The task that has just sent a value is, if no other of those it concerns is
\* still to send it, the youngest of them.
LEMMA SentByYoungest ==
  ASSUME NEW m \in Seq(Sent), line' = m, NEW n \in Nat \ {0}, n = Len(m),
         NEW t \in Sent, Sound(t), m[n] = t, Publish(t), CountsFresh',
         NEW o \in Owners, NEW k \in 1..3, t.at = ValueAt(o, k), Concerns(t, o),
         Told(o, ValueAt(o, k))', <<o, Kinds[k]>> \in DOMAIN value'
  PROVE  value'[<<o, Kinds[k]>>] = Right(<<o, Kinds[k]>>)'
<1>1. \A i \in 1..n : m[i] \in Sent
  OBVIOUS
<1>2. n \in 1..n /\ m[n].at = t.at
  OBVIOUS
<1>3. ASSUME NEW i \in 1..n, Concerns(m[i], o)
      PROVE  i = n \/ m[i].at > m[n].at \/ (m[i].at = m[n].at /\ i < n)
  <2>1. m[i].at >= t.at
    BY <1>3 DEF Told, Of
  <2>2. \A u \in Sent : u.at \in 1..18
    BY DEF Sent
  <2>3. m[i].at \in 1..18 /\ t.at \in 1..18
    BY <1>1, <2>2
  <2>4. i \in Nat /\ i <= n
    OBVIOUS
  <2> PICK x : x = m[i].at
    OBVIOUS
  <2> PICK y : y = t.at
    OBVIOUS
  <2>5. x \in 1..18 /\ y \in 1..18 /\ x >= y
    BY <2>1, <2>3
  <2>6. i = n \/ x > y \/ (x = y /\ i < n)
    BY <2>4, <2>5, SMTT(30)
  <2> QED BY <1>2, <2>6
<1>4. n \in Of(o)' /\ \A i \in Of(o)' : i \in 1..n /\ Concerns(m[i], o)
  BY <1>2 DEF Of
<1>5. Youngest(n, o)'
  BY <1>3, <1>4 DEF Youngest, Senior
<1>6. t.at \in 8..13
  BY DEF ValueAt
<1>7. ReadOf(t, o)[k] = Right(<<o, Kinds[k]>>)'
  <2>1. \A j \in 1..n : Youngest(j, o)' /\ m[j].at \in 8..13
                          => ReadOf(m[j], o)[k] = Right(<<o, Kinds[k]>>)'
    BY DEF CountsFresh, ReadOf
  <2> QED BY <1>2, <1>5, <1>6, <2>1
<1>8. t.at \in 1..18
  BY DEF Sent
<1> QED BY <1>7, <1>8, PublishTells

\* A container event: the counts it changes are read by its own task.
LEMMA TileEventSettles ==
  ASSUME ISensors, NEW c \in Tile, NEW s \in {"absent", "current", "outdated"}, TileEvent(c, s)
  PROVE  ISensors'
<1> PICK r : r = IF discovery THEN NoCounts ELSE CountsFor(c)
  OBVIOUS
<1> PICK first : first = IF discovery THEN 1 ELSE 8
  OBVIOUS
<1> PICK t : t = [of |-> c, adds |-> s # "absent", at |-> first, read |-> r]
  OBVIOUS
<1> PICK m : m = line'
  OBVIOUS
<1> PICK n : n = Len(m)
  OBVIOUS
<1>1. /\ LineTyped /\ ValuesKnown /\ CountsFresh /\ CountsTold /\ WatchTold
      /\ TilesShown /\ CountersShown /\ CountersHidden
  BY DEF ISensors
<1>2. /\ line' = Append(line, t) /\ Publish(t) /\ UNCHANGED <<discovery, running>>
      /\ tile' = [tile EXCEPT ![c] = s]
  BY DEF TileEvent
<1>3. t \in Sent /\ Sound(t) /\ t.of = c /\ t.at = FirstAt /\ (t.adds <=> s # "absent")
      /\ (~discovery => t.read = CountsFor(c))
  <2>1. NoCounts \in Readings
    BY DEF NoCounts, Readings, Triples
  <2>2. r \in Readings /\ first \in {1, 8} /\ first = FirstAt
    BY <2>1, CountsType DEF FirstAt
  <2>3. t \in Sent
    BY <2>2 DEF Sent
  <2>4. t.of = c /\ t.at = first /\ (t.adds <=> s # "absent") /\ t.read = r
    OBVIOUS
  <2>5. Sound(t)
    BY <2>2, <2>4 DEF Sound, FirstAt
  <2> QED BY <2>2, <2>3, <2>4, <2>5
<1>4. t.at = (IF discovery THEN 1 ELSE 8) /\ t.at \in 1..18 /\ FirstAt' = FirstAt
  BY <1>2, <1>3 DEF FirstAt
<1>5. /\ m \in Seq(Sent) /\ n \in Nat \ {0} /\ Len(line) \in Nat /\ n = Len(line) + 1 /\ m[n] = t
      /\ \A i \in 1..Len(line) : i \in 1..n /\ m[i] = line[i]
      /\ \A i \in 1..n : i \in 1..Len(line) \/ i = n
  BY <1>1, <1>2, <1>3, TaskComes
<1>6. \A i \in 1..Len(line) : line[i] \in Sent /\ Sound(line[i]) /\ line[i].at \in 1..18
  <2>1. \A u \in Sent : u.at \in 1..18
    BY DEF Sent
  <2> QED BY <1>1, <2>1 DEF LineTyped
<1>7. LineTyped'
  <2>1. \A i \in 1..n : Sound(m[i])
    BY <1>3, <1>5, <1>6
  <2>2. \A u : Sound(u) => (Sound(u))'
    BY <1>2, <1>4 DEF Sound
  <2>3. tile' \in [Tile -> {"absent", "current", "outdated"}]
    BY <1>1, <1>2 DEF LineTyped
  <2>4. \A i \in 1..Len(m) : (Sound(m[i]))'
    BY <2>1, <2>2
  <2> QED BY <1>1, <1>2, <1>5, <2>3, <2>4 DEF LineTyped
<1>8. ASSUME NEW o \in Owners, ~Concerns(t, o)
      PROVE  /\ o \in Host /\ o # HostOf[c]
             /\ (Populated(o)' <=> Populated(o))
             /\ \A k \in 1..3 : Right(<<o, Kinds[k]>>)' = Right(<<o, Kinds[k]>>)
             /\ Of(o)' = Of(o)
  <2>1. o \in Host /\ o # HostOf[c] /\ o # "all"
    BY <1>3, <1>4, <1>8 DEF Concerns, Owners
  <2>2. \A e \in Tile : HostOf[e] = o => tile'[e] = tile[e]
    BY <1>1, <1>2, <2>1 DEF LineTyped
  <2>3. Populated(o)' <=> Populated(o)
    BY <2>2 DEF Populated
  <2>4. {e \in {e \in Tile : HostOf[e] = o} : tile'[e] # "absent"}
          = {e \in {e \in Tile : HostOf[e] = o} : tile[e] # "absent"}
    BY <2>2
  <2>5. {e \in {e \in Tile : HostOf[e] = o} : tile'[e] = "outdated"}
          = {e \in {e \in Tile : HostOf[e] = o} : tile[e] = "outdated"}
    BY <2>2
  <2>6. \A k \in 1..3 : Right(<<o, Kinds[k]>>)' = Right(<<o, Kinds[k]>>)
    BY <1>2, <2>1, <2>4, <2>5 DEF Right
  <2>7. Of(o)' = Of(o)
    BY <1>5, <1>8 DEF Of
  <2> QED BY <2>1, <2>3, <2>6, <2>7
<1>9. ASSUME NEW o \in Owners, ~Concerns(t, o), NEW at, Told(o, at)' PROVE Told(o, at)
  BY <1>5, <1>8, <1>9 DEF Told, Of
<1>10. CountsFresh'
  <2> SUFFICES ASSUME NEW o \in Owners, NEW k \in 1..3, NEW j \in 1..n, Youngest(j, o)',
                      m[j].at \in 8..13
               PROVE  ReadOf(m[j], o)[k] = Right(<<o, Kinds[k]>>)'
    BY DEF CountsFresh
  <2>1. CASE Concerns(t, o)
    <3>1. n \in Of(o)' /\ (j = n \/ m[n].at > m[j].at \/ (m[n].at = m[j].at /\ n < j))
      BY <1>5, <2>1 DEF Youngest, Senior, Of
    <3>2. j = n
      <4> SUFFICES ASSUME j # n PROVE FALSE
        OBVIOUS
      <4>1. j \in 1..Len(line) /\ m[j] = line[j]
        BY <1>5
      <4>2. line[j].at >= FirstAt
        BY <1>6, <4>1 DEF Sound, FirstAt
      <4> QED BY <1>3, <1>4, <1>5, <1>6, <3>1, <4>1, <4>2
    <3>3. ~discovery /\ m[j].read = CountsFor(c)
      BY <1>3, <1>4, <1>5, <3>2
    <3>4. o = "all" \/ o = HostOf[c]
      BY <1>3, <2>1 DEF Concerns
    <3> QED BY <3>3, <3>4, CountsRight, HostNames DEF ReadOf
  <2>2. CASE ~Concerns(t, o)
    <3>1. j \in Of(o)'
      BY DEF Youngest
    <3>2. j \in 1..Len(line) /\ m[j] = line[j] /\ Of(o)' = Of(o)
      BY <1>5, <1>8, <2>2, <3>1 DEF Of
    <3>3. \A i \in Of(o) : i \in 1..Len(line) /\ m[i] = line[i]
      BY <1>5 DEF Of
    <3>4. Youngest(j, o)
      BY <3>2, <3>3 DEF Youngest, Senior
    <3>5. ReadOf(line[j], o)[k] = Right(<<o, Kinds[k]>>)
      BY <1>1, <3>2, <3>4 DEF CountsFresh
    <3> QED BY <1>8, <2>2, <3>2, <3>5
  <2> QED BY <2>1, <2>2
<1>11. CountsTold'
  <2> SUFFICES ASSUME NEW o \in Owners, NEW k \in 1..3, Told(o, ValueAt(o, k))',
                      <<o, Kinds[k]>> \in DOMAIN value'
               PROVE  value'[<<o, Kinds[k]>>] = Right(<<o, Kinds[k]>>)'
    BY DEF CountsTold, ValueAt
  <2>1. CASE t.at = ValueAt(o, k) /\ Concerns(t, o)
    BY <1>2, <1>3, <1>5, <1>10, <2>1, SentByYoungest, ZenonT(60)
  <2>2. CASE ~(t.at = ValueAt(o, k) /\ Concerns(t, o))
    <3>1. ~Concerns(t, o)
      <4> SUFFICES ASSUME Concerns(t, o) PROVE FALSE
        OBVIOUS
      <4>1. n \in Of(o)' /\ m[n].at = t.at
        BY <1>5 DEF Of
      <4>2. t.at >= ValueAt(o, k)
        BY <4>1 DEF Told, ValueAt
      <4> QED BY <1>4, <2>2, <4>2 DEF ValueAt
    <3>2. <<o, Kinds[k]>> \in DOMAIN value /\ value'[<<o, Kinds[k]>>] = value[<<o, Kinds[k]>>]
      BY <1>2, <1>3, <1>4, <2>2, PublishKeeps, ZenonT(60)
    <3>3. Told(o, ValueAt(o, k))
      BY <1>9, <3>1 DEF ValueAt
    <3> QED BY <1>1, <1>8, <3>1, <3>2, <3>3, ZenonT(60) DEF CountsTold
  <2> QED BY <2>1, <2>2
<1>12. WatchTold'
  <2>1. t.at # 17 /\ t.at # 18
    BY <1>4
  <2>2. \A i \in 1..n : m[i].at = 17 => i \in 1..Len(line) /\ m[i] = line[i]
    BY <1>5, <2>1
  <2> SUFFICES ASSUME NEW w \in Host PROVE WatchShown(w)'
    BY DEF WatchTold
  <2>3. ASSUME NEW j \in 1..n, m[j].at = 17, m[j].of = w,
               \A i \in 1..n : m[i].at = 17 /\ m[i].of = w => i <= j
        PROVE  m[j].adds <=> w \in running
    <3>1. j \in 1..Len(line) /\ m[j] = line[j]
      BY <2>2, <2>3
    <3>2. \A i \in 1..Len(line) : line[i].at = 17 /\ line[i].of = w => i <= j
      BY <1>5, <2>3
    <3>3. line[j].adds <=> w \in running
      BY <1>1, <2>3, <3>1, <3>2, ZenonT(60) DEF WatchTold, WatchShown
    <3> QED BY <3>1, <3>3
  <2>4. ASSUME \A i \in 1..n : ~(m[i].at = 17 /\ m[i].of = w),
               <<w, "running">> \in DOMAIN value'
        PROVE  value'[<<w, "running">>] = IF w \in running THEN 1 ELSE 0
    <3>1. <<w, "running">> \in DOMAIN value /\ value'[<<w, "running">>] = value[<<w, "running">>]
      BY <1>2, <1>3, <1>4, <2>1, <2>4, PublishTells, ZenonT(60)
    <3>2. \A i \in 1..Len(line) : ~(line[i].at = 17 /\ line[i].of = w)
      BY <1>5, <2>4
    <3> QED BY <1>1, <3>1, <3>2 DEF WatchTold, WatchShown
  <2>5. running' = running /\ line' = m /\ Len(m) = n
    BY <1>2
  <2> QED BY <2>3, <2>4, <2>5 DEF WatchShown
<1>13. TilesShown'
  <2> SUFFICES ASSUME discovery, NEW e \in Tile
               PROVE  (<<"update", e>> \in displayed') <=> tile'[e] # "absent"
    BY <1>2 DEF TilesShown
  <2>1. (<<"update", e>> \in displayed') <=>
          IF t.at = 1 /\ t.of = e THEN t.adds ELSE <<"update", e>> \in displayed
    BY <1>2, <1>3, <1>4, PublishShows
  <2>2. tile'[e] = IF e = c THEN s ELSE tile[e]
    BY <1>1, <1>2 DEF LineTyped
  <2> QED BY <1>1, <1>3, <1>4, <2>1, <2>2 DEF TilesShown
<1>14. ASSUME discovery, NEW w \in Host, NEW k \in 1..3, Told(w, 4 + k)' \/ Told(w, 13 + k)'
       PROVE  /\ ~Concerns(t, w)
              /\ (<<w, Kinds[k]>> \in displayed') <=> (<<w, Kinds[k]>> \in displayed)
  <2>1. ~Concerns(t, w)
    <3> SUFFICES ASSUME Concerns(t, w) PROVE FALSE
      OBVIOUS
    <3>1. n \in Of(w)' /\ m[n].at = t.at
      BY <1>5 DEF Of
    <3> QED BY <1>4, <1>14, <3>1 DEF Told
  <2>2. ~(t.at = 4 + k /\ HostOf[t.of] = w) /\ ~(t.at = 13 + k /\ HostOf[t.of] = w)
    BY <1>4, <2>1 DEF Concerns
  <2> QED BY <1>2, <1>3, <1>4, <2>1, <2>2, PublishShows, ZenonT(60)
<1>15. CountersShown'
  <2> SUFFICES ASSUME discovery, NEW w \in Host \ crossed', NEW k \in 1..3,
                      Populated(w)', Told(w, 4 + k)'
               PROVE  <<w, Kinds[k]>> \in displayed'
    BY <1>2 DEF CountersShown
  <2>1. w \in Owners /\ ~Concerns(t, w)
    BY <1>14 DEF Owners
  <2>2. Populated(w) /\ Told(w, 4 + k) /\ w \notin crossed
    BY <1>2, <1>3, <1>4, <1>8, <1>9, <2>1, PublishShows
  <2> QED BY <1>1, <1>14, <2>2 DEF CountersShown
<1>16. CountersHidden'
  <2> SUFFICES ASSUME discovery, NEW w \in Host, NEW k \in 1..3,
                      ~Populated(w)', Told(w, 13 + k)'
               PROVE  <<w, Kinds[k]>> \notin displayed'
    BY <1>2 DEF CountersHidden
  <2>1. w \in Owners /\ ~Concerns(t, w)
    BY <1>14 DEF Owners
  <2>2. ~Populated(w) /\ Told(w, 13 + k)
    BY <1>8, <1>9, <2>1
  <2> QED BY <1>1, <1>14, <2>2 DEF CountersHidden
<1>k. ValuesKnown'
  BY <1>1, <1>2, <1>3, <1>4, PublishKnown
<1> QED BY <1>k, <1>7, <1>10, <1>11, <1>12, <1>13, <1>15, <1>16 DEF ISensors

\* The counts of the store change with its containers only.
LEMMA CountsStay ==
  ASSUME UNCHANGED tile
  PROVE  /\ \A o \in Owners, k \in 1..3 : Right(<<o, Kinds[k]>>)' = Right(<<o, Kinds[k]>>)
         /\ \A w \in Host : Populated(w)' <=> Populated(w)
BY KindsAre DEF Right, Populated

\* The start or the end of a watch: its task concerns no counter.
LEMMA WatchEventSettles ==
  ASSUME ISensors, NEW w \in Host, WatchEvent(w)
  PROVE  ISensors'
<1> PICK run : run = IF w \in running THEN running \ {w} ELSE running \cup {w}
  OBVIOUS
<1>1. /\ LineTyped /\ ValuesKnown /\ CountsFresh /\ CountsTold /\ WatchTold
      /\ TilesShown /\ CountersShown /\ CountersHidden
  BY DEF ISensors
<1>2. UNCHANGED <<discovery, tile>> /\ running' = run
  BY DEF WatchEvent
<1>3. PICK t \in Sent :
        /\ line' = Append(line, t) /\ Publish(t)
        /\ Sound(t) /\ t.of = w /\ (t.adds <=> w \in run)
        /\ t.at \in 17..18 /\ t.at \in 1..18 /\ (t.at = 17 <=> discovery)
  <2> PICK first : first = IF discovery THEN 17 ELSE 18
    OBVIOUS
  <2> PICK t : t = [of |-> w, adds |-> w \in run, at |-> first, read |-> NoCounts]
    OBVIOUS
  <2>1. NoCounts \in Readings
    BY DEF NoCounts, Readings, Triples
  <2>2. t \in Sent
    BY <2>1 DEF Sent
  <2>3. t.of = w /\ t.at = first /\ (t.adds <=> w \in run)
    OBVIOUS
  <2>4. Sound(t)
    BY <2>3 DEF Sound
  <2>5. line' = Append(line, t) /\ Publish(t)
    BY DEF WatchEvent
  <2> QED BY <2>2, <2>3, <2>4, <2>5
<1> PICK m : m = line'
  OBVIOUS
<1> PICK n : n = Len(m)
  OBVIOUS
<1>4. \A o : ~Concerns(t, o)
  BY <1>3 DEF Concerns
<1>5. /\ m \in Seq(Sent) /\ n \in Nat \ {0} /\ Len(line) \in Nat /\ n = Len(line) + 1 /\ m[n] = t
      /\ \A i \in 1..Len(line) : i \in 1..n /\ m[i] = line[i]
      /\ \A i \in 1..n : i \in 1..Len(line) \/ i = n
  BY <1>1, <1>2, <1>3, TaskComes
<1>6. \A o : Of(o)' = Of(o)
  BY <1>4, <1>5 DEF Of
<1>7. \A o, at : Told(o, at)' <=> Told(o, at)
  BY <1>5, <1>6 DEF Told, Of
<1>8. /\ \A o \in Owners, k \in 1..3 : Right(<<o, Kinds[k]>>)' = Right(<<o, Kinds[k]>>)
      /\ \A v \in Host : Populated(v)' <=> Populated(v)
  BY <1>2, CountsStay
<1>9. LineTyped'
  <2>1. \A i \in 1..n : Sound(m[i])
    BY <1>1, <1>3, <1>5 DEF LineTyped
  <2>2. \A u : Sound(u) => (Sound(u))'
    BY <1>2 DEF Sound, FirstAt
  <2>3. \A i \in 1..Len(m) : (Sound(m[i]))'
    BY <2>1, <2>2
  <2> QED BY <1>1, <1>2, <1>5, <2>3 DEF LineTyped
<1>10. CountsFresh'
  <2> SUFFICES ASSUME NEW o \in Owners, NEW k \in 1..3, NEW j \in 1..n, Youngest(j, o)',
                      m[j].at \in 8..13
               PROVE  ReadOf(m[j], o)[k] = Right(<<o, Kinds[k]>>)'
    BY DEF CountsFresh
  <2>1. j \in Of(o)'
    BY DEF Youngest
  <2>2. j \in 1..Len(line) /\ m[j] = line[j]
    BY <1>5, <1>6, <2>1 DEF Of
  <2>3. \A i \in Of(o) : i \in 1..Len(line) /\ m[i] = line[i]
    BY <1>5 DEF Of
  <2>4. Youngest(j, o)
    BY <1>6, <2>2, <2>3 DEF Youngest, Senior
  <2>5. ReadOf(line[j], o)[k] = Right(<<o, Kinds[k]>>)
    BY <1>1, <2>2, <2>4 DEF CountsFresh
  <2> QED BY <1>8, <2>2, <2>5
<1>11. CountsTold'
  <2> SUFFICES ASSUME NEW o \in Owners, NEW k \in 1..3, Told(o, ValueAt(o, k))',
                      <<o, Kinds[k]>> \in DOMAIN value'
               PROVE  value'[<<o, Kinds[k]>>] = Right(<<o, Kinds[k]>>)'
    BY DEF CountsTold, ValueAt
  <2>1. <<o, Kinds[k]>> \in DOMAIN value /\ value'[<<o, Kinds[k]>>] = value[<<o, Kinds[k]>>]
    BY <1>2, <1>3, <1>4, PublishKeeps, ZenonT(60)
  <2>2. Told(o, ValueAt(o, k))
    BY <1>7 DEF ValueAt
  <2> QED BY <1>1, <1>8, <2>1, <2>2 DEF CountsTold
<1>12. WatchTold'
  <2> SUFFICES ASSUME NEW v \in Host PROVE WatchShown(v)'
    BY DEF WatchTold
  <2>1. WatchShown(v)
    BY <1>1 DEF WatchTold
  <2>2. v # w => (v \in run <=> v \in running)
    OBVIOUS
  <2>3. ASSUME NEW j \in 1..n, m[j].at = 17, m[j].of = v,
               \A i \in 1..n : m[i].at = 17 /\ m[i].of = v => i <= j
        PROVE  m[j].adds <=> v \in run
    <3>1. CASE j = n
      BY <1>3, <1>5, <2>3, <3>1
    <3>2. CASE j # n
      <4>1. j \in 1..Len(line) /\ m[j] = line[j] /\ ~(n <= j)
        BY <1>5, <3>2
      <4>2. ~(t.at = 17 /\ t.of = v)
        BY <1>5, <2>3, <4>1
      <4>3. discovery
        BY <1>1, <2>3, <4>1 DEF LineTyped, Sound
      <4>4. v # w
        BY <1>3, <4>2, <4>3
      <4>5. \A i \in 1..Len(line) : line[i].at = 17 /\ line[i].of = v => i <= j
        BY <1>5, <2>3
      <4>6. line[j].adds <=> v \in running
        BY <2>1, <2>3, <4>1, <4>5 DEF WatchShown
      <4> QED BY <2>2, <4>1, <4>4, <4>6
    <3> QED BY <3>1, <3>2
  <2>4. ASSUME \A i \in 1..n : ~(m[i].at = 17 /\ m[i].of = v),
               <<v, "running">> \in DOMAIN value'
        PROVE  value'[<<v, "running">>] = IF v \in run THEN 1 ELSE 0
    <3>1. n \in 1..n /\ ~(t.at = 17 /\ t.of = v)
      BY <1>5, <2>4
    <3>2. CASE v = w
      <4>1. t.at = 18 /\ t.of = v
        BY <1>3, <3>1, <3>2
      <4>2. value'[<<v, "running">>] = IF t.adds THEN 1 ELSE 0
        BY <1>2, <1>3, <2>4, <4>1, PublishTells
      <4> QED BY <1>3, <3>2, <4>2
    <3>3. CASE v # w
      <4>1. <<v, "running">> \in DOMAIN value /\ value'[<<v, "running">>] = value[<<v, "running">>]
        BY <1>2, <1>3, <2>4, <3>3, PublishKeeps
      <4>2. \A i \in 1..Len(line) : ~(line[i].at = 17 /\ line[i].of = v)
        BY <1>5, <2>4
      <4> QED BY <2>1, <2>2, <3>3, <4>1, <4>2 DEF WatchShown
    <3> QED BY <3>2, <3>3
  <2>5. running' = run /\ line' = m /\ Len(m) = n
    BY <1>2
  <2> QED BY <2>3, <2>4, <2>5 DEF WatchShown
<1>13. TilesShown'
  <2>1. ASSUME NEW e \in Tile
        PROVE  (<<"update", e>> \in displayed') <=> (<<"update", e>> \in displayed)
    <3>1. (<<"update", e>> \in displayed') <=>
            IF t.at = 1 /\ t.of = e THEN t.adds ELSE <<"update", e>> \in displayed
      BY <1>3, PublishShows
    <3> QED BY <1>3, <3>1
  <2> QED BY <1>1, <1>2, <2>1 DEF TilesShown
<1>14. ASSUME NEW v \in Host, NEW k \in 1..3
       PROVE  (<<v, Kinds[k]>> \in displayed') <=> (<<v, Kinds[k]>> \in displayed)
  <2>1. (<<v, Kinds[k]>> \in displayed') <=>
          \/ t.at = 4 + k /\ HostOf[t.of] = v
          \/ <<v, Kinds[k]>> \in displayed /\ ~(t.at = 13 + k /\ HostOf[t.of] = v)
    BY <1>3, PublishShows
  <2> QED BY <1>3, <2>1
<1>15. CountersShown'
  <2> SUFFICES ASSUME discovery, NEW v \in Host \ crossed', NEW k \in 1..3,
                      Populated(v)', Told(v, 4 + k)'
               PROVE  <<v, Kinds[k]>> \in displayed'
    BY <1>2 DEF CountersShown
  <2>1. Populated(v) /\ Told(v, 4 + k) /\ v \notin crossed
    BY <1>2, <1>3, <1>7, <1>8, PublishShows
  <2> QED BY <1>1, <1>14, <2>1 DEF CountersShown
<1>16. CountersHidden'
  <2> SUFFICES ASSUME discovery, NEW v \in Host, NEW k \in 1..3,
                      ~Populated(v)', Told(v, 13 + k)'
               PROVE  <<v, Kinds[k]>> \notin displayed'
    BY <1>2 DEF CountersHidden
  <2>1. ~Populated(v) /\ Told(v, 13 + k)
    BY <1>7, <1>8
  <2> QED BY <1>1, <1>14, <2>1 DEF CountersHidden
<1>k. ValuesKnown'
  BY <1>1, <1>2, <1>3, PublishKnown
<1> QED BY <1>k, <1>9, <1>10, <1>11, <1>12, <1>13, <1>15, <1>16 DEF ISensors

\* The youngest of several tasks: its counts are those of the store.
LEMMA ReadsRight ==
  ASSUME CountsFresh, NEW o \in Owners, NEW k \in 1..3, NEW j \in 1..Len(line),
         Youngest(j, o), line[j].at \in 8..13
  PROVE  ReadOf(line[j], o)[k] = Right(<<o, Kinds[k]>>)
BY DEF CountsFresh

\* A task that has published its last message leaves the rest as they are.
LEMMA FinishedSettles ==
  ASSUME ISensors, Acknowledged, Finishes(Head(line))
  PROVE  ISensors'
<1> PICK m : m = line'
  OBVIOUS
<1> PICK n : n = Len(m)
  OBVIOUS
<1> PICK h : h = line[1]
  OBVIOUS
<1>1. /\ LineTyped /\ ValuesKnown /\ CountsFresh /\ CountsTold /\ WatchTold
      /\ TilesShown /\ CountersShown /\ CountersHidden
  BY DEF ISensors
<1>2. /\ line # <<>> /\ line' = Tail(line)
      /\ UNCHANGED <<discovery, tile, running, displayed, value, crossed>>
  BY DEF Acknowledged
<1>3. /\ m \in Seq(Sent) /\ n \in Nat /\ Len(line) = n + 1 /\ h = Head(line) /\ 1 \in 1..Len(line)
      /\ \A i \in 1..n : i + 1 \in 1..Len(line) /\ m[i] = line[i + 1]
      /\ \A i \in 2..Len(line) : i - 1 \in 1..n /\ m[i - 1] = line[i]
  BY <1>1, <1>2, TaskEnds
<1>4. /\ \A i \in 1..Len(line) : line[i] \in Sent /\ Sound(line[i]) /\ line[i].at \in 1..18
      /\ \A i \in 1..n : m[i].at \in 1..18
  <2>1. \A u \in Sent : u.at \in 1..18
    BY DEF Sent
  <2>2. ASSUME NEW i \in 1..Len(line) PROVE line[i] \in Sent /\ Sound(line[i])
    BY <1>1 DEF LineTyped
  <2>3. ASSUME NEW i \in 1..n PROVE m[i] \in Sent
    BY <1>3, <2>2
  <2> QED BY <2>1, <2>2, <2>3
<1>5. h \in Sent /\ Sound(h) /\ h.at \in {13, 16, 18} /\ (h.at = 13 => ~(discovery /\ h.read.own[1] = 0))
  <2>1. h.at \in {13, 16, 18} /\ (h.at = 13 => ~(discovery /\ h.read.own[1] = 0))
    BY <1>3 DEF Finishes
  <2> QED BY <1>3, <1>4, <2>1
<1>6. /\ \A topic : Right(topic)' = Right(topic)
      /\ \A w \in Host : Populated(w)' <=> Populated(w)
  BY <1>2, RightStays
<1>7. ASSUME NEW o, NEW i \in 1..n PROVE i \in Of(o)' <=> i + 1 \in Of(o)
  BY <1>3 DEF Of
<1>8. ASSUME NEW o, NEW at \in Nat, at <= 13 \/ ~Concerns(h, o), Told(o, at)' PROVE Told(o, at)
  <2> SUFFICES ASSUME NEW i \in Of(o) PROVE line[i].at >= at
    BY DEF Told
  <2>1. i \in 1..Len(line) /\ Concerns(line[i], o)
    BY DEF Of
  <2>2. CASE i = 1
    BY <1>5, <1>8, <2>1, <2>2 DEF Concerns
  <2>3. CASE i # 1
    <3>1. i - 1 \in 1..n /\ m[i - 1] = line[i]
      BY <1>3, <2>1, <2>3
    <3>2. i - 1 \in Of(o)'
      BY <2>1, <3>1 DEF Of
    <3>3. \A j \in Of(o)' : m[j].at >= at
      BY <1>8 DEF Told
    <3> QED BY <3>1, <3>2, <3>3
  <2> QED BY <2>2, <2>3
<1>9. LineTyped'
  <2>1. \A i \in 1..n : Sound(m[i])
    BY <1>3, <1>4
  <2>2. \A u : Sound(u) => (Sound(u))'
    BY <1>2 DEF Sound, FirstAt
  <2>3. \A i \in 1..Len(m) : (Sound(m[i]))'
    BY <2>1, <2>2
  <2> QED BY <1>1, <1>2, <1>3, <2>3 DEF LineTyped
<1>10. CountsFresh'
  <2> SUFFICES ASSUME NEW o \in Owners, NEW k \in 1..3, NEW j \in 1..n, Youngest(j, o)',
                      m[j].at \in 8..13
               PROVE  ReadOf(m[j], o)[k] = Right(<<o, Kinds[k]>>)'
    BY DEF CountsFresh
  <2>1. j + 1 \in Of(o) /\ m[j] = line[j + 1] /\ j + 1 \in 1..Len(line)
    BY <1>3, <1>7 DEF Youngest
  <2>2. ASSUME NEW i \in Of(o) PROVE i = j + 1 \/ Senior(i, j + 1)
    <3>1. i \in 1..Len(line) /\ Concerns(line[i], o)
      BY DEF Of
    <3>2. CASE i = 1
      BY <1>4, <1>5, <2>1, <3>1, <3>2, SMTT(30) DEF Senior, Concerns
    <3>3. CASE i # 1
      <4>1. i - 1 \in 1..n /\ m[i - 1] = line[i]
        BY <1>3, <3>1, <3>3
      <4>2. i - 1 \in Of(o)'
        BY <3>1, <4>1 DEF Of
      <4>3. i - 1 = j \/ m[i - 1].at > m[j].at \/ (m[i - 1].at = m[j].at /\ i - 1 < j)
        BY <4>2 DEF Youngest, Senior
      <4>4. i \in Nat /\ j \in Nat /\ (i - 1 = j => i = j + 1) /\ (i - 1 < j => i < j + 1)
        BY <1>3, <3>1
      <4>5. line[i].at > line[j + 1].at \/ (line[i].at = line[j + 1].at /\ i - 1 < j) \/ i - 1 = j
        BY <2>1, <4>1, <4>3
      <4> QED BY <4>4, <4>5 DEF Senior
    <3> QED BY <3>2, <3>3
  <2>3. Youngest(j + 1, o)
    BY <2>1, <2>2 DEF Youngest
  <2>4. ReadOf(line[j + 1], o)[k] = Right(<<o, Kinds[k]>>)
    BY <1>1, <2>1, <2>3, ReadsRight
  <2> QED BY <1>6, <2>1, <2>4
<1>11. CountsTold'
  <2> SUFFICES ASSUME NEW o \in Owners, NEW k \in 1..3, Told(o, ValueAt(o, k))',
                      <<o, Kinds[k]>> \in DOMAIN value
               PROVE  value[<<o, Kinds[k]>>] = Right(<<o, Kinds[k]>>)
    BY <1>2, <1>6 DEF CountsTold, ValueAt
  <2>1. ValueAt(o, k) \in Nat /\ ValueAt(o, k) <= 13 /\ ValueAt(o, k)' = ValueAt(o, k)
    BY DEF ValueAt
  <2>2. Told(o, ValueAt(o, k))
    <3> PICK at : at = ValueAt(o, k)
      OBVIOUS
    <3>1. Told(o, at)'
      BY DEF ValueAt
    <3> QED BY <1>8, <2>1, <3>1
  <2> QED BY <1>1, <2>2 DEF CountsTold
<1>12. WatchTold'
  <2> SUFFICES ASSUME NEW v \in Host PROVE WatchShown(v)'
    BY DEF WatchTold
  <2>1. WatchShown(v)
    BY <1>1 DEF WatchTold
  <2>2. ASSUME NEW i \in 1..Len(line), line[i].at = 17 PROVE i - 1 \in 1..n /\ m[i - 1] = line[i]
    BY <1>3, <1>5, <2>2
  <2>3. ASSUME NEW j \in 1..n, m[j].at = 17, m[j].of = v,
               \A i \in 1..n : m[i].at = 17 /\ m[i].of = v => i <= j
        PROVE  m[j].adds <=> v \in running
    <3>1. j + 1 \in 1..Len(line) /\ m[j] = line[j + 1]
      BY <1>3
    <3>2. ASSUME NEW i \in 1..Len(line), line[i].at = 17, line[i].of = v PROVE i <= j + 1
      <4>1. i - 1 \in 1..n /\ m[i - 1].at = 17 /\ m[i - 1].of = v
        BY <2>2, <3>2
      <4>2. i - 1 <= j
        BY <2>3, <4>1
      <4> QED BY <4>2
    <3>3. line[j + 1].adds <=> v \in running
      BY <2>1, <2>3, <3>1, <3>2 DEF WatchShown
    <3> QED BY <3>1, <3>3
  <2>4. ASSUME \A i \in 1..n : ~(m[i].at = 17 /\ m[i].of = v), <<v, "running">> \in DOMAIN value
        PROVE  value[<<v, "running">>] = IF v \in running THEN 1 ELSE 0
    <3>1. \A i \in 1..Len(line) : ~(line[i].at = 17 /\ line[i].of = v)
      BY <2>2, <2>4
    <3> QED BY <2>1, <2>4, <3>1 DEF WatchShown
  <2>5. running' = running /\ value' = value /\ line' = m /\ Len(m) = n
    BY <1>2
  <2> QED BY <2>3, <2>4, <2>5 DEF WatchShown
<1>13. TilesShown'
  BY <1>1, <1>2 DEF TilesShown
<1>14. CountersShown'
  <2> SUFFICES ASSUME discovery, NEW v \in Host \ crossed, NEW k \in 1..3,
                      Populated(v), Told(v, 4 + k)'
               PROVE  <<v, Kinds[k]>> \in displayed
    BY <1>2, <1>6 DEF CountersShown
  <2>1. Told(v, 4 + k)
    BY <1>8, 4 + k <= 13, 4 + k \in Nat
  <2> QED BY <1>1, <2>1 DEF CountersShown
<1>15. CountersHidden'
  <2> SUFFICES ASSUME discovery, NEW v \in Host, NEW k \in 1..3,
                      ~Populated(v), Told(v, 13 + k)'
               PROVE  <<v, Kinds[k]>> \notin displayed
    BY <1>2, <1>6 DEF CountersHidden
  <2>1. CASE ~Concerns(h, v)
    <3>1. Told(v, 13 + k)
      BY <1>8, <2>1, 13 + k \in Nat
    <3> QED BY <1>1, <3>1 DEF CountersHidden
  <2>2. CASE Concerns(h, v) /\ h.at = 16
    <3>1. \A i \in Of(v) : line[i].at >= 13 + k
      <4> SUFFICES ASSUME NEW i \in Of(v), i # 1 PROVE line[i].at >= 13 + k
        BY <1>3, <2>2
      <4>1. i \in 1..Len(line) /\ Concerns(line[i], v)
        BY DEF Of
      <4>2. i - 1 \in 1..n /\ m[i - 1] = line[i]
        BY <1>3, <4>1
      <4>3. i - 1 \in Of(v)'
        BY <4>1, <4>2 DEF Of
      <4>4. \A j \in Of(v)' : m[j].at >= 13 + k
        BY DEF Told
      <4> QED BY <4>2, <4>3, <4>4
    <3>2. Told(v, 13 + k)
      BY <3>1 DEF Told
    <3> QED BY <1>1, <3>2 DEF CountersHidden
  <2>3. CASE Concerns(h, v) /\ h.at = 13
    <3>1. 1 \in Of(v)
      BY <1>3, <2>3 DEF Of
    <3>2. ASSUME NEW i \in Of(v), i # 1 PROVE Senior(i, 1)
      <4>1. i \in 1..Len(line) /\ Concerns(line[i], v)
        BY DEF Of
      <4>2. i - 1 \in 1..n /\ m[i - 1] = line[i]
        BY <1>3, <3>2, <4>1
      <4>3. i - 1 \in Of(v)'
        BY <4>1, <4>2 DEF Of
      <4>4. \A j \in Of(v)' : m[j].at >= 13 + k
        BY DEF Told
      <4>5. line[i].at >= 14
        <5>1. m[i - 1].at >= 13 + k
          BY <4>3, <4>4
        <5> PICK x : x = m[i - 1].at
          OBVIOUS
        <5>2. x \in 1..18 /\ x = line[i].at /\ x >= 13 + k
          BY <1>4, <4>2, <5>1
        <5> QED BY <5>2
      <4>6. line[i].at \in 1..18 /\ line[1].at = 13
        BY <1>4, <2>3, <4>1
      <4> QED BY <4>5, <4>6, SMTT(30) DEF Senior
    <3>3. Youngest(1, v)
      BY <3>1, <3>2 DEF Youngest
    <3>4. v \in Owners /\ v # "all"
      BY HostNames DEF Owners
    <3>5. ReadOf(h, v)[1] = Right(<<v, Kinds[1]>>)
      <4>1. 1 \in 1..Len(line) /\ line[1].at \in 8..13 /\ 1 \in 1..3
        BY <1>3, <2>3
      <4>2. ReadOf(line[1], v)[1] = Right(<<v, Kinds[1]>>)
        BY <1>1, <3>3, <3>4, <4>1, ReadsRight
      <4> QED BY <4>2
    <3>6. h.read.own[1] # 0
      BY <1>5, <2>3
    <3>7. Populated(v)
      BY <3>4, <3>5, <3>6, PopulatedCounts DEF ReadOf
    <3> QED BY <3>7
  <2> QED BY <1>5, <2>1, <2>2, <2>3 DEF Concerns
<1>k. ValuesKnown'
  BY <1>1, <1>2 DEF ValuesKnown
<1> QED BY <1>k, <1>9, <1>10, <1>11, <1>12, <1>13, <1>14, <1>15 DEF ISensors

\* A task sends its next message and waits behind the others: those that are
\* ahead of it stay ahead, those behind it stay behind.
LEMMA ContinuedSettles ==
  ASSUME ISensors, Acknowledged, ~Finishes(Head(line))
  PROVE  ISensors'
<1> PICK h : h = line[1]
  OBVIOUS
<1>1. /\ LineTyped /\ ValuesKnown /\ CountsFresh /\ CountsTold /\ WatchTold
      /\ TilesShown /\ CountersShown /\ CountersHidden
  BY DEF ISensors
<1>2. line # <<>> /\ UNCHANGED <<discovery, tile, running>>
  BY DEF Acknowledged
<1>3. PICK t \in Sent :
        /\ line' = Append(Tail(line), t) /\ Publish(t) /\ Sound(t)
        /\ t.at \in 1..18 /\ t.at = h.at + 1 /\ t.of = h.of /\ t.adds = h.adds
        /\ t.read = IF h.at = 7 THEN CountsFor(h.of) ELSE h.read
        /\ h.at \in 1..17 /\ h.at # 16
  <2> PICK t : t = Continue(Head(line))
    OBVIOUS
  <2>1. h = Head(line)
    BY <1>1, <1>2 DEF LineTyped
  <2>2. /\ h \in Sent /\ t \in Sent /\ Sound(t)
        /\ t.at = h.at + 1 /\ t.of = h.of /\ t.adds = h.adds
        /\ t.read = IF h.at = 7 THEN CountsFor(h.of) ELSE h.read
        /\ h.at # 16 /\ h.at # 18
    BY <1>1, <1>2, <2>1, ContinueIs
  <2>3. line' = Append(Tail(line), t) /\ Publish(t)
    BY DEF Acknowledged
  <2>4. h.at \in 1..18 /\ t.at \in 1..18
    BY <2>2 DEF Sent
  <2>5. h.at \in 1..17 /\ h.at # 16
    <3> PICK x : x = h.at
      OBVIOUS
    <3>1. x \in 1..18 /\ x # 16 /\ x # 18
      BY <2>2, <2>4
    <3>2. x \in 1..17 /\ x # 16
      BY <3>1
    <3> QED BY <3>2
  <2> QED BY <2>2, <2>3, <2>4, <2>5
<1>m. PICK m : m = line'
  OBVIOUS
<1>n. PICK n : n = Len(m)
  OBVIOUS
<1> PICK x \in 1..17 : x = h.at /\ x # 16
  BY <1>3
<1>x. t.at = x + 1 /\ h.at = x /\ line[1].at = x /\ x # 16
  BY <1>3
<1>s. m \in Seq(Sent) /\ Len(line) = n
  BY <1>m, <1>n, <1>1, <1>2, <1>3, TaskGoesOn
<1>4. /\ n \in Nat \ {0} /\ m[n] = t /\ h = line[1]
      /\ \A i \in 1..(n - 1) : i + 1 \in 1..n /\ m[i] = line[i + 1]
      /\ \A i \in 2..n : i - 1 \in 1..(n - 1) /\ i - 1 \in 1..n /\ m[i - 1] = line[i]
  BY <1>m, <1>n, <1>s, <1>1, <1>2, <1>3, TaskGoesOn
<1>5. /\ \A i \in 1..n : line[i] \in Sent /\ Sound(line[i]) /\ line[i].at \in 1..18
      /\ \A i \in 1..n : m[i].at \in 1..18
      /\ 1 \in 1..n /\ n \in 1..n
  <2>1. \A u \in Sent : u.at \in 1..18
    BY DEF Sent
  <2>2. ASSUME NEW i \in 1..n PROVE line[i] \in Sent /\ Sound(line[i])
    BY <1>s, <1>1 DEF LineTyped
  <2>3. ASSUME NEW i \in 1..n PROVE m[i] \in Sent
    BY <1>m, <1>n, <1>s, <1>4
  <2>4. 1 \in 1..n /\ n \in 1..n
    BY <1>4
  <2> QED BY <2>1, <2>2, <2>3, <2>4
<1>6. /\ \A topic : Right(topic)' = Right(topic)
      /\ \A w \in Host : Populated(w)' <=> Populated(w)
  BY <1>m, <1>n, <1>s, <1>2, RightStays
<1>7. \A o : Concerns(t, o) <=> Concerns(h, o)
  BY <1>m, <1>n, <1>s, <1>3, <1>x DEF Concerns
<1>8. ASSUME NEW o
      PROVE  /\ n \in Of(o)' <=> 1 \in Of(o)
             /\ 1 \in Of(o) <=> Concerns(t, o)
             /\ \A i \in 2..n : i \in Of(o) <=> i - 1 \in Of(o)'
  BY <1>m, <1>n, <1>s, <1>4, <1>5, <1>7 DEF Of
\* Its next message has a number above those it has published.
<1>9. ASSUME NEW o, NEW at \in Nat, Told(o, at)', ~(t.at = at /\ Concerns(t, o)) PROVE Told(o, at)
  <2>1. \A j \in Of(o)' : m[j].at >= at
    BY <1>m, <1>n, <1>s, <1>9 DEF Told
  <2> SUFFICES ASSUME NEW i \in Of(o) PROVE line[i].at >= at
    BY <1>m, <1>n, <1>s DEF Told
  <2>2. i \in 1..n
    BY <1>m, <1>n, <1>s, <1>4 DEF Of
  <2>3. CASE i = 1
    <3>1. n \in Of(o)' /\ Concerns(t, o)
      BY <1>m, <1>n, <1>s, <1>8, <2>3
    <3>2. t.at >= at
      BY <1>m, <1>n, <1>s, <1>4, <2>1, <3>1
    <3>3. h.at >= at
      BY <1>m, <1>n, <1>s, <1>x, <1>9, <3>1, <3>2
    <3> QED BY <1>m, <1>n, <1>s, <2>3, <3>3
  <2>4. CASE i # 1
    <3>1. i \in 2..n
      BY <1>m, <1>n, <1>s, <1>4, <2>2, <2>4
    <3>2. i - 1 \in Of(o)' /\ m[i - 1] = line[i]
      BY <1>m, <1>n, <1>s, <1>4, <1>8, <3>1
    <3> QED BY <1>m, <1>n, <1>s, <2>1, <3>2
  <2> QED BY <1>m, <1>n, <1>s, <2>3, <2>4
<1>10. LineTyped'
  <2>1. \A i \in 1..n : Sound(m[i])
    <3> SUFFICES ASSUME NEW i \in 1..n PROVE Sound(m[i])
      OBVIOUS
    <3>1. i = n \/ i \in 1..(n - 1)
      BY <1>m, <1>n, <1>s, <1>4
    <3> QED BY <1>m, <1>n, <1>s, <1>3, <1>4, <1>5, <3>1
  <2>2. \A u : Sound(u) => (Sound(u))'
    BY <1>m, <1>n, <1>s, <1>2 DEF Sound, FirstAt
  <2>3. \A i \in 1..Len(m) : (Sound(m[i]))'
    BY <1>m, <1>n, <1>s, <2>1, <2>2
  <2> QED BY <1>m, <1>n, <1>s, <1>1, <1>2, <1>4, <2>3 DEF LineTyped
<1>11. CountsFresh'
  <2> SUFFICES ASSUME NEW o \in Owners, NEW k \in 1..3, NEW j \in 1..n, Youngest(j, o)',
                      m[j].at \in 8..13
               PROVE  ReadOf(m[j], o)[k] = Right(<<o, Kinds[k]>>)'
    BY <1>m, <1>n, <1>s DEF CountsFresh
  <2>1. j \in Of(o)' /\ \A i \in Of(o)' : i = j \/ m[i].at > m[j].at \/ (m[i].at = m[j].at /\ i < j)
    BY <1>m, <1>n, <1>s DEF Youngest, Senior
  <2>2. CASE j = n
    <3>1. m[j] = t /\ Concerns(t, o) /\ 1 \in Of(o)
      BY <1>m, <1>n, <1>s, <1>4, <1>8, <2>1, <2>2
    <3>2. CASE h.at = 7
      <4>1. h.of \in Tile
        BY <1>m, <1>n, <1>s, <1>3, <1>x, <1>4, <1>5, <3>2 DEF Sound
      <4>2. t.read = CountsFor(h.of) /\ (o = "all" \/ o = HostOf[h.of])
        BY <1>m, <1>n, <1>s, <1>3, <3>1, <3>2 DEF Concerns
      <4> QED BY <1>m, <1>n, <1>s, <3>1, <4>1, <4>2, CountsRight, HostNames, ZenonT(60) DEF ReadOf
    <3>3. CASE h.at # 7
      <4>1. line[1].at \in 8..13 /\ t.read = line[1].read
        <5>1. t.at \in 8..13
          BY <3>1
        <5>2. line[1].at \in 8..13
          BY <1>x, <3>3, <5>1
        <5>3. t.read = line[1].read
          BY <1>3, <1>4, <3>3
        <5> QED BY <5>2, <5>3
      <4>2. ASSUME NEW i \in Of(o), i # 1 PROVE Senior(i, 1)
        <5>1. i \in 2..n /\ line[i].at \in 1..18
          BY <1>s, <1>4, <1>5, <4>2 DEF Of
        <5>2. i - 1 \in Of(o)' /\ m[i - 1] = line[i] /\ i - 1 # n
          BY <1>m, <1>n, <1>s, <1>4, <1>8, <5>1
        <5>3. line[i].at >= t.at
          <6>1. i - 1 \in 1..n /\ i - 1 < n /\ m[n] = t
            BY <1>m, <1>n, <1>s, <1>4, <5>1
          <6>2. m[i - 1].at > t.at \/ m[i - 1].at = t.at
            BY <1>m, <1>n, <1>s, <2>1, <2>2, <5>2, <6>1
          <6> QED BY <1>x, <1>4, <5>1, <5>2, <6>2
        <5>4. line[i].at > line[1].at
          BY <1>x, <1>4, <5>1, <5>3
        <5> QED BY <1>m, <1>n, <1>s, <5>4 DEF Senior
      <4>3. Youngest(1, o)
        BY <1>m, <1>n, <1>s, <3>1, <4>2 DEF Youngest
      <4>4. ReadOf(line[1], o)[k] = Right(<<o, Kinds[k]>>)
        <5>1. 1 \in 1..Len(line)
          BY <1>s, <1>5
        <5> QED BY <1>1, <4>1, <4>3, <5>1, ReadsRight
      <4>5. ReadOf(t, o) = ReadOf(line[1], o)
        BY <1>m, <1>n, <1>s, <4>1 DEF ReadOf
      <4> QED BY <1>m, <1>n, <1>s, <1>6, <3>1, <4>4, <4>5
    <3> QED BY <1>m, <1>n, <1>s, <3>2, <3>3
  <2>3. CASE j # n
    <3>1. j \in 1..(n - 1) /\ j + 1 \in 2..n /\ j + 1 \in 1..n /\ m[j] = line[j + 1]
      BY <1>m, <1>n, <1>s, <1>4, <2>3
    <3>2. j + 1 \in Of(o)
      BY <1>m, <1>n, <1>s, <1>8, <2>1, <3>1
    <3>3. ASSUME NEW i \in Of(o), i # j + 1 PROVE Senior(i, j + 1)
      <4>1. i \in 1..n /\ line[i].at \in 1..18 /\ line[j + 1].at \in 1..18
        BY <1>m, <1>n, <1>s, <1>4, <1>5, <3>1 DEF Of
      <4>2. CASE i = 1
        <5>1. n \in Of(o)'
          BY <1>m, <1>n, <1>s, <1>8, <4>2
        <5>2. t.at > line[j + 1].at
          BY <1>m, <1>n, <1>s, <1>4, <2>1, <2>3, <3>1, <5>1
        <5>3. line[1].at >= line[j + 1].at /\ 1 < j + 1
          BY <1>x, <1>4, <3>1, <4>1, <5>2
        <5>4. line[1].at \in 1..18
          BY <1>m, <1>n, <1>s, <1>5
        <5>5. line[1].at > line[j + 1].at \/ (line[1].at = line[j + 1].at /\ 1 < j + 1)
          BY <4>1, <5>3, <5>4
        <5> QED BY <1>m, <1>n, <1>s, <4>2, <5>5 DEF Senior
      <4>3. CASE i # 1
        <5>1. i \in 2..n
          BY <1>m, <1>n, <1>s, <1>4, <4>1, <4>3
        <5>2. i - 1 \in Of(o)' /\ m[i - 1] = line[i]
          BY <1>m, <1>n, <1>s, <1>4, <1>8, <5>1
        <5>3. i - 1 = j \/ line[i].at > line[j + 1].at \/ (line[i].at = line[j + 1].at /\ i - 1 < j)
          BY <1>m, <1>n, <1>s, <2>1, <3>1, <5>2
        <5>4. i \in Nat /\ j \in Nat /\ (i - 1 = j => i = j + 1) /\ (i - 1 < j => i < j + 1)
          BY <1>m, <1>n, <1>s, <1>4, <4>1
        <5> QED BY <1>m, <1>n, <1>s, <3>3, <5>3, <5>4 DEF Senior
      <4> QED BY <1>m, <1>n, <1>s, <4>2, <4>3
    <3>4. Youngest(j + 1, o)
      BY <1>m, <1>n, <1>s, <3>2, <3>3 DEF Youngest
    <3>5. ReadOf(line[j + 1], o)[k] = Right(<<o, Kinds[k]>>)
      <4>1. j + 1 \in 1..Len(line) /\ line[j + 1].at \in 8..13
        BY <1>s, <3>1
      <4> QED BY <1>1, <3>4, <4>1, ReadsRight
    <3> QED BY <1>m, <1>n, <1>s, <1>6, <3>1, <3>5
  <2> QED BY <1>m, <1>n, <1>s, <2>2, <2>3
<1>12. CountsTold'
  <2> SUFFICES ASSUME NEW o \in Owners, NEW k \in 1..3, Told(o, ValueAt(o, k))',
                      <<o, Kinds[k]>> \in DOMAIN value'
               PROVE  value'[<<o, Kinds[k]>>] = Right(<<o, Kinds[k]>>)'
    BY <1>m, <1>n, <1>s DEF CountsTold, ValueAt
  <2>1. CASE t.at = ValueAt(o, k) /\ Concerns(t, o)
    BY <1>m, <1>n, <1>s, <1>3, <1>4, <1>11, <2>1, SentByYoungest, ZenonT(60)
  <2>2. CASE ~(t.at = ValueAt(o, k) /\ Concerns(t, o))
    <3> PICK at : at = ValueAt(o, k)
      OBVIOUS
    <3>1. at \in Nat /\ Told(o, at)'
      BY <1>m, <1>n, <1>s DEF ValueAt
    <3>2. Told(o, ValueAt(o, k))
      BY <1>m, <1>n, <1>s, <1>9, <2>2, <3>1
    <3>3. <<o, Kinds[k]>> \in DOMAIN value /\ value'[<<o, Kinds[k]>>] = value[<<o, Kinds[k]>>]
      BY <1>m, <1>n, <1>s, <1>3, <2>2, PublishKeeps
    <3>4. value[<<o, Kinds[k]>>] = Right(<<o, Kinds[k]>>)
      BY <1>m, <1>n, <1>s, <1>1, <3>2, <3>3 DEF CountsTold
    <3> QED BY <1>m, <1>n, <1>s, <1>6, <3>3, <3>4
  <2> QED BY <1>m, <1>n, <1>s, <2>1, <2>2
<1>13. WatchTold'
  <2> SUFFICES ASSUME NEW v \in Host PROVE WatchShown(v)'
    BY <1>m, <1>n, <1>s DEF WatchTold
  <2>1. WatchShown(v)
    BY <1>m, <1>n, <1>s, <1>1 DEF WatchTold
  <2>2. ASSUME NEW j \in 1..n, m[j].at = 17, m[j].of = v,
               \A i \in 1..n : m[i].at = 17 /\ m[i].of = v => i <= j
        PROVE  m[j].adds <=> v \in running
    <3>1. j \in 1..(n - 1) /\ j + 1 \in 1..n /\ m[j] = line[j + 1]
      BY <1>m, <1>n, <1>s, <1>3, <1>4, <2>2
    <3>2. ASSUME NEW i \in 1..n, line[i].at = 17, line[i].of = v PROVE i <= j + 1
      <4>1. CASE i = 1
        BY <1>m, <1>n, <1>s, <3>1, <4>1
      <4>2. CASE i # 1
        <5>1. i - 1 \in 1..n /\ m[i - 1] = line[i]
          BY <1>m, <1>n, <1>s, <1>4, <4>2
        <5>2. i - 1 <= j
          BY <1>m, <1>n, <1>s, <2>2, <3>2, <5>1
        <5> QED BY <1>m, <1>n, <1>s, <1>4, <5>2
      <4> QED BY <1>m, <1>n, <1>s, <4>1, <4>2
    <3>3. line[j + 1].adds <=> v \in running
      BY <1>m, <1>n, <1>s, <1>4, <2>1, <2>2, <3>1, <3>2 DEF WatchShown
    <3> QED BY <1>m, <1>n, <1>s, <3>1, <3>3
  <2>3. ASSUME \A i \in 1..n : ~(m[i].at = 17 /\ m[i].of = v), <<v, "running">> \in DOMAIN value'
        PROVE  value'[<<v, "running">>] = IF v \in running THEN 1 ELSE 0
    <3>1. ASSUME NEW i \in 1..n, i # 1 PROVE ~(line[i].at = 17 /\ line[i].of = v)
      <4>1. i - 1 \in 1..n /\ m[i - 1] = line[i]
        BY <1>m, <1>n, <1>s, <1>4, <3>1
      <4> QED BY <1>m, <1>n, <1>s, <2>3, <4>1
    <3>2. CASE t.at = 18 /\ t.of = v
      <4>1. value'[<<v, "running">>] = IF t.adds THEN 1 ELSE 0
        BY <1>m, <1>n, <1>s, <1>3, <2>3, <3>2, PublishTells
      <4>2. line[1].at = 17 /\ line[1].of = v
        BY <1>m, <1>n, <1>s, <1>3, <1>x, <3>2, SMTT(30)
      <4>3. \A i \in 1..n : line[i].at = 17 /\ line[i].of = v => i <= 1
        BY <1>m, <1>n, <1>s, <1>4, <3>1
      <4>4. line[1].adds <=> v \in running
        BY <1>m, <1>n, <1>s, <1>4, <1>5, <2>1, <4>2, <4>3 DEF WatchShown
      <4> QED BY <1>m, <1>n, <1>s, <1>3, <4>1, <4>4
    <3>3. CASE ~(t.at = 18 /\ t.of = v)
      <4>1. <<v, "running">> \in DOMAIN value /\ value'[<<v, "running">>] = value[<<v, "running">>]
        BY <1>m, <1>n, <1>s, <1>3, <2>3, <3>3, PublishKeeps
      <4>2. ~(line[1].at = 17 /\ line[1].of = v)
        BY <1>m, <1>n, <1>s, <1>3, <3>3
      <4>3. \A i \in 1..Len(line) : ~(line[i].at = 17 /\ line[i].of = v)
        BY <1>m, <1>n, <1>s, <1>4, <3>1, <4>2
      <4> QED BY <1>m, <1>n, <1>s, <2>1, <4>1, <4>3 DEF WatchShown
    <3> QED BY <1>m, <1>n, <1>s, <3>2, <3>3
  <2>4. running' = running /\ line' = m /\ Len(m) = n
    BY <1>m, <1>n, <1>s, <1>2
  <2> QED BY <1>m, <1>n, <1>s, <2>2, <2>3, <2>4 DEF WatchShown
<1>14. TilesShown'
  <2>1. ASSUME NEW e \in Tile
        PROVE  (<<"update", e>> \in displayed') <=> (<<"update", e>> \in displayed)
    <3>1. (<<"update", e>> \in displayed') <=>
            IF t.at = 1 /\ t.of = e THEN t.adds ELSE <<"update", e>> \in displayed
      BY <1>m, <1>n, <1>s, <1>3, PublishShows
    <3> QED BY <1>m, <1>n, <1>s, <1>3, <1>x, <3>1, SMTT(30)
  <2> QED BY <1>m, <1>n, <1>s, <1>1, <1>2, <2>1 DEF TilesShown
<1>15. ASSUME NEW v \in Host, NEW k \in 1..3
       PROVE  (<<v, Kinds[k]>> \in displayed') <=>
                \/ t.at = 4 + k /\ HostOf[t.of] = v
                \/ <<v, Kinds[k]>> \in displayed /\ ~(t.at = 13 + k /\ HostOf[t.of] = v)
  BY <1>m, <1>n, <1>s, <1>3, PublishShows
<1>16. CountersShown'
  <2> SUFFICES ASSUME discovery, NEW v \in Host \ crossed', NEW k \in 1..3,
                      Populated(v), Told(v, 4 + k)'
               PROVE  <<v, Kinds[k]>> \in displayed'
    BY <1>m, <1>n, <1>s, <1>2, <1>6 DEF CountersShown
  <2>1. CASE t.at = 4 + k /\ HostOf[t.of] = v
    BY <1>m, <1>n, <1>s, <1>15, <2>1
  <2>2. CASE ~(t.at = 4 + k /\ HostOf[t.of] = v)
    <3>1. ~(t.at = 4 + k /\ Concerns(t, v))
      BY <1>m, <1>n, <1>s, <2>2, HostNames DEF Concerns
    <3>2. Told(v, 4 + k)
      BY <1>m, <1>n, <1>s, <1>9, <3>1, 4 + k \in Nat
    <3>3. v \notin crossed
      BY <1>m, <1>n, <1>s, <1>3, PublishShows
    <3>4. <<v, Kinds[k]>> \in displayed
      BY <1>m, <1>n, <1>s, <1>1, <3>2, <3>3 DEF CountersShown
    <3>5. ~(t.at = 13 + k /\ HostOf[t.of] = v)
      <4> SUFFICES ASSUME t.at = 13 + k, HostOf[t.of] = v PROVE FALSE
        OBVIOUS
      <4>1. PICK e \in Tile : HostOf[e] = v /\ tile'[e] # "absent"
        BY <1>m, <1>n, <1>s, <1>2 DEF Populated
      <4>2. t.at \in 14..16
        OBVIOUS
      <4>3. v \in crossed'
        BY <1>m, <1>n, <1>s, <1>3, <4>1, <4>2, PublishShows
      <4> QED BY <1>m, <1>n, <1>s, <4>3
    <3> QED BY <1>m, <1>n, <1>s, <1>15, <3>4, <3>5
  <2> QED BY <1>m, <1>n, <1>s, <2>1, <2>2
<1>17. CountersHidden'
  <2> SUFFICES ASSUME discovery, NEW v \in Host, NEW k \in 1..3,
                      ~Populated(v), Told(v, 13 + k)'
               PROVE  <<v, Kinds[k]>> \notin displayed'
    BY <1>m, <1>n, <1>s, <1>2, <1>6 DEF CountersHidden
  <2>1. ~(t.at = 4 + k /\ HostOf[t.of] = v)
    <3> SUFFICES ASSUME t.at = 4 + k, HostOf[t.of] = v PROVE FALSE
      OBVIOUS
    <3>1. Concerns(t, v)
      BY <1>m, <1>n, <1>s DEF Concerns
    <3>2. n \in Of(v)'
      BY <1>m, <1>n, <1>s, <1>8, <3>1
    <3>3. m[n].at >= 13 + k
      BY <1>m, <1>n, <1>s, <3>2 DEF Told
    <3> QED BY <1>m, <1>n, <1>s, <1>4, <3>3
  <2>2. CASE t.at = 13 + k /\ HostOf[t.of] = v
    BY <1>m, <1>n, <1>s, <1>15, <2>1, <2>2
  <2>3. CASE ~(t.at = 13 + k /\ HostOf[t.of] = v)
    <3>1. ~(t.at = 13 + k /\ Concerns(t, v))
      BY <1>m, <1>n, <1>s, <2>3, HostNames DEF Concerns
    <3>2. Told(v, 13 + k)
      BY <1>m, <1>n, <1>s, <1>9, <3>1, 13 + k \in Nat
    <3> QED BY <1>m, <1>n, <1>s, <1>1, <1>15, <2>1, <3>2 DEF CountersHidden
  <2> QED BY <1>m, <1>n, <1>s, <2>2, <2>3
<1>k. ValuesKnown'
  BY <1>1, <1>2, <1>3, PublishKnown
<1> QED BY <1>k, <1>m, <1>n, <1>s, <1>10, <1>11, <1>12, <1>13, <1>14, <1>16, <1>17 DEF ISensors

\* Before the first event nothing is displayed, and there is nothing to display.
LEMMA SensorsStart == SensorInit => ISensors
<1> SUFFICES ASSUME SensorInit PROVE ISensors
  OBVIOUS
<1>1. /\ discovery \in BOOLEAN /\ tile = [c \in Tile |-> "absent"] /\ running = {}
      /\ line = <<>> /\ displayed = {} /\ DOMAIN value = {}
  BY DEF SensorInit
<1>2. line \in Seq(Sent) /\ Len(line) = 0
  BY <1>1
<1>3. \A c \in Tile : tile[c] = "absent"
  BY <1>1
<1>4. LineTyped
  BY <1>1, <1>2 DEF LineTyped
<1>5. ValuesKnown /\ CountsFresh /\ CountsTold /\ WatchTold
  BY <1>1, <1>2 DEF ValuesKnown, CountsFresh, CountsTold, WatchTold, WatchShown
<1>6. TilesShown /\ CountersShown /\ CountersHidden
  BY <1>1, <1>3 DEF TilesShown, CountersShown, CountersHidden, Populated
<1> QED BY <1>4, <1>5, <1>6 DEF ISensors

LEMMA SensorsShown == ISensors => SensorsSettle
<1> SUFFICES ASSUME ISensors, line = <<>>
             PROVE  /\ \A t \in DOMAIN value : value[t] = Right(t)
                    /\ discovery => \A c \in Tile : (<<"update", c>> \in displayed) <=> (tile[c] # "absent")
                    /\ discovery => \A w \in Host \ crossed, k \in 1..3 :
                                      (<<w, Kinds[k]>> \in displayed) <=> Populated(w)
  BY DEF SensorsSettle
<1>1. /\ Len(line) = 0 /\ \A o, at : Told(o, at)
      /\ ValuesKnown /\ CountsTold /\ WatchTold /\ TilesShown /\ CountersShown /\ CountersHidden
  BY DEF Told, Of, ISensors
<1>2. ASSUME NEW t \in DOMAIN value PROVE value[t] = Right(t)
  <2>1. CASE \E o \in Owners, k \in 1..3 : t = <<o, Kinds[k]>>
    <3>1. PICK o \in Owners, k \in 1..3 : t = <<o, Kinds[k]>>
      BY <2>1
    <3> QED BY <1>1, <3>1 DEF CountsTold
  <2>2. CASE \E w \in Host : t = <<w, "running">>
    <3>1. PICK w \in Host : t = <<w, "running">>
      BY <2>2
    <3>2. value[t] = IF w \in running THEN 1 ELSE 0
      BY <1>1, <3>1 DEF WatchTold, WatchShown
    <3>3. t[1] = w /\ t[2] = "running"
      BY <3>1
    <3> QED BY <3>2, <3>3 DEF Right
  <2> QED BY <1>1, <2>1, <2>2 DEF ValuesKnown
<1>3. discovery => \A c \in Tile : (<<"update", c>> \in displayed) <=> (tile[c] # "absent")
  BY <1>1 DEF TilesShown
<1>4. discovery => \A w \in Host \ crossed, k \in 1..3 :
                    (<<w, Kinds[k]>> \in displayed) <=> Populated(w)
  BY <1>1 DEF CountersShown, CountersHidden
<1> QED BY <1>2, <1>3, <1>4

LEMMA SensorsStep ==
  ASSUME ISensors, [SensorNext]_sensorVars
  PROVE  ISensors'
<1>1. CASE \E c \in Tile, s \in {"absent", "current", "outdated"} : TileEvent(c, s)
  BY <1>1, TileEventSettles
<1>2. CASE \E w \in Host : WatchEvent(w)
  BY <1>2, WatchEventSettles
<1>3. CASE Acknowledged
  BY <1>3, FinishedSettles, ContinuedSettles
<1>4. CASE UNCHANGED sensorVars
  <2>1. UNCHANGED <<discovery, tile, running, line, displayed, value, crossed>>
    BY <1>4 DEF sensorVars
  <2>2. (LineTyped /\ ValuesKnown)'
    BY <2>1 DEF ISensors, LineTyped, Sound, FirstAt, ValuesKnown
  <2>3. (CountsFresh /\ CountsTold)'
    <3>1. /\ \A j, o : Youngest(j, o)' <=> Youngest(j, o)
          /\ \A o, at : Told(o, at)' <=> Told(o, at)
      BY <2>1 DEF Youngest, Senior, Of, Told
    <3>2. \A topic : Right(topic)' = Right(topic)
      BY <2>1, RightStays
    <3>3. CountsFresh'
      BY <2>1, <3>1, <3>2 DEF ISensors, CountsFresh
    <3>4. CountsTold'
      <4> SUFFICES ASSUME NEW o \in Owners, NEW k \in 1..3, Told(o, ValueAt(o, k))',
                          <<o, Kinds[k]>> \in DOMAIN value
                   PROVE  value[<<o, Kinds[k]>>] = Right(<<o, Kinds[k]>>)
        BY <2>1, <3>2 DEF CountsTold, ValueAt
      <4>1. Told(o, ValueAt(o, k))
        BY <2>1 DEF Told, Of, ValueAt
      <4> QED BY <4>1 DEF ISensors, CountsTold
    <3> QED BY <3>3, <3>4
  <2>4. (WatchTold /\ TilesShown)'
    BY <2>1 DEF ISensors, WatchTold, WatchShown, TilesShown
  <2>5. (CountersShown /\ CountersHidden)'
    BY <2>1 DEF ISensors, CountersShown, CountersHidden, Of, Told, Populated
  <2> QED BY <2>2, <2>3, <2>4, <2>5 DEF ISensors
<1> QED BY <1>1, <1>2, <1>3, <1>4 DEF SensorNext

(***************************************************************************)
(* SensorsRight: for any containers, watchers and number of tasks, once    *)
(* the messages of all events are published Home Assistant shows the       *)
(* store: the counts, the watches and the sensors (Hass.ts), although the  *)
(* tasks of several events take turns on the connection.                   *)
(***************************************************************************)
THEOREM SensorsRight == SensorSpec => []SensorsSettle
<1>1. SensorInit => ISensors
  BY SensorsStart
<1>2. ISensors /\ [SensorNext]_sensorVars => ISensors'
  BY SensorsStep
<1>3. ISensors => SensorsSettle
  BY SensorsShown
<1> QED BY <1>1, <1>2, <1>3, PTL DEF SensorSpec

---------------------------------------------------------------------------------
(***************************************************************************)
(* What is read from the ring of log entries, for any size of the ring.    *)
(***************************************************************************)
\* A position that ran over the end of the ring goes on at its start.
LEMMA Wraps ==
  ASSUME NEW x \in Nat, x < Size + Size
  PROVE  x % Size = IF x < Size THEN x ELSE x - Size
<1>1. Size \in Nat \ {0}
  BY LogAssumption
<1>2. CASE x < Size
  BY <1>1, <1>2, SMTT(60)
<1>3. CASE x >= Size
  BY <1>1, <1>3, SMTT(60)
<1> QED BY <1>1, <1>2, <1>3

\* Where the entry is that was logged d entries before the newest.
SlotAt(d) == IF d < head THEN head - 1 - d ELSE head + Size - 1 - d
ILog ==
  /\ logged \in Seq(Entry) /\ head \in 0..(Size - 1) /\ count \in 0..Size
  /\ DOMAIN ring = 0..(Size - 1)
  /\ \E n \in Nat : /\ n = Len(logged) /\ count = IF n < Size THEN n ELSE Size
                   /\ \A d \in 0..(count - 1) : ring[SlotAt(d)] = logged[n - d]

LEMMA LogStarts == LogInit => ILog
BY LogAssumption DEF LogInit, ILog

LEMMA EntryKept ==
  ASSUME ILog, NEW e \in Entry, AddEntry(e), logged' = Append(logged, e)
  PROVE  ILog'
<1>n. PICK n \in Nat : /\ n = Len(logged) /\ count = IF n < Size THEN n ELSE Size
                      /\ \A d \in 0..(count - 1) : ring[SlotAt(d)] = logged[n - d]
  BY DEF ILog
<1>1. /\ Size \in Nat \ {0} /\ n \in Nat /\ head \in 0..(Size - 1) /\ count \in 0..Size
      /\ count = IF n < Size THEN n ELSE Size
  BY <1>n, LogAssumption DEF ILog
<1>2. /\ logged' \in Seq(Entry) /\ Len(logged') = n + 1 /\ logged'[n + 1] = e
      /\ \A i \in 1..n : logged'[i] = logged[i]
  BY <1>n DEF ILog
<1>3. head' = IF head + 1 < Size THEN head + 1 ELSE 0
  <2> PICK x : x = head + 1
    OBVIOUS
  <2>1. x \in Nat /\ x < Size + Size
    BY <1>1
  <2>2. x % Size = IF x < Size THEN x ELSE x - Size
    BY <2>1, Wraps
  <2> QED BY <1>1, <2>2 DEF AddEntry
<1>4. /\ head' \in 0..(Size - 1) /\ count' \in 0..Size
      /\ count' = IF n + 1 < Size THEN n + 1 ELSE Size
  BY <1>1, <1>3 DEF AddEntry
<1>5. DOMAIN ring' = 0..(Size - 1) /\ \A p \in 0..(Size - 1) : ring'[p] = IF p = head THEN e ELSE ring[p]
  BY <1>1 DEF AddEntry, ILog
<1>6. ASSUME NEW d \in 0..(count' - 1)
      PROVE  ring'[SlotAt(d)'] = logged'[(n + 1) - d]
  <2>1. CASE d = 0
    <3>1. SlotAt(d)' = head
      BY <1>1, <1>3, <2>1 DEF SlotAt
    <3> QED BY <1>1, <1>2, <1>5, <2>1, <3>1
  <2>2. CASE d # 0
    <3> PICK b : b = d - 1
      OBVIOUS
    <3>1. b \in 0..(count - 1) /\ b \in 0..(Size - 2) /\ b \in 0..(n - 1) /\ d = b + 1
      BY <1>1, <1>4, <2>2
    <3>2. SlotAt(d)' = SlotAt(b) /\ SlotAt(b) \in 0..(Size - 1) /\ SlotAt(b) # head
      BY <1>1, <1>3, <3>1 DEF SlotAt
    <3>3. ring[SlotAt(b)] = logged[n - b]
      BY <1>n, <3>1
    <3>4. n - b \in 1..n /\ (n + 1) - d = n - b
      BY <1>1, <3>1
    <3> QED BY <1>2, <1>5, <3>2, <3>3, <3>4
  <2> QED BY <2>1, <2>2
<1>7. \E k \in Nat : /\ k = Len(logged') /\ count' = IF k < Size THEN k ELSE Size
                    /\ \A d \in 0..(count' - 1) : ring'[SlotAt(d)'] = logged'[k - d]
  <2>1. n + 1 \in Nat /\ n + 1 = Len(logged') /\ count' = IF n + 1 < Size THEN n + 1 ELSE Size
    BY <1>2, <1>4
  <2> DEFINE k == n + 1
  <2>2. \A d \in 0..(count' - 1) : ring'[SlotAt(d)'] = logged'[k - d]
    BY <1>6
  <2> HIDE DEF k
  <2> QED BY <2>1, <2>2 DEF k
<1> QED BY <1>2, <1>4, <1>5, <1>7 DEF ILog

LEMMA LogKeeps == ASSUME ILog, [LogNext]_logVars PROVE ILog'
<1>1. CASE LogNext
  <2>1. PICK l \in Level, p \in Part :
          LET e == [level |-> l, component |-> p, time |-> Len(logged) + 1]
          IN  AddEntry(e) /\ logged' = Append(logged, e)
    BY <1>1 DEF LogNext, LogLine
  <2>2. Len(logged) \in Nat /\ MaxLogged \in Nat /\ Len(logged) < MaxLogged
    BY <1>1, LogAssumption DEF LogNext, LogLine, ILog
  <2> DEFINE e == [level |-> l, component |-> p, time |-> Len(logged) + 1]
  <2>3. e \in Entry
    BY <2>2 DEF Entry
  <2> HIDE DEF e
  <2>4. AddEntry(e) /\ logged' = Append(logged, e)
    BY <2>1 DEF e
  <2> QED BY <2>3, <2>4, EntryKept
<1>2. CASE UNCHANGED logVars
  BY <1>2 DEF ILog, logVars, SlotAt
<1> QED BY <1>1, <1>2

LEMMA LastRead == ILog => RingKeepsLast
<1> SUFFICES ASSUME ILog PROVE RingKeepsLast
  OBVIOUS
<1>n. PICK n \in Nat : /\ n = Len(logged) /\ count = IF n < Size THEN n ELSE Size
                      /\ \A d \in 0..(count - 1) : ring[SlotAt(d)] = logged[n - d]
  BY DEF ILog
<1>1. /\ Size \in Nat \ {0} /\ n \in Nat /\ head \in 0..(Size - 1) /\ count \in 0..Size
      /\ count = IF n < Size THEN n ELSE Size
      /\ \A d \in 0..(count - 1) : ring[SlotAt(d)] = logged[n - d]
  BY <1>n, LogAssumption DEF ILog
<1>2. StartAt(head, count) = IF head + Size - count < Size THEN head + Size - count ELSE head - count
  <2> PICK x : x = head + Size - count
    OBVIOUS
  <2>1. x \in Nat /\ x < Size + Size
    BY <1>1
  <2>2. x % Size = IF x < Size THEN x ELSE x - Size
    BY <2>1, Wraps
  <2> QED BY <1>1, <2>2 DEF StartAt
<1>3. ASSUME NEW i \in 1..count
      PROVE  ring[(StartAt(head, count) + i - 1) % Size] = logged[n - count + i]
  <2>x. PICK x : x = StartAt(head, count) + i - 1
    OBVIOUS
  <2>d. PICK d : d = count - i
    OBVIOUS
  <2>1. x \in Nat /\ x < Size + Size /\ d \in 0..(count - 1) /\ n - d = n - count + i
    BY <1>1, <1>2, <2>x, <2>d
  <2>2. x % Size = IF x < Size THEN x ELSE x - Size
    BY <2>1, Wraps
  <2>3. x % Size = SlotAt(d)
    BY <1>1, <1>2, <2>x, <2>d, <2>1, <2>2 DEF SlotAt
  <2> QED BY <1>1, <2>x, <2>1, <2>3
<1>4. Drained = [i \in 1..count |-> logged[n - count + i]]
  BY <1>3 DEF Drained
<1> QED BY <1>n, <1>1, <1>4 DEF RingKeepsLast

(***************************************************************************)
(* LastAreKept: for any size of the ring and any number of entries, what   *)
(* readRingBuffer returns are the last Size entries ever logged, in order, *)
(* however often the ring has wrapped.                                     *)
(***************************************************************************)
THEOREM LastAreKept == LogSpec => []RingKeepsLast
BY LogStarts, LogKeeps, LastRead, PTL DEF LogSpec

\* An entry has the time it was logged at.
InTime == logged \in Seq(Entry) /\ \A i \in 1..Len(logged) : logged[i].time = i

LEMMA InTimeStarts == LogInit => InTime
<1> SUFFICES ASSUME LogInit PROVE InTime
  OBVIOUS
<1>1. logged = <<>>
  BY DEF LogInit
<1>2. logged \in Seq(Entry) /\ Len(logged) = 0
  BY <1>1
<1> QED BY <1>2 DEF InTime

LEMMA InTimeKeeps == ASSUME InTime, [LogNext]_logVars PROVE InTime'
<1>1. CASE LogNext
  <2>1. PICK l \in Level, p \in Part :
          logged' = Append(logged, [level |-> l, component |-> p, time |-> Len(logged) + 1])
    BY <1>1 DEF LogNext, LogLine
  <2>2. PICK n \in Nat : n = Len(logged)
    BY DEF InTime
  <2>3. MaxLogged \in Nat /\ n < MaxLogged
    BY <1>1, <2>2, LogAssumption DEF LogNext, LogLine
  <2> DEFINE e == [level |-> l, component |-> p, time |-> n + 1]
  <2>4. e \in Entry /\ e.time = n + 1
    BY <2>2, <2>3 DEF Entry
  <2>5. logged' = Append(logged, e)
    BY <2>1, <2>2
  <2> HIDE DEF e
  <2>6. /\ logged' \in Seq(Entry) /\ Len(logged') = n + 1 /\ logged'[n + 1] = e
        /\ \A i \in 1..n : logged'[i] = logged[i]
    BY <2>2, <2>4, <2>5 DEF InTime
  <2>7. \A i \in 1..(n + 1) : i = n + 1 \/ i \in 1..n
    OBVIOUS
  <2> QED BY <2>2, <2>4, <2>6, <2>7 DEF InTime
<1>2. CASE UNCHANGED logVars
  BY <1>2 DEF InTime, logVars
<1> QED BY <1>1, <1>2

\* The taken that a filter keeps.
Ascends(S) == {p \in S \X S : p[1] < p[2]}

LEMMA NumbersAscend ==
  ASSUME NEW S, S \subseteq Nat
  PROVE  Orderly(S, Ascends(S)) /\ \A i, j \in S : <<i, j>> \in Ascends(S) <=> i < j
<1>1. \A i, j \in S : <<i, j>> \in Ascends(S) <=> i < j
  BY DEF Ascends
<1>2. \A i, j \in S : i \in Nat /\ j \in Nat
  OBVIOUS
<1>3. \A d, e \in S : d # e => <<d, e>> \in Ascends(S) \/ <<e, d>> \in Ascends(S)
  BY <1>1, <1>2
<1>4. \A d, e, f \in S : <<d, e>> \in Ascends(S) /\ <<e, f>> \in Ascends(S) => <<d, f>> \in Ascends(S)
  BY <1>1, <1>2
<1>5. \A d \in S : <<d, d>> \notin Ascends(S)
  BY <1>1, <1>2
<1> QED BY <1>1, <1>3, <1>4, <1>5 DEF Orderly

\* Numbers moved by the same distance are as many.
LEMMA MovedAreAsMany ==
  ASSUME NEW P, P \subseteq Nat, IsFiniteSet(P), NEW by \in Nat
  PROVE  Cardinality({by + i : i \in P}) = Cardinality(P)
<1> DEFINE f == [i \in P |-> by + i]
           Q == {by + i : i \in P}
<1>1. f \in Surjection(P, Q)
  BY DEF Surjection
<1>2. \A i, j \in P : by + i = by + j => i = j
  OBVIOUS
<1>3. f \in Injection(P, Q)
  BY <1>2 DEF Injection, IsInjective
<1> HIDE DEF f, Q
<1>4. f \in Bijection(P, Q)
  BY <1>1, <1>3 DEF Bijection
<1> QED BY <1>4, FS_Bijection DEF ExistsBijection, Q

LEMMA FilteredAreLatest ==
  ASSUME ILog, InTime, NEW min, NEW part, NEW since, NEW tail \in Nat
  PROVE  LET kept == {i \in 1..Len(logged) : i > Len(logged) - Size /\ Passes(logged[i], min, part, since)}
             output == Entries(min, part, since, tail)
         IN  /\ ToSet(output) = {logged[i] : i \in {i \in kept : Cardinality({j \in kept : j > i}) < tail}}
             /\ \A i \in 1..(Len(output) - 1) : output[i].time < output[i + 1].time
<1>1. PICK L \in Nat : L = Len(logged) /\ count = IF L < Size THEN L ELSE Size
  BY DEF ILog
<1>2. Size \in Nat \ {0} /\ count \in Nat
  BY <1>1, LogAssumption
<1>3. PICK D \in Nat : L = D + count
  <2>1. L - count \in Nat /\ L = (L - count) + count
    BY <1>1, <1>2
  <2> QED BY <2>1, Zenon
<1>4. logged \in Seq(Entry) /\ \A i \in 1..L : logged[i] \in Entry /\ logged[i].time = i
  BY <1>1 DEF InTime
<1>5. \A i \in 1..count : D + i \in 1..L /\ D + i > L - Size
  BY <1>1, <1>2, <1>3
<1>6. Drained = [i \in 1..count |-> logged[D + i]]
  <2>1. Drained = [i \in 1..count |-> logged[Len(logged) - count + i]]
    BY <1>1, LastRead DEF RingKeepsLast
  <2>2. L - count = D
    BY <1>2, <1>3
  <2> QED BY <1>1, <2>1, <2>2
<1> DEFINE P == {i \in 1..count : Passes(Drained[i], min, part, since)}
           kept == {i \in 1..L : i > L - Size /\ Passes(logged[i], min, part, since)}
           taken == InOrder(P, Ascends(P))
           K == Cardinality(P)
           all == [n \in 1..K |-> Drained[taken[n]]]
           output == Tailed(all, tail)
<1>7. Entries(min, part, since, tail) = output
  BY DEF Entries, Ascends
<1>8. P \subseteq 1..count /\ P \subseteq Nat /\ IsFiniteSet(P)
  <2>1. IsFiniteSet(1..count) /\ P \in SUBSET (1..count)
    BY <1>2, FS_Interval
  <2>2. 1..count \subseteq Nat
    OBVIOUS
  <2> HIDE DEF P
  <2> QED BY <2>1, <2>2, FS_Subset
<1>9. kept = {D + i : i \in P}
  <2>1. \A i \in P : D + i \in kept
    BY <1>5, <1>6
  <2>2. ASSUME NEW k \in kept PROVE \E i \in P : k = D + i
    <3>1. k \in 1..L /\ k > L - Size /\ Passes(logged[k], min, part, since)
      OBVIOUS
    <3>2. k - D \in 1..count /\ k = D + (k - D)
      BY <1>1, <1>2, <1>3, <3>1
    <3>3. Drained[k - D] = logged[k]
      BY <1>6, <3>2
    <3> QED BY <3>1, <3>2, <3>3
  <2> QED BY <2>1, <2>2
<1>10. /\ K \in Nat /\ taken \in [1..K -> P]
       /\ \A n \in 1..K : PlaceOf(P, Ascends(P), taken[n]) = n
       /\ \A i \in P : /\ PlaceOf(P, Ascends(P), i) \in 1..K
                       /\ taken[PlaceOf(P, Ascends(P), i)] = i
       /\ \A m, n \in 1..K : m < n => taken[m] < taken[n]
  <2>1. Orderly(P, Ascends(P)) /\ \A i, j \in P : <<i, j>> \in Ascends(P) <=> i < j
    BY <1>8, NumbersAscend
  <2> HIDE DEF P
  <2>2. /\ K \in Nat /\ taken \in [1..K -> P]
        /\ \A n \in 1..K : PlaceOf(P, Ascends(P), taken[n]) = n
        /\ \A i \in P : /\ PlaceOf(P, Ascends(P), i) \in 1..K
                        /\ taken[PlaceOf(P, Ascends(P), i)] = i
        /\ \A m, n \in 1..K : m < n => <<taken[m], taken[n]>> \in Ascends(P)
    BY <1>8, <2>1, InOrderLists
  <2> HIDE DEF taken, K
  <2> QED BY <2>1, <2>2
<1>11. ASSUME NEW i \in P
       PROVE /\ Cardinality({j \in kept : j > D + i}) \in Nat
             /\ K = PlaceOf(P, Ascends(P), i) + Cardinality({j \in kept : j > D + i})
  <2> DEFINE A == {j \in P : i < j}
  <2>1. Orderly(P, Ascends(P)) /\ \A d \in P : <<i, d>> \in Ascends(P) <=> i < d
    BY <1>8, NumbersAscend
  <2>2. {d \in P : <<i, d>> \in Ascends(P)} = A
    BY <2>1
  <2>3. Cardinality(A) \in Nat /\ K = PlaceOf(P, Ascends(P), i) + Cardinality(A)
    <3> HIDE DEF P, A
    <3> QED BY <1>8, <2>1, <2>2, AfterPlace
  <2>4. A \subseteq Nat /\ IsFiniteSet(A)
    <3>1. A \in SUBSET P
      OBVIOUS
    <3> HIDE DEF P, A
    <3> QED BY <1>8, <3>1, FS_Subset
  <2>5. {j \in kept : j > D + i} = {D + j : j \in A}
    <3>1. \A j \in P : D + j > D + i <=> i < j
      BY <1>8
    <3> HIDE DEF P, kept
    <3> QED BY <1>9, <3>1
  <2>6. Cardinality({D + j : j \in A}) = Cardinality(A)
    <3> HIDE DEF A
    <3> QED BY <2>4, MovedAreAsMany
  <2> QED BY <2>3, <2>5, <2>6
<1> HIDE DEF P, taken, K
<1>12. \A n \in 1..K : all[n] \in Entry /\ all[n] = logged[D + taken[n]] /\ all[n].time = D + taken[n]
  BY <1>4, <1>5, <1>6, <1>8, <1>10
<1>13. all \in Seq(Entry) /\ Len(all) = K
  <2>1. all \in [1..K -> Entry]
    BY <1>12
  <2> HIDE DEF all
  <2> QED BY <1>10, <2>1
<1>13a. K \in Nat
  BY <1>10
<1>13b. (IF K > tail THEN K - tail + 1 ELSE 1) \in Nat
  BY <1>13a
<1>14. PICK a \in Nat : a = IF K > tail THEN K - tail + 1 ELSE 1
  BY <1>13b, Zenon
<1>15. output = SubSeq(all, a, K)
  BY <1>13, <1>14 DEF Tailed
<1>16. PICK M \in Nat : /\ M = IF K > tail THEN tail ELSE K
                        /\ Len(output) = M /\ output \in Seq(Entry)
                        /\ \A i \in 1..M : output[i] = all[a + i - 1]
  <2> HIDE DEF all
  <2>1. /\ SubSeq(all, a, K) \in Seq(Entry)
        /\ Len(SubSeq(all, a, K)) = IF a <= K THEN K - a + 1 ELSE 0
        /\ \A i \in 1..(K - a + 1) : SubSeq(all, a, K)[i] = all[a + i - 1]
    <3>1. a \in Int /\ K \in Int /\ \A i \in a..K : all[i] \in Entry
      BY <1>10, <1>12, <1>14 DEF all
    <3> QED BY <3>1, SubSeqProperties
  <2>2. PICK M \in Nat : M = IF K > tail THEN tail ELSE K
    BY <1>10
  <2>3. K - a + 1 = M /\ (IF a <= K THEN K - a + 1 ELSE 0) = M
    BY <1>10, <1>14, <2>2
  <2> HIDE DEF output
  <2> QED BY <1>15, <2>1, <2>2, <2>3
<1>17. \A i \in 1..M : a + i - 1 \in 1..K /\ a + i - 1 \in a..K
  BY <1>10, <1>14, <1>16
<1>18. \A k \in a..K : k - a + 1 \in 1..M /\ a + (k - a + 1) - 1 = k /\ k \in 1..K
  BY <1>10, <1>14, <1>16
<1>19. ToSet(output) = {all[k] : k \in a..K}
  <2>1. DOMAIN output = 1..M
    <3> HIDE DEF output
    <3> QED BY <1>16
  <2>2. ToSet(output) = {output[i] : i \in 1..M}
    <3> HIDE DEF output
    <3> QED BY <2>1 DEF ToSet
  <2> HIDE DEF output, all
  <2>3. \A i \in 1..M : output[i] \in {all[k] : k \in a..K}
    BY <1>16, <1>17
  <2>4. \A k \in a..K : all[k] \in {output[i] : i \in 1..M}
    BY <1>16, <1>18, ZenonT(60)
  <2> QED BY <2>2, <2>3, <2>4
<1>20. ASSUME NEW i \in P
       PROVE Cardinality({j \in kept : j > D + i}) < tail <=> PlaceOf(P, Ascends(P), i) \in a..K
  <2>1. PICK c \in Nat : c = Cardinality({j \in kept : j > D + i})
    BY <1>11
  <2>2. PICK p \in Nat : p = PlaceOf(P, Ascends(P), i) /\ p \in 1..K /\ K = p + c
    BY <1>10, <1>11, <2>1
  <2>3. c < tail <=> p \in a..K
    BY <1>10, <1>14, <2>2, SMTT(30)
  <2> QED BY <2>1, <2>2, <2>3
<1>21. {logged[k] : k \in {q \in kept : Cardinality({j \in kept : j > q}) < tail}} = {all[k] : k \in a..K}
  <2> DEFINE ends == {q \in kept : Cardinality({j \in kept : j > q}) < tail}
  <2>1. ASSUME NEW q \in ends PROVE logged[q] \in {all[k] : k \in a..K}
    <3>1. PICK i \in P : q = D + i
      BY <1>9
    <3>2. PICK k \in a..K : k = PlaceOf(P, Ascends(P), i)
      BY <1>20, <3>1
    <3>3. taken[k] = i /\ k \in 1..K
      BY <1>10, <3>2
    <3> QED BY <1>12, <3>1, <3>2, <3>3
  <2>2. ASSUME NEW k \in a..K PROVE \E q \in ends : all[k] = logged[q]
    <3>1. k \in 1..K
      BY <1>18
    <3>2. taken[k] \in P /\ PlaceOf(P, Ascends(P), taken[k]) = k
      BY <1>10, <3>1
    <3>3. D + taken[k] \in kept
      BY <1>9, <3>2
    <3>4. D + taken[k] \in ends
      BY <1>20, <3>2, <3>3
    <3> QED BY <1>12, <3>1, <3>4
  <2> QED BY <2>1, <2>2, ZenonT(60)
<1>22. ASSUME NEW i \in 1..(M - 1) PROVE output[i].time < output[i + 1].time
  <2>1. i \in 1..M /\ i + 1 \in 1..M
    OBVIOUS
  <2>2. PICK m \in 1..K : m = a + i - 1
    BY <1>17, <2>1
  <2>3. PICK n \in 1..K : n = a + (i + 1) - 1
    BY <1>17, <2>1
  <2>4. m < n
    BY <1>14, <2>2, <2>3
  <2>5. taken[m] < taken[n] /\ taken[m] \in Nat /\ taken[n] \in Nat
    BY <1>8, <1>10, <2>4
  <2>6. output[i] = all[m] /\ output[i + 1] = all[n]
    BY <1>16, <2>1, <2>2, <2>3
  <2>7. all[m].time = D + taken[m] /\ all[n].time = D + taken[n]
    BY <1>12
  <2>8. D + taken[m] < D + taken[n]
    BY <2>5
  <2> HIDE DEF all, output
  <2> QED BY <2>6, <2>7, <2>8
<1> HIDE DEF output, kept, all
<1> QED BY <1>1, <1>7, <1>16, <1>19, <1>21, <1>22, ZenonT(60) DEF kept

\* BufferKeepsLatest: for any size of the ring, however often it has wrapped,
\* and any filters, an output is the last `tail` entries among the last Size
\* ever logged that pass, oldest first.
THEOREM LatestAreAnswered == LogSpec => []BufferKeepsLatest
<1>1. LogInit => ILog /\ InTime
  BY LogStarts, InTimeStarts
<1>2. ILog /\ InTime /\ [LogNext]_logVars => ILog' /\ InTime'
  BY LogKeeps, InTimeKeeps
<1>3. ILog /\ InTime => BufferKeepsLatest
  <2> SUFFICES ASSUME ILog, InTime PROVE BufferKeepsLatest
    OBVIOUS
  <2>1. \A tail \in 0..(Size + 1) : tail \in Nat
    BY LogAssumption
  <2>2. RingKeepsLast
    BY LastRead
  <2> QED BY <2>1, <2>2, FilteredAreLatest, ZenonT(60) DEF BufferKeepsLatest
<1> QED BY <1>1, <1>2, <1>3, PTL DEF LogSpec

---------------------------------------------------------------------------------
(***************************************************************************)
(* A lookup answers what the repository held. While the tags are listed,   *)
(* those that were there all along are on the pages read so far or after   *)
(* the cursor; what the asked tag names is among its releases.             *)
(***************************************************************************)
Ascending(s) == \A i, j \in DOMAIN s : i < j => s[i] < s[j]

IsRelease(t, r) == r.tag = t /\ r.entries \in Shapes /\ r.push \in 0 .. MaxChanges

ITags ==
  /\ found \in Seq(Tags) /\ Ascending(found)
  /\ lookupStage = "idle" => found = <<>>
  /\ lookupStage = "tags" =>
       /\ always \subseteq Held /\ Held \subseteq ever /\ Range(found) \subseteq ever
       /\ \A t \in always : t \in Range(found) \/ t > Cursor(found)
  /\ lookupStage \in {"listed", "manifest", "head", "done"} =>
       always \subseteq Range(found) /\ Range(found) \subseteq ever

IRepository ==
  /\ changes \in 1 .. MaxChanges + 1
  /\ DOMAIN content = Tags
  /\ \A t \in Held : IsRelease(t, content[t])

IManifest ==
  /\ lookupStage \in {"manifest", "head", "done"} => asked \in Tags
  /\ lookupStage \in {"manifest", "head"} => (content[asked] # NoTag => content[asked] \in releases)
  /\ lookupStage = "head" =>
       IF entry = NoTag THEN MediaOf[asked] # "list" ELSE \E r \in releases : entry \in Offers(r)
  /\ lookupStage = "done" => \E r \in releases : digest \in Offers(r)

ILookup == ITags /\ IRepository /\ IManifest

\* The tags of a listing are numbers.
LEMMA ListsTags ==
  ASSUME NEW s \in Seq(Tags)
  PROVE  /\ Len(s) \in Nat /\ DOMAIN s = 1..Len(s) /\ (s = <<>> <=> Len(s) = 0)
         /\ \A i \in 1..Len(s) : s[i] \in Tags /\ s[i] \in Nat
<1>1. Len(s) \in Nat /\ s \in [1..Len(s) -> Tags] /\ DOMAIN s = 1..Len(s)
  BY LenProperties
<1>2. s = <<>> <=> Len(s) = 0
  BY EmptySeq
<1>3. Tags \subseteq Nat
  BY LookupAssumption
<1> QED BY <1>1, <1>2, <1>3

\* An ascending listing has no tag twice.
LEMMA NoTagTwice ==
  ASSUME NEW s \in Seq(Tags), Ascending(s)
  PROVE  Cardinality(Range(s)) = Len(s)
<1>1. Len(s) \in Nat /\ s \in [1..Len(s) -> Tags] /\ DOMAIN s = 1..Len(s)
  BY LenProperties
<1>2. \A i \in 1..Len(s) : s[i] \in Nat
  BY ListsTags
<1>3. \A i, j \in 1..Len(s) : s[i] = s[j] => i = j
  <2> SUFFICES ASSUME NEW i \in 1..Len(s), NEW j \in 1..Len(s), i # j PROVE s[i] # s[j]
    OBVIOUS
  <2>1. CASE i < j  BY <1>1, <1>2, <2>1 DEF Ascending
  <2>2. CASE j < i  BY <1>1, <1>2, <2>2 DEF Ascending
  <2> QED BY <1>1, <2>1, <2>2
<1>4. s \in Bijection(1..Len(s), Range(s))
  BY <1>1, <1>3 DEF Bijection, Injection, Surjection, IsInjective, Range
<1>5. ExistsBijection(1..Len(s), Range(s))
  BY <1>4 DEF ExistsBijection
<1> HIDE DEF Range
<1> QED BY <1>1, <1>5, FS_CountingElements, Zenon

\* The cursor is after every tag of an ascending listing.
LEMMA CursorIsLast ==
  ASSUME NEW s \in Seq(Tags), Ascending(s)
  PROVE  /\ Cursor(s) \in Nat
         /\ \A i \in DOMAIN s : s[i] <= Cursor(s)
<1>1. Len(s) \in Nat /\ DOMAIN s = 1..Len(s) /\ (s = <<>> <=> Len(s) = 0)
  BY ListsTags
<1>2. \A i \in DOMAIN s : s[i] \in Nat
  BY ListsTags
<1>3. CASE s = <<>>
  BY <1>1, <1>3 DEF Cursor
<1>4. CASE s # <<>>
  <2>1. Len(s) \in DOMAIN s /\ Cursor(s) = s[Len(s)]
    BY <1>1, <1>4 DEF Cursor, Last
  <2>2. ASSUME NEW i \in DOMAIN s PROVE s[i] <= Cursor(s)
    <3>1. i = Len(s) \/ i < Len(s)
      BY <1>1
    <3> QED BY <1>2, <2>1, <3>1 DEF Ascending
  <2> QED BY <1>2, <2>1, <2>2
<1> QED BY <1>3, <1>4

\* A listing stays ascending with a page from after its cursor.
LEMMA PageAscends ==
  ASSUME NEW s \in Seq(Tags), Ascending(s), NEW page \in Seq(Tags), Ascending(page),
         \A i \in DOMAIN page : page[i] > Cursor(s)
  PROVE  /\ s \o page \in Seq(Tags) /\ Ascending(s \o page)
         /\ Range(s \o page) = Range(s) \cup Range(page)
         /\ page = <<>> => Cursor(s \o page) = Cursor(s)
         /\ page # <<>> => Cursor(s \o page) = page[Len(page)]
<1> DEFINE m == Len(s)  n == Len(page)  q == s \o page
<1>1. /\ m \in Nat /\ DOMAIN s = 1..m /\ (s = <<>> <=> m = 0)
      /\ n \in Nat /\ DOMAIN page = 1..n /\ (page = <<>> <=> n = 0)
  BY ListsTags
<1>2. /\ q \in Seq(Tags) /\ Len(q) = m + n
      /\ \A i \in 1..(m + n) : q[i] = IF i <= m THEN s[i] ELSE page[i - m]
  BY ConcatProperties
<1>3. DOMAIN q = 1..(m + n) /\ (q = <<>> <=> m + n = 0)
  BY <1>2, ListsTags
<1>4. /\ \A i \in 1..m : s[i] \in Nat
      /\ \A i \in 1..n : page[i] \in Nat
  BY ListsTags
<1>5. Cursor(s) \in Nat /\ \A i \in 1..m : s[i] <= Cursor(s)
  BY <1>1, CursorIsLast
<1> HIDE DEF m, n, q
<1>6. ASSUME NEW i \in 1..(m + n), NEW j \in 1..(m + n), i < j PROVE q[i] < q[j]
  <2>1. CASE j <= m
    <3>1. i \in 1..m /\ j \in 1..m /\ q[i] = s[i] /\ q[j] = s[j]
      BY <1>1, <1>2, <1>6, <2>1
    <3> QED BY <1>1, <1>6, <3>1 DEF Ascending
  <2>2. CASE i <= m /\ ~(j <= m)
    <3>1. i \in 1..m /\ j - m \in 1..n /\ q[i] = s[i] /\ q[j] = page[j - m]
      BY <1>1, <1>2, <2>2
    <3>2. s[i] <= Cursor(s) /\ page[j - m] > Cursor(s)
      BY <1>1, <1>5, <3>1
    <3> QED BY <1>4, <1>5, <3>1, <3>2
  <2>3. CASE ~(i <= m)
    <3>1. i - m \in 1..n /\ j - m \in 1..n /\ i - m < j - m /\ q[i] = page[i - m] /\ q[j] = page[j - m]
      BY <1>1, <1>2, <1>6, <2>3
    <3> QED BY <1>1, <3>1 DEF Ascending
  <2> QED BY <2>1, <2>2, <2>3
<1>7. Ascending(q)
  BY <1>3, <1>6 DEF Ascending
<1>8. Range(q) = Range(s) \cup Range(page)
  <2>1. \A i \in 1..m : i \in 1..(m + n) /\ q[i] = s[i]
    BY <1>1, <1>2
  <2>2. \A i \in 1..n : i + m \in 1..(m + n) /\ q[i + m] = page[i]
    BY <1>1, <1>2
  <2>3. \A i \in 1..(m + n) : (i \in 1..m /\ q[i] = s[i]) \/ (i - m \in 1..n /\ q[i] = page[i - m])
    BY <1>1, <1>2
  <2>4. Range(q) \subseteq Range(s) \cup Range(page)
    BY <1>1, <1>3, <2>3, Zenon DEF Range
  <2>5. Range(s) \subseteq Range(q)
    BY <1>1, <1>3, <2>1, Zenon DEF Range
  <2>6. Range(page) \subseteq Range(q)
    BY <1>1, <1>3, <2>2, Zenon DEF Range
  <2> QED BY <2>4, <2>5, <2>6
<1>9. ASSUME page = <<>> PROVE Cursor(q) = Cursor(s)
  <2>1. n = 0 /\ Len(q) = m
    BY <1>1, <1>2, <1>9
  <2>2. m # 0 => q[m] = s[m]
    BY <1>1, <1>2, <2>1
  <2> QED BY <1>1, <1>3, <2>1, <2>2 DEF Cursor, Last, m
<1>10. ASSUME page # <<>> PROVE Cursor(q) = page[n]
  <2>k. PICK k : k = m + n
    OBVIOUS
  <2>1. k \in 1..(m + n) /\ ~(k <= m) /\ k - m = n
    BY <1>1, <1>10, <2>k
  <2>2. q[m + n] = page[n]
    BY <1>2, <2>k, <2>1
  <2>3. q # <<>>
    BY <1>1, <1>3, <1>10
  <2> QED BY <1>2, <2>2, <2>3, Zenon DEF Cursor, Last
<1> QED BY <1>2, <1>7, <1>8, <1>9, <1>10 DEF q, n

\* The entry filterManifestByPlatform picks is one the release offers the host.
LEMMA BestIsOffered ==
  ASSUME NEW r, r.entries \in Shapes, r.push \in 0 .. MaxChanges,
         MediaOf[r.tag] = "list", OfArch(r.entries) # {}
  PROVE  /\ EntryDigest(r, BestEntry(r.entries)) \in Offers(r)
         /\ EntryDigest(r, BestEntry(r.entries)) # NoTag
<1> DEFINE s == r.entries
           picked == IF Refined(s) THEN OfVariant(s) ELSE OfArch(s)
           fits == {e \in Range(s) : e.arch = host.arch}
           exact == {e \in fits : host.variant # NoVariant /\ e.variant = host.variant}
           first == {e \in fits : \A f \in fits : e.id <= f.id}
<1>1. /\ Len(s) \in Nat /\ DOMAIN s = 1..Len(s)
      /\ \A i, j \in DOMAIN s : s[i].id \in Nat /\ (i < j => s[i].id < s[j].id)
      /\ \A i \in DOMAIN s : <<r.push, s[i].id>> # NoTag
  <2>1. s \in Seq(Range(s))
    BY LookupAssumption, Zenon
  <2>2. Len(s) \in Nat /\ DOMAIN s = 1..Len(s)
    BY <2>1, LenProperties, Zenon
  <2> QED BY <2>2, LookupAssumption, Zenon
<1>2. picked # {} /\ picked \subseteq OfArch(s) /\ OfArch(s) \subseteq DOMAIN s
  BY DEF Refined, OfVariant, OfArch
<1>3. picked \subseteq Nat
  BY <1>1, <1>2
<1>4. \E i \in picked : \A j \in picked : i <= j
  BY <1>2, <1>3, LeastOf
<1>5. PICK i \in picked : /\ \A j \in picked : i <= j
                          /\ BestEntry(s) = s[i]
  <2> DEFINE i == CHOOSE i \in picked : \A j \in picked : i <= j
  <2>1. i \in picked /\ \A j \in picked : i <= j
    BY <1>4, Zenon
  <2>2. BestEntry(s) = s[i]
    BY DEF BestEntry
  <2> QED BY <2>1, <2>2, Zenon
<1>6. Offers(r) = {EntryDigest(r, e) : e \in IF exact # {} THEN exact ELSE first}
  BY DEF Offers
<1> HIDE DEF picked, s
<1>7. i \in OfArch(s) /\ i \in DOMAIN s /\ s[i] \in fits
  <2>1. i \in OfArch(s) /\ i \in DOMAIN s
    BY <1>2, <1>5
  <2> QED BY <2>1, Zenon DEF OfArch, Range
<1>8. CASE Refined(s)
  <2>1. s[i] \in exact
    BY <1>5, <1>7, <1>8 DEF Refined, OfVariant, picked
  <2> QED BY <1>1, <1>5, <1>6, <1>7, <2>1 DEF EntryDigest, s
<1>9. CASE ~Refined(s)
  <2>1. ASSUME NEW e \in exact PROVE s[i] \in exact
    <3>1. PICK k \in DOMAIN s : e = s[k]
      BY DEF Range
    <3>2. k \in OfVariant(s) /\ k \in OfArch(s) /\ host.variant # NoVariant
      BY <3>1 DEF OfVariant, OfArch
    <3>3. ~(Cardinality(OfArch(s)) > 1)
      BY <1>9, <3>2 DEF Refined
    <3>4. IsFiniteSet(OfArch(s))
      <4>1. IsFiniteSet(1..Len(s))
        BY <1>1, FS_Interval
      <4> QED BY <1>1, <1>2, <4>1, FS_Subset, Zenon
    <3>5. Cardinality(OfArch(s)) \in Nat /\ Cardinality(OfArch(s)) # 0
      BY <1>7, <3>4, FS_CardinalityType, FS_EmptySet
    <3>6. \E x : OfArch(s) = {x}
      <4>1. Cardinality(OfArch(s)) = 1
        BY <3>3, <3>5
      <4> QED BY <3>4, <4>1, FS_Singleton, Zenon
    <3>7. k = i
      BY <1>7, <3>2, <3>6
    <3> QED BY <3>1, <3>7
  <2>2. s[i] \in first
    <3> SUFFICES ASSUME NEW f \in fits PROVE s[i].id <= f.id
      BY <1>7
    <3>1. PICK k \in DOMAIN s : f = s[k]
      BY DEF Range
    <3>2. k \in picked
      BY <1>9, <3>1 DEF picked, OfArch
    <3>3. i \in Nat /\ k \in Nat /\ i <= k
      BY <1>3, <1>5, <3>2
    <3>4. i = k \/ i < k
      BY <3>3
    <3>5. s[i].id \in Nat /\ s[k].id \in Nat /\ (i < k => s[i].id < s[k].id)
      BY <1>1, <1>7, <3>1, Zenon
    <3> QED BY <3>1, <3>4, <3>5
  <2>3. s[i] \in IF exact # {} THEN exact ELSE first
    BY <2>1, <2>2
  <2> HIDE DEF exact, first
  <2> QED BY <1>1, <1>5, <1>6, <1>7, <2>3 DEF EntryDigest, s
<1> QED BY <1>8, <1>9

LEMMA LookupStarts == RegistryInit => ILookup
<1> SUFFICES ASSUME RegistryInit PROVE ILookup
  OBVIOUS
<1>1. ITags
  <2>1. found = <<>> /\ found \in Seq(Tags) /\ DOMAIN found = {} /\ lookupStage = "idle"
    BY EmptySeq DEF RegistryInit
  <2> QED BY <2>1 DEF ITags, Ascending
<1>2. IRepository
  <2>1. changes \in 1 .. MaxChanges + 1
    BY LookupAssumption DEF RegistryInit
  <2>2. PICK held \in SUBSET Tags, shape \in Shapes :
          content = [t \in Tags |-> IF t \in held THEN [push |-> 0, tag |-> t, entries |-> shape] ELSE NoTag]
    BY DEF RegistryInit
  <2>3. \A t \in Held : content[t] = [push |-> 0, tag |-> t, entries |-> shape]
    BY <2>2 DEF Held
  <2>4. 0 \in 0 .. MaxChanges
    BY LookupAssumption
  <2>5. DOMAIN content = Tags
    BY <2>2
  <2>6. \A t \in Held : IsRelease(t, content[t])
    <3> SUFFICES ASSUME NEW t \in Held PROVE IsRelease(t, content[t])
      OBVIOUS
    <3> DEFINE x == [push |-> 0, tag |-> t, entries |-> shape]
    <3>1. content[t] = x
      BY <2>3
    <3>2. x.tag = t /\ x.entries = shape /\ x.push = 0
      OBVIOUS
    <3> QED BY <2>4, <3>1, <3>2 DEF IsRelease
  <2> QED BY <2>1, <2>5, <2>6 DEF IRepository
<1>3. IManifest
  BY DEF RegistryInit, IManifest
<1> QED BY <1>1, <1>2, <1>3 DEF ILookup

\* Whatever is pushed or deleted, a tag there all along stays where the listing
\* finds it, and the new release of the asked tag joins its releases.
LEMMA ContentKeeps ==
  ASSUME ILookup, ContentChanges, changes <= MaxChanges, DOMAIN content' = Tags,
         \A t \in Held' : IsRelease(t, content'[t])
  PROVE  ILookup'
<1>1. /\ UNCHANGED <<host, lookupStage, found, asked, entry, digest>>
      /\ changes' = changes + 1
      /\ always' = always \cap Held'
      /\ ever' = IF lookupStage = "tags" THEN ever \cup Held' ELSE ever
      /\ releases' = IF asked # NoTag /\ content'[asked] # NoTag
                     THEN releases \cup {content'[asked]} ELSE releases
  BY DEF ContentChanges, imageVars, Held
<1>2. ITags'
  BY <1>1 DEF ILookup, ITags, Ascending, Cursor
<1>3. IRepository'
  <2>1. changes' \in 1 .. MaxChanges + 1
    BY <1>1, LookupAssumption DEF ILookup, IRepository
  <2> QED BY <2>1 DEF IRepository
<1>4. \A r : Offers(r)' = Offers(r)
  BY <1>1 DEF Offers
<1>5. IManifest'
  <2>1. releases \subseteq releases'
    BY <1>1
  <2>2. lookupStage \in {"manifest", "head", "done"} => asked \in Tags /\ asked # NoTag
    BY LookupAssumption DEF ILookup, IManifest
  <2> QED BY <1>1, <1>4, <2>1, <2>2 DEF ILookup, IManifest
<1> QED BY <1>2, <1>3, <1>5 DEF ILookup

LEMMA PushKeeps ==
  ASSUME ILookup, NEW t \in Tags, NEW shape \in Shapes, PushTag(t, shape)
  PROVE  ILookup'
<1>1. /\ changes <= MaxChanges /\ ContentChanges
      /\ content' = [content EXCEPT ![t] = Release(t, shape)]
  BY DEF PushTag
<1>2. DOMAIN content = Tags /\ changes \in 1 .. MaxChanges + 1
  BY DEF ILookup, IRepository
<1>3. ASSUME NEW u \in Held' PROVE IsRelease(u, content'[u])
  <2>1. CASE u = t
    <3>1. content'[t] = Release(t, shape)
      BY <1>1, <1>2
    <3>2. changes \in 0 .. MaxChanges
      BY <1>1, <1>2, LookupAssumption
    <3> QED BY <2>1, <3>1, <3>2 DEF IsRelease, Release
  <2>2. CASE u # t
    <3>1. content'[u] = content[u] /\ u \in Held
      BY <1>1, <1>2, <2>2 DEF Held
    <3> QED BY <3>1 DEF ILookup, IRepository
  <2> QED BY <2>1, <2>2
<1>4. DOMAIN content' = Tags
  BY <1>1, <1>2
<1> QED BY <1>1, <1>3, <1>4, ContentKeeps

LEMMA DeleteKeeps ==
  ASSUME ILookup, NEW t \in Tags, Delete(t)
  PROVE  ILookup'
<1>1. /\ changes <= MaxChanges /\ ContentChanges
      /\ content' = [content EXCEPT ![t] = NoTag]
  BY DEF Delete
<1>2. DOMAIN content = Tags
  BY DEF ILookup, IRepository
<1>3. ASSUME NEW u \in Held' PROVE IsRelease(u, content'[u])
  <2>1. u # t /\ u \in Tags
    BY <1>1, <1>2 DEF Held
  <2>2. content'[u] = content[u] /\ u \in Held
    BY <1>1, <1>2, <2>1 DEF Held
  <2> QED BY <2>2 DEF ILookup, IRepository
<1>4. DOMAIN content' = Tags
  BY <1>1, <1>2
<1> QED BY <1>1, <1>3, <1>4, ContentKeeps

\* The next page: what it leaves out is after its last tag, and nothing is left
\* out of one that is not full.
LEMMA PageLists ==
  ASSUME ILookup, NEW size \in 0 .. PageSize, NEW page \in [1 .. size -> Held],
         lookupStage = "tags", IsPage(page, Cursor(found))
  PROVE  /\ found \o page \in Seq(Tags) /\ Ascending(found \o page)
         /\ Range(found \o page) \subseteq ever
         /\ \A t \in always : t \in Range(found \o page) \/ t > Cursor(found \o page)
         /\ TagsAfter(Cursor(found)) \subseteq Range(page) => always \subseteq Range(found \o page)
<1> DEFINE after == Cursor(found)
<1>1. found \in Seq(Tags) /\ Ascending(found) /\ always \subseteq Held /\ Held \subseteq ever /\ Range(found) \subseteq ever
  BY DEF ILookup, ITags
<1>2. size \in Nat /\ Len(page) = size /\ DOMAIN page = 1..size /\ page \in Seq(Tags)
  <2>1. size \in Nat
    BY LookupAssumption
  <2>2. page \in [1..size -> Tags]
    BY DEF Held
  <2> QED BY <2>1, <2>2
<1>3. /\ Range(page) \subseteq TagsAfter(after)
      /\ Ascending(page)
      /\ \A i \in DOMAIN page, t \in TagsAfter(after) \ Range(page) : page[i] < t
      /\ Len(page) = PageSize \/ TagsAfter(after) \subseteq Range(page)
  BY DEF IsPage, Ascending
<1>4. \A i \in DOMAIN page : page[i] > after
  <2>1. \A i \in DOMAIN page : page[i] \in TagsAfter(after)
    BY <1>3 DEF Range
  <2> QED BY <2>1 DEF TagsAfter
<1>5. /\ found \o page \in Seq(Tags) /\ Ascending(found \o page)
      /\ Range(found \o page) = Range(found) \cup Range(page)
      /\ page = <<>> => Cursor(found \o page) = Cursor(found)
      /\ page # <<>> => Cursor(found \o page) = page[Len(page)]
  BY <1>1, <1>2, <1>3, <1>4, PageAscends
<1>6. Range(page) \subseteq Held
  BY <1>3 DEF TagsAfter
<1>7. \A t \in always : t \in Range(found) \/ t \in TagsAfter(after)
  BY <1>1 DEF ILookup, ITags, TagsAfter
<1> HIDE DEF after
<1>8. ASSUME NEW t \in always, t \notin Range(found \o page) PROVE t > Cursor(found \o page)
  <2>1. t \in TagsAfter(after) \ Range(page)
    BY <1>5, <1>7, <1>8
  <2>2. Len(page) = PageSize
    BY <1>3, <2>1
  <2>3. page # <<>> /\ Len(page) \in DOMAIN page
    BY <1>2, <2>2, LookupAssumption
  <2>4. page[Len(page)] < t /\ Cursor(found \o page) = page[Len(page)]
    BY <1>3, <1>5, <2>1, <2>3, Zenon
  <2>5. page[Len(page)] \in Nat /\ t \in Nat
    <3>1. t \in Tags
      BY <1>1 DEF Held
    <3> QED BY <1>2, <2>3, <3>1, ListsTags, LookupAssumption
  <2> QED BY <2>4, <2>5
<1> QED BY <1>1, <1>5, <1>6, <1>7, <1>8 DEF after

LEMMA TagsPageKeeps ==
  ASSUME ILookup, NEW fetched, TagsPage(fetched)
  PROVE  ILookup'
<1>1. /\ lookupStage = "tags"
      /\ UNCHANGED <<content, changes, host, always, ever, releases, asked, entry, digest>>
  BY DEF TagsPage, imageVars, repoVars, pastVars
<1>2. Held' = Held
  BY <1>1 DEF Held
<1>3. lookupStage' \in {"tags", "listed", "failed"}
  BY DEF TagsPage
<1>4. IRepository'
  BY <1>1, <1>2 DEF ILookup, IRepository
<1>5. IManifest'
  BY <1>3 DEF IManifest
<1>6. CASE lookupStage' = "failed" /\ found' = found
  <2>1. ITags'
    BY <1>1, <1>6 DEF ILookup, ITags, Ascending
  <2> QED BY <1>4, <1>5, <2>1 DEF ILookup
<1>7. CASE \E size \in 0 .. PageSize : \E page \in [1 .. size -> Held] :
             /\ IsPage(page, Cursor(found))
             /\ found' = found \o page
             /\ lookupStage' = IF TagsAfter(Cursor(found)) \subseteq Range(page) THEN "listed" ELSE "tags"
  <2>s. PICK size \in 0 .. PageSize : \E page \in [1 .. size -> Held] :
             /\ IsPage(page, Cursor(found))
             /\ found' = found \o page
             /\ lookupStage' = IF TagsAfter(Cursor(found)) \subseteq Range(page) THEN "listed" ELSE "tags"
    BY <1>7
  <2>1. PICK page \in [1 .. size -> Held] :
             /\ IsPage(page, Cursor(found))
             /\ found' = found \o page
             /\ lookupStage' = IF TagsAfter(Cursor(found)) \subseteq Range(page) THEN "listed" ELSE "tags"
    BY <2>s
  <2> DEFINE q == found \o page
  <2>2. /\ q \in Seq(Tags) /\ Ascending(q) /\ Range(q) \subseteq ever
        /\ \A t \in always : t \in Range(q) \/ t > Cursor(q)
        /\ TagsAfter(Cursor(found)) \subseteq Range(page) => always \subseteq Range(q)
    BY <1>1, <2>1, PageLists
  <2>3. found' = q /\ Cursor(found)' = Cursor(q)
    BY <2>1 DEF Cursor
  <2>4. always \subseteq Held /\ Held \subseteq ever
    BY <1>1 DEF ILookup, ITags
  <2> HIDE DEF q
  <2>5. ITags'
    BY <1>1, <1>2, <2>1, <2>2, <2>3, <2>4 DEF ITags, Ascending
  <2> QED BY <1>4, <1>5, <2>5 DEF ILookup
<1> QED BY <1>4, <1>5, <1>6, <1>7 DEF TagsPage, ILookup

LEMMA StartKeeps == ASSUME ILookup, StartLookup  PROVE ILookup'
<1>1. /\ lookupStage = "idle" /\ lookupStage' \in {"unsupported", "tags"}
      /\ always' = Held /\ ever' = Held
      /\ UNCHANGED <<content, changes, found>>
  BY DEF StartLookup, repoVars
<1>2. Held' = Held
  BY <1>1 DEF Held
<1>3. ITags'
  <2>1. found \in Seq(Tags) /\ Ascending(found) /\ found = <<>>
    BY <1>1 DEF ILookup, ITags
  <2>2. Cursor(found) = 0 /\ Range(found) = {}
    BY <2>1, EmptySeq DEF Cursor, Range
  <2>3. \A t \in Held : t > 0
    BY LookupAssumption DEF Held
  <2>4. Cursor(found)' = Cursor(found) /\ Range(found)' = Range(found) /\ Ascending(found)'
    BY <1>1, <2>1 DEF Cursor
  <2> QED BY <1>1, <1>2, <2>1, <2>2, <2>3, <2>4 DEF ITags
<1>4. IRepository'
  BY <1>1, <1>2 DEF ILookup, IRepository
<1>5. IManifest'
  BY <1>1 DEF IManifest
<1> QED BY <1>3, <1>4, <1>5 DEF ILookup

\* The steps that leave the listing and the repository alone.
LEMMA TagsStay ==
  ASSUME ILookup, UNCHANGED <<content, changes, found, always, ever>>,
         lookupStage \in {"listed", "manifest", "head"},
         lookupStage' \in {"listed", "manifest", "head", "done", "failed"}
  PROVE  ITags' /\ IRepository'
<1>1. Held' = Held
  BY DEF Held
<1>2. ITags'
  BY DEF ILookup, ITags, Ascending
<1>3. IRepository'
  BY <1>1 DEF ILookup, IRepository
<1> QED BY <1>2, <1>3

LEMMA AskDigestKeeps == ASSUME ILookup, NEW t \in Tags, AskDigest(t)  PROVE ILookup'
<1>1. /\ lookupStage = "listed" /\ lookupStage' = "manifest" /\ asked' = t
      /\ releases' = IF content[t] = NoTag THEN {} ELSE {content[t]}
      /\ UNCHANGED <<content, changes, found, always, ever>>
  BY DEF AskDigest, repoVars
<1>2. ITags' /\ IRepository'
  BY <1>1, TagsStay
<1>3. IManifest'
  BY <1>1 DEF IManifest
<1> QED BY <1>2, <1>3 DEF ILookup

LEMMA ManifestKeeps == ASSUME ILookup, NEW fetched, ReadManifest(fetched)  PROVE ILookup'
<1> DEFINE r == content[asked]
           media == MediaOf[asked]
           isList == media = "list" /\ r # NoTag
           fits == ~isList \/ OfArch(r.entries) # {}
<1>1. /\ lookupStage = "manifest"
      /\ UNCHANGED <<content, changes, found, always, ever, releases, host, asked>>
  BY DEF ReadManifest, imageVars, repoVars, pastVars
<1>2. \/ lookupStage' = "failed"
      \/ /\ r # NoTag /\ fits
         /\ IF media = "legacy" \/ (isList /\ BestEntry(r.entries).media = "config")
            THEN /\ lookupStage' = "done"
                 /\ digest' = IF isList THEN EntryDigest(r, BestEntry(r.entries)) ELSE OwnDigest(r)
            ELSE /\ lookupStage' = "head"
                 /\ entry' = IF isList THEN EntryDigest(r, BestEntry(r.entries)) ELSE NoTag
  BY DEF ReadManifest
<1>3. lookupStage' \in {"failed", "done", "head"}
  BY <1>2
<1>4. ITags' /\ IRepository'
  BY <1>1, <1>3, TagsStay
<1>5. CASE lookupStage' = "failed"
  <2>1. IManifest'
    BY <1>5 DEF IManifest
  <2> QED BY <1>4, <2>1 DEF ILookup
<1>6. CASE lookupStage' # "failed"
  <2>1. asked \in Tags /\ r # NoTag /\ r \in releases
    BY <1>1, <1>2, <1>6 DEF ILookup, IManifest
  <2>2. r.tag = asked /\ r.entries \in Shapes /\ r.push \in 0 .. MaxChanges
    BY <2>1 DEF ILookup, IRepository, IsRelease, Held
  <2>3. isList => /\ EntryDigest(r, BestEntry(r.entries)) \in Offers(r)
                  /\ EntryDigest(r, BestEntry(r.entries)) # NoTag
    BY <1>2, <1>6, <2>2, BestIsOffered
  <2>4. ~isList => media # "list" /\ OwnDigest(r) \in Offers(r)
    BY <2>1, <2>2 DEF Offers
  <2>5. Offers(r)' = Offers(r) /\ r' = r
    BY <1>1 DEF Offers
  <2>6. asked' = asked /\ releases' = releases /\ content'[asked'] = r
    BY <1>1
  <2>7. \/ lookupStage' = "done" /\ digest' \in Offers(r)
        \/ /\ lookupStage' = "head"
           /\ IF entry' = NoTag THEN media # "list" ELSE entry' \in Offers(r)
    <3> HIDE DEF r
    <3> QED BY <1>2, <1>6, <2>3, <2>4
  <2>8. \A x : Offers(x)' = Offers(x)
    BY <1>1 DEF Offers
  <2> HIDE DEF r, isList, fits
  <2>9. IManifest'
    BY <2>1, <2>6, <2>7, <2>8 DEF IManifest
  <2> QED BY <1>4, <2>9 DEF ILookup
<1> QED BY <1>5, <1>6

LEMMA HeadKeeps ==
  ASSUME ILookup, NEW fetched, NEW collected, ReadHead(fetched, collected)
  PROVE  ILookup'
<1>1. /\ lookupStage = "head"
      /\ UNCHANGED <<content, changes, found, always, ever, releases, host, asked, entry>>
  BY DEF ReadHead, imageVars, repoVars, pastVars
<1>2. \/ lookupStage' = "failed"
      \/ /\ lookupStage' = "done" /\ (entry = NoTag => content[asked] # NoTag)
         /\ digest' = IF entry # NoTag THEN entry ELSE OwnDigest(content[asked])
  BY DEF ReadHead
<1>3. lookupStage' \in {"failed", "done"}
  BY <1>2
<1>4. ITags' /\ IRepository'
  BY <1>1, <1>3, TagsStay
<1>5. \A x : Offers(x)' = Offers(x)
  BY <1>1 DEF Offers
<1>6. ASSUME lookupStage' = "done" PROVE \E r \in releases : digest' \in Offers(r)
  <2>1. CASE entry # NoTag
    BY <1>1, <1>2, <1>6, <2>1 DEF ILookup, IManifest
  <2>2. CASE entry = NoTag
    <3>1. asked \in Tags /\ content[asked] # NoTag /\ content[asked] \in releases /\ MediaOf[asked] # "list"
      BY <1>1, <1>2, <1>6, <2>2 DEF ILookup, IManifest
    <3>2. content[asked].tag = asked
      BY <3>1 DEF ILookup, IRepository, IsRelease, Held
    <3>3. OwnDigest(content[asked]) \in Offers(content[asked])
      BY <3>1, <3>2 DEF Offers
    <3>4. digest' = OwnDigest(content[asked])
      BY <1>2, <1>6, <2>2
    <3> QED BY <3>1, <3>3, <3>4
  <2> QED BY <2>1, <2>2
<1>7. IManifest'
  <2>1. lookupStage' = "done" => asked' \in Tags
    BY <1>1 DEF ILookup, IManifest
  <2> QED BY <1>1, <1>3, <1>5, <1>6, <2>1 DEF IManifest
<1> QED BY <1>4, <1>7 DEF ILookup

LEMMA LookupKeeps == ILookup /\ [RegistryNext]_registryVars => ILookup'
<1> SUFFICES ASSUME ILookup, [RegistryNext]_registryVars PROVE ILookup'
  OBVIOUS
<1>1. CASE UNCHANGED registryVars
  <2>1. /\ UNCHANGED <<host, content, changes, lookupStage, found, asked, entry, digest>>
        /\ UNCHANGED <<always, ever, releases>>
    BY <1>1 DEF registryVars, imageVars, repoVars, pastVars
  <2>2. Held' = Held /\ \A x : Offers(x)' = Offers(x)
    BY <2>1 DEF Held, Offers
  <2>3. ITags'
    BY <2>1, <2>2 DEF ILookup, ITags, Ascending, Cursor
  <2>4. IRepository'
    BY <2>1, <2>2 DEF ILookup, IRepository
  <2>5. IManifest'
    BY <2>1, <2>2 DEF ILookup, IManifest
  <2> QED BY <2>3, <2>4, <2>5 DEF ILookup
<1>2. CASE StartLookup
  BY <1>2, StartKeeps
<1>3. ASSUME NEW t \in Tags, Delete(t) PROVE ILookup'
  BY <1>3, DeleteKeeps
<1>4. ASSUME NEW t \in Tags, AskDigest(t) PROVE ILookup'
  BY <1>4, AskDigestKeeps
<1>5. ASSUME NEW t \in Tags, NEW shape \in Shapes, PushTag(t, shape) PROVE ILookup'
  BY <1>5, PushKeeps
<1>6. ASSUME NEW fetched, TagsPage(fetched) PROVE ILookup'
  BY <1>6, TagsPageKeeps
<1>7. ASSUME NEW fetched, ReadManifest(fetched) PROVE ILookup'
  BY <1>7, ManifestKeeps
<1>8. ASSUME NEW fetched, NEW collected, ReadHead(fetched, collected) PROVE ILookup'
  BY <1>8, HeadKeeps
<1> QED BY <1>1, <1>2, <1>3, <1>4, <1>5, <1>6, <1>7, <1>8, Zenon DEF RegistryNext

(***************************************************************************)
(* LookupHolds: for any registries, tags, sizes of a page and manifest     *)
(* lists, and however tags come and go between the requests, a listing has *)
(* every tag that was there all along, once, and none that never was, and  *)
(* a digest is one the asked tag offered the container's platform after it *)
(* was asked for (getTags and getImageManifestDigest of Registry.ts).      *)
(***************************************************************************)
THEOREM LookupHolds == RegistrySpec => []LookupIsTrue
<1>1. ILookup => LookupIsTrue
  <2> SUFFICES ASSUME ILookup PROVE LookupIsTrue
    OBVIOUS
  <2>1. Cardinality(Range(found)) = Len(found)
    BY NoTagTwice DEF ILookup, ITags
  <2> QED BY <2>1 DEF ILookup, ITags, IManifest, LookupIsTrue
<1> QED BY <1>1, LookupStarts, LookupKeeps, PTL DEF RegistrySpec
---------------------------------------------------------------------------------
(***************************************************************************)
(* The display name of a container is the declared one, for any labels,    *)
(* imgsets, events, redeployments and restarts.                            *)
(***************************************************************************)
\* A finite set of numbers has an upper bound: by induction over a listing
\* of it, by the smallest counterexample.
LEMMA HasBound ==
  ASSUME NEW S, S \subseteq Nat, IsFiniteSet(S)
  PROVE  \E b \in Nat : \A x \in S : x <= b
<1>1. PICK m \in Nat : ExistsBijection(1..m, S)
  BY FS_NatBijection
<1>2. PICK f \in Bijection(1..m, S) : TRUE
  BY <1>1 DEF ExistsBijection
<1>3. f \in [1..m -> S] /\ \A x \in S : \E n \in 1..m : f[n] = x
  BY <1>2 DEF Bijection, Injection, Surjection
<1>4. \A b, c \in Nat : \E d \in Nat : c <= d /\ \A x \in Nat : x <= b => x <= d
  <2> SUFFICES ASSUME NEW b \in Nat, NEW c \in Nat
               PROVE \E d \in Nat : c <= d /\ \A x \in Nat : x <= b => x <= d
    OBVIOUS
  <2>1. b + c \in Nat /\ c <= b + c /\ \A x \in Nat : x <= b => x <= b + c
    OBVIOUS
  <2> QED BY <2>1, Zenon
<1>7. \A k \in 1..m : f[k] \in Nat
  BY <1>3
<1> DEFINE Bounded(n) == \E b \in Nat : \A k \in 1..n : f[k] <= b
           Bad == {n \in 0..m : ~Bounded(n)}
<1>5. ASSUME Bad # {} PROVE FALSE
  <2>1. PICK n \in Bad : \A k \in Bad : n <= k
    BY <1>5, LeastOf, Bad \subseteq Nat
  <2>2. n # 0
    BY <2>1
  <2>3. n \in 1..m /\ n - 1 \in 0..m /\ ~(n <= n - 1) /\ ~Bounded(n)
    <3>1. n \in 0..m /\ ~Bounded(n)
      BY <2>1
    <3> HIDE DEF Bounded
    <3> QED BY <2>2, <3>1
  <2>4. Bounded(n - 1)
    <3>1. n - 1 \notin Bad
      <4> HIDE DEF Bad
      <4> QED BY <2>1, <2>3
    <3> HIDE DEF Bounded
    <3> QED BY <2>3, <3>1
  <2>5. PICK b \in Nat : \A k \in 1..(n - 1) : f[k] <= b
    BY <2>4
  <2>10. n \in 1..m /\ \A k \in 1..n : k \in 1..m
    <3> HIDE DEF Bounded
    <3> QED BY <2>3
  <2>6. f[n] \in Nat /\ \A k \in 1..n : f[k] \in Nat
    BY <1>7, <2>10, Zenon
  <2>7. PICK d \in Nat : f[n] <= d /\ \A x \in Nat : x <= b => x <= d
    BY <1>4, <2>6, Zenon
  <2>8. \A k \in 1..n : k = n \/ k \in 1..(n - 1)
    BY <2>3
  <2>9. ASSUME NEW k \in 1..n PROVE f[k] <= d
    BY <2>5, <2>6, <2>7, <2>8, Zenon
  <2> QED BY <2>3, <2>9
<1>6. Bounded(m)
  <2>1. m \in 0..m
    OBVIOUS
  <2> HIDE DEF Bounded
  <2> QED BY <1>5, <2>1
<1> QED BY <1>3, <1>6

LEMMA HasMax ==
  ASSUME NEW S, S \subseteq Nat, IsFiniteSet(S), S # {}
  PROVE  Max(S) \in S
<1> DEFINE Bounds == {b \in Nat : \A x \in S : x <= b}
<1>1. Bounds # {}
  BY HasBound
<1>2. PICK b \in Bounds : \A c \in Bounds : b <= c
  BY <1>1, LeastOf, Bounds \subseteq Nat
<1>3. b \in Nat /\ \A x \in S : x <= b
  BY <1>2
<1>4. ASSUME b \notin S PROVE FALSE
  <2>1. PICK x \in S : TRUE
    OBVIOUS
  <2>2. b - 1 \in Nat
    BY <1>3, <1>4, <2>1
  <2>3. ASSUME NEW y \in S PROVE y <= b - 1
    BY <1>3, <1>4, <2>3
  <2>4. b <= b - 1
    BY <1>2, <2>2, <2>3
  <2> QED BY <1>3, <2>4
<1>5. \E x \in S : \A y \in S : x >= y
  BY <1>3, <1>4
<1> QED BY <1>5 DEF Max

\* A section of a configuration, and what DetailsAssumption says of all of
\* them: their references are as long as a number says.
Section == [name : Nat, domain : DOMAIN Length, path : DOMAIN Length, named : BOOLEAN]

LEMMA SpecificityIsNat ==
  ASSUME NEW imgset \in Section
  PROVE  Specificity(imgset) \in Nat
<1> DEFINE refs == References(imgset)
           S == {LengthOf(r) : r \in refs}
           f == [r \in refs |-> LengthOf(r)]
<1>1. refs \subseteq (DOMAIN Length) \X (DOMAIN Length)
  BY DetailsAssumption, ZenonT(60) DEF References, Section
<1>2. IsFiniteSet(refs)
  <2>1. IsFiniteSet((DOMAIN Length) \X (DOMAIN Length))
    BY FS_Product, DetailsAssumption
  <2> QED BY <1>1, <2>1, FS_Subset
<1>3. S \subseteq Nat
  <2>1. ASSUME NEW r \in refs PROVE LengthOf(r) \in Nat
    <3>1. r[1] \in DOMAIN Length /\ r[2] \in DOMAIN Length
      BY <1>1
    <3>2. Length[r[1]] \in Nat /\ Length[r[2]] \in Nat
      BY <3>1, DetailsAssumption
    <3> QED BY <3>2 DEF LengthOf
  <2> QED BY <2>1
<1>4. IsFiniteSet(S)
  <2>1. f \in Surjection(refs, S)
    BY DEF Surjection
  <2> HIDE DEF refs, S, f
  <2> QED BY <1>2, <2>1, FS_Surjection
<1>5. S # {}
  <2>1. <<"", imgset.path>> \in refs
    BY DEF References
  <2> QED BY <2>1
<1>6. Max(S) \in Nat
  <2> HIDE DEF S
  <2> QED BY <1>3, <1>4, <1>5, HasMax
<1> QED BY <1>6 DEF Specificity

\* The section k is ranked first among the first n.
Beats(i, j) == \/ Specificity(j) < Specificity(i)
               \/ Specificity(j) = Specificity(i) /\ i.name < j.name
IsTop(entries, img, n, k) ==
  /\ k \in 1..n /\ Matches(entries[k], img)
  /\ \A j \in 1..n : j # k /\ Matches(entries[j], img) => Beats(entries[k], entries[j])
Tops(entries, img, n) == {entries[k] : k \in {m \in 1..n : IsTop(entries, img, n, m)}}

\* One step of the loop over the sections.
LEMMA LoopStep ==
  ASSUME NEW entries, NEW img, NEW n \in Nat \ {0},
         \A k \in 1..n : Specificity(entries[k]) \in Nat /\ entries[k].name \in Nat,
         \A j, k \in 1..n : entries[j].name = entries[k].name => j = k,
         (\E k \in 1..(n - 1) : Matches(entries[k], img)) =>
            \E k \in 1..(n - 1) : IsTop(entries, img, n - 1, k)
  PROVE  /\ Tops(entries, img, n) =
              IF /\ Matches(entries[n], img)
                 /\ \A b \in Tops(entries, img, n - 1) : IsBetter(entries[n], b)
              THEN {entries[n]} ELSE Tops(entries, img, n - 1)
         /\ (\E k \in 1..n : Matches(entries[k], img)) =>
              \E k \in 1..n : IsTop(entries, img, n, k)
<1> DEFINE mt(k) == Matches(entries[k], img)
           bt(j, k) == Beats(entries[j], entries[k])
           top(m, k) == IsTop(entries, img, m, k)
<1>1. n \in 1..n /\ \A k \in 1..n : k = n \/ k \in 1..(n - 1)
  OBVIOUS
<1>2. \A k \in 1..(n - 1) : k \in 1..n /\ k # n
  OBVIOUS
<1>3. \A j, k \in 1..n : j # k => (bt(j, k) <=> ~bt(k, j))
  <2> SUFFICES ASSUME NEW j \in 1..n, NEW k \in 1..n, j # k PROVE bt(j, k) <=> ~bt(k, j)
    OBVIOUS
  <2>1. /\ Specificity(entries[j]) \in Nat /\ Specificity(entries[k]) \in Nat
        /\ entries[j].name \in Nat /\ entries[k].name \in Nat
        /\ entries[j].name # entries[k].name
    OBVIOUS
  <2> QED BY <2>1 DEF Beats
<1>4. \A j, k, m \in 1..n : bt(j, k) /\ bt(k, m) => bt(j, m)
  <2> SUFFICES ASSUME NEW j \in 1..n, NEW k \in 1..n, NEW m \in 1..n, bt(j, k), bt(k, m)
               PROVE bt(j, m)
    OBVIOUS
  <2>1. /\ Specificity(entries[j]) \in Nat /\ Specificity(entries[k]) \in Nat
        /\ entries[j].name \in Nat /\ entries[k].name \in Nat
        /\ Specificity(entries[m]) \in Nat /\ entries[m].name \in Nat
    OBVIOUS
  <2> QED BY <2>1 DEF Beats
<1>5. \A k \in 1..(n - 1) : IsBetter(entries[n], entries[k]) <=> bt(n, k)
  <2> SUFFICES ASSUME NEW k \in 1..(n - 1)
               PROVE IsBetter(entries[n], entries[k]) <=> bt(n, k)
    OBVIOUS
  <2>1. k \in 1..n
    BY <1>2
  <2>2. Specificity(entries[n]) \in Nat /\ Specificity(entries[k]) \in Nat
    BY <1>1, <2>1
  <2> QED BY <2>2 DEF Beats, IsBetter
<1>6. \A m, k : top(m, k) <=> k \in 1..m /\ mt(k) /\ \A j \in 1..m : j # k /\ mt(j) => bt(k, j)
  BY DEF IsTop
<1>7. \A m : Tops(entries, img, m) = {entries[k] : k \in {q \in 1..m : top(m, q)}}
  BY DEF Tops
<1>8. (\E k \in 1..(n - 1) : mt(k)) => \E k \in 1..(n - 1) : top(n - 1, k)
  OBVIOUS
<1>9. \A j, k : top(n - 1, j) /\ top(n - 1, k) => j = k
  BY <1>2, <1>3, <1>6
<1> HIDE DEF mt, bt, top
<1>10. CASE ~mt(n)
  <2>1. \A k : top(n, k) <=> top(n - 1, k)
    BY <1>1, <1>2, <1>6, <1>10
  <2>2. Tops(entries, img, n) = Tops(entries, img, n - 1)
    BY <1>2, <1>6, <1>7, <2>1
  <2> QED BY <1>1, <1>2, <1>8, <1>10, <2>1, <2>2 DEF mt, top
<1>11. CASE mt(n) /\ \A k : top(n - 1, k) => bt(n, k)
  <2>1. \A k \in 1..(n - 1) : mt(k) => bt(n, k)
    BY <1>2, <1>4, <1>6, <1>8, <1>1, <1>11
  <2>2. top(n, n)
    BY <1>1, <1>6, <1>11, <2>1
  <2>3. \A k : top(n, k) <=> k = n
    BY <1>1, <1>2, <1>3, <1>6, <1>11, <2>1, <2>2
  <2>4. Tops(entries, img, n) = {entries[n]}
    BY <1>1, <1>7, <2>3
  <2>5. \A b \in Tops(entries, img, n - 1) : IsBetter(entries[n], b)
    BY <1>5, <1>6, <1>7, <1>11
  <2> QED BY <1>1, <1>11, <2>2, <2>4, <2>5 DEF mt, top
<1>12. CASE mt(n) /\ \E k : top(n - 1, k) /\ ~bt(n, k)
  <2>1. PICK k : top(n - 1, k) /\ ~bt(n, k)
    BY <1>12
  <2>2. k \in 1..(n - 1) /\ k \in 1..n /\ k # n /\ mt(k) /\ bt(k, n)
    BY <1>1, <1>2, <1>3, <1>6, <2>1
  <2>3. top(n, k)
    BY <1>1, <1>6, <2>1, <2>2
  <2>4. \A j : top(n, j) <=> j = k
    BY <1>3, <1>6, <2>2, <2>3
  <2>5. \A j : top(n - 1, j) <=> j = k
    BY <1>9, <2>1
  <2>6. Tops(entries, img, n) = {entries[k]}
    BY <1>7, <2>2, <2>4
  <2>7. Tops(entries, img, n - 1) = {entries[k]}
    BY <1>7, <2>2, <2>5
  <2>8. ~IsBetter(entries[n], entries[k])
    BY <1>5, <2>1, <2>2
  <2> QED BY <2>2, <2>3, <2>6, <2>7, <2>8 DEF top
<1> QED BY <1>10, <1>11, <1>12

\* getMatchingImgsetConfiguration finds the section that is ranked first,
\* whatever the order of the sections: by induction over them.
LEMMA BestIsTop ==
  ASSUME NEW entries \in Orders, NEW img
  PROVE  /\ Best(entries, img) = Tops(entries, img, Len(entries))
<1> DEFINE N == Len(entries)
           step(g, n) == IF n = 0 THEN {}
                         ELSE IF /\ Matches(entries[n], img)
                                 /\ \A b \in g[n - 1] : IsBetter(entries[n], b)
                              THEN {entries[n]} ELSE g[n - 1]
           tops == [n \in 0..N |-> Tops(entries, img, n)]
           Ranks(n) == (\E k \in 1..n : Matches(entries[k], img)) =>
                          \E k \in 1..n : IsTop(entries, img, n, k)
           Bad == {n \in 0..N : ~Ranks(n)}
           best == CHOOSE g : g = [n \in 0..N |-> step(g, n)]
<1>1. N \in Nat /\ DOMAIN entries = 1..N /\ \A k \in 1..N : entries[k] \in Section
  <2>1. entries \in Seq(Section)
    BY DetailsAssumption DEF Section
  <2> QED BY <2>1
<1>2. \A k \in 1..N : Specificity(entries[k]) \in Nat /\ entries[k].name \in Nat
  BY <1>1, SpecificityIsNat DEF Section
<1>3. \A j, k \in 1..N : entries[j].name = entries[k].name => j = k
  BY <1>1, DetailsAssumption
<1>4. ASSUME NEW n \in 1..N, Ranks(n - 1)
      PROVE /\ Tops(entries, img, n) =
                 IF /\ Matches(entries[n], img)
                    /\ \A b \in Tops(entries, img, n - 1) : IsBetter(entries[n], b)
                 THEN {entries[n]} ELSE Tops(entries, img, n - 1)
            /\ Ranks(n)
  <2>1. n \in Nat \ {0} /\ 1..n \subseteq 1..N
    BY <1>1
  <2>2. \A k \in 1..n : Specificity(entries[k]) \in Nat /\ entries[k].name \in Nat
    BY <1>2, <2>1
  <2>3. \A j, k \in 1..n : entries[j].name = entries[k].name => j = k
    BY <1>3, <2>1
  <2> HIDE DEF N
  <2> QED BY <1>4, <2>1, <2>2, <2>3, LoopStep
<1>5. ASSUME Bad # {} PROVE FALSE
  <2>1. PICK n \in Bad : \A k \in Bad : n <= k
    BY <1>1, <1>5, LeastOf, Bad \subseteq Nat
  <2>2. n \in 0..N /\ ~Ranks(n)
    BY <2>1
  <2>3. n # 0
    BY <2>2
  <2>4. n \in 1..N /\ n - 1 \in 0..N /\ ~(n <= n - 1)
    <3> HIDE DEF Ranks, N
    <3> QED BY <1>1, <2>2, <2>3
  <2>5. Ranks(n - 1)
    <3>1. n - 1 \notin Bad
      <4> HIDE DEF Bad
      <4> QED BY <2>1, <2>4
    <3> HIDE DEF Ranks
    <3> QED BY <2>4, <3>1
  <2> QED BY <1>4, <2>2, <2>4, <2>5
<1>6. \A n \in 0..N : Ranks(n)
  <2> HIDE DEF Ranks
  <2> QED BY <1>5
<1>7. ASSUME NEW n \in 1..N PROVE Ranks(n - 1)
  <2>1. n - 1 \in 0..N
    BY <1>1
  <2> HIDE DEF Ranks
  <2> QED BY <1>6, <2>1
<1>8. ASSUME NEW n \in 0..N PROVE tops[n] = step(tops, n)
  <2>1. CASE n = 0
    BY <2>1 DEF Tops
  <2>2. CASE n # 0
    <3>1. n \in 1..N /\ n - 1 \in 0..N
      BY <1>1, <2>2
    <3>2. tops[n] = Tops(entries, img, n) /\ tops[n - 1] = Tops(entries, img, n - 1)
      BY <3>1
    <3> HIDE DEF tops
    <3> QED BY <1>4, <1>7, <2>2, <3>1, <3>2
  <2> QED BY <2>1, <2>2
<1>9. tops = [n \in 0..N |-> step(tops, n)]
  <2>1. \A n \in 0..N : tops[n] = step(tops, n)
    BY <1>8
  <2> HIDE DEF step
  <2> QED BY <2>1
<1>10. best = [n \in 0..N |-> step(best, n)]
  <2> HIDE DEF step, tops
  <2> QED BY <1>9
<1> DEFINE Off == {n \in 0..N : best[n] # tops[n]}
<1>11. \A n \in 0..N : best[n] = step(best, n)
  <2> HIDE DEF step, best
  <2> QED BY <1>10
<1>12. ASSUME Off # {} PROVE FALSE
  <2> HIDE DEF best, tops, step
  <2>0. Off \subseteq Nat
    BY <1>1
  <2>1. PICK n \in Off : \A k \in Off : n <= k
    <3> HIDE DEF Off
    <3> QED BY <1>12, <2>0, LeastOf
  <2>2. n \in 0..N /\ best[n] # tops[n]
    BY <2>1
  <2>3. n # 0
    BY <1>8, <1>11, <2>2 DEF step
  <2>4. n - 1 \in 0..N /\ ~(n <= n - 1)
    <3> HIDE DEF Off, N
    <3> QED BY <1>1, <2>2, <2>3
  <2>5. best[n - 1] = tops[n - 1]
    <3>1. n - 1 \notin Off
      <4> HIDE DEF Off
      <4> QED BY <2>1, <2>4
    <3> QED BY <2>4, <3>1
  <2>6. step(best, n) = step(tops, n)
    BY <2>3, <2>5 DEF step
  <2> QED BY <1>8, <1>11, <2>2, <2>6
<1>13. best[N] = tops[N]
  <2>1. N \in 0..N
    BY <1>1
  <2> HIDE DEF best, tops
  <2> QED BY <1>12, <2>1
<1>14. Best(entries, img) = best[N]
  BY DEF Best
<1>15. tops[N] = Tops(entries, img, Len(entries))
  BY <1>1
<1> HIDE DEF best, tops, N
<1> QED BY <1>13, <1>14, <1>15

\* The ranked section, as Ranked says it of the set of the sections.
LEMMA RankedIsTop ==
  ASSUME NEW entries \in Orders, NEW img
  PROVE  /\ Ranked(entries, img) = Tops(entries, img, Len(entries))
         /\ \A i, j \in Ranked(entries, img) : i = j
         /\ \A i \in Ranked(entries, img) : i \in Section
<1> DEFINE N == Len(entries)
<1>1. N \in Nat /\ DOMAIN entries = 1..N /\ \A k \in 1..N : entries[k] \in Section
  <2>1. entries \in Seq(Section)
    BY DetailsAssumption DEF Section
  <2> QED BY <2>1
<1>2. \A k \in 1..N : Specificity(entries[k]) \in Nat /\ entries[k].name \in Nat
  BY <1>1, SpecificityIsNat DEF Section
<1>3. \A j, k \in 1..N : entries[j] = entries[k] => j = k
  BY <1>1, DetailsAssumption
<1>4. ToSet(entries) = {entries[k] : k \in 1..N}
  BY <1>1 DEF ToSet
<1>5. \A i : i \in Ranked(entries, img) <=>
                i \in ToSet(entries) /\ Matches(i, img)
                /\ \A j \in ToSet(entries) : j # i /\ Matches(j, img) => Beats(i, j)
  BY DEF Ranked, Beats
<1>6. \A i : i \in Tops(entries, img, N) <=>
                \E k \in 1..N : i = entries[k] /\ IsTop(entries, img, N, k)
  BY DEF Tops
<1>7. \A k \in 1..N : IsTop(entries, img, N, k) <=>
         Matches(entries[k], img)
         /\ \A j \in 1..N : j # k /\ Matches(entries[j], img) => Beats(entries[k], entries[j])
  BY DEF IsTop
<1> HIDE DEF N
<1>8. \A k \in 1..N : entries[k] \in Ranked(entries, img) <=> IsTop(entries, img, N, k)
  BY <1>3, <1>4, <1>5, <1>7
<1>9. Ranked(entries, img) = Tops(entries, img, N)
  <2>1. \A i \in Ranked(entries, img) : \E k \in 1..N : i = entries[k]
    BY <1>4, <1>5
  <2> QED BY <1>6, <1>8, <2>1
<1>10. ASSUME NEW i \in Ranked(entries, img), NEW j \in Ranked(entries, img), i # j
       PROVE FALSE
  <2>1. PICK k \in 1..N : i = entries[k]
    BY <1>4, <1>5, <1>10
  <2>2. PICK m \in 1..N : j = entries[m]
    BY <1>4, <1>5, <1>10
  <2>3. Beats(i, j) /\ Beats(j, i)
    BY <1>5, <1>10
  <2>4. Specificity(i) \in Nat /\ Specificity(j) \in Nat /\ i.name \in Nat /\ j.name \in Nat
    BY <1>2, <2>1, <2>2
  <2> QED BY <2>3, <2>4 DEF Beats
<1>11. \A i \in Ranked(entries, img) : i \in Section
  BY <1>1, <1>4, <1>5
<1> QED BY <1>9, <1>10, <1>11 DEF N

\* The labels of a container give one value: that of the closest place.
LEMMA ClosestLabel ==
  ASSUME NEW P, P \subseteq Places, P # {}, ~MixedKeys(P), ~MixedLevels(P)
  PROVE  FromLabels(P) = {Closest(P)} /\ Closest(P) \in Places
<1> DEFINE in(l, k) == <<l, k>> \in P
           Levels == {"container", "task", "deploy"}
           eff(l, k) == /\ in(l, k)
                        /\ l = "task" => ~in("container", k)
                        /\ l = "deploy" => ~in("container", k) /\ ~in("task", k)
           E == Effective(P)
           F == FromLabels(P)
<1>1. \A p \in P : \E l \in Levels, k \in {"dd", "wud"} : p = <<l, k>>
  BY DEF Places, Keys
<1>2. ASSUME NEW l \in Levels, NEW k \in {"dd", "wud"}
      PROVE <<l, k>> \in E <=> eff(l, k)
  <2>1. <<l, k>> \in E <=> in(l, k) /\ \A q \in P : q[2] = k =>
           l = "container" \/ q[1] = l \/ (l = "task" /\ q[1] = "deploy")
    BY DEF Effective
  <2>2. <<l, k>> \in E <=> in(l, k) /\ \A m \in Levels : in(m, k) =>
           l = "container" \/ m = l \/ (l = "task" /\ m = "deploy")
    BY <1>1, <2>1
  <2> QED BY <2>2
<1>3. E \subseteq P
  BY DEF Effective
<1>4. (\A q \in E : q[2] = "wud") <=> \A l \in Levels : ~in(l, "dd")
  <2>1. (\A q \in E : q[2] = "wud") <=> \A l \in Levels : <<l, "dd">> \notin E
    <3>1. \A l : <<l, "dd">>[2] = "dd" /\ <<l, "wud">>[2] = "wud"
      OBVIOUS
    <3> QED BY <1>1, <1>3, <3>1
  <2> QED BY <1>2, <2>1
<1>5. ASSUME NEW l \in Levels
      PROVE /\ <<l, "dd">> \in F <=> eff(l, "dd")
            /\ <<l, "wud">> \in F <=> eff(l, "wud") /\ \A m \in Levels : ~in(m, "dd")
  <2>1. <<l, "dd">> \in F <=> <<l, "dd">> \in E
    BY DEF FromLabels
  <2>2. <<l, "wud">> \in F <=> <<l, "wud">> \in E /\ \A q \in E : q[2] = "wud"
    BY DEF FromLabels
  <2> QED BY <1>2, <1>4, <2>1, <2>2
<1>6. F \subseteq P
  BY <1>3 DEF FromLabels
<1>7. MixedKeys(P) <=> in("container", "wud") /\ ~in("container", "dd") /\ \E m \in Levels : in(m, "dd")
  <2>1. (\E p \in P : p[2] = "dd") <=> \E m \in Levels : in(m, "dd")
    <3>1. \A l : <<l, "dd">>[2] = "dd" /\ <<l, "wud">>[2] = "wud"
      OBVIOUS
    <3> QED BY <1>1, <3>1
  <2> QED BY <2>1 DEF MixedKeys
<1>8. \A m \in Levels : (\E p \in P : p[1] = m) <=> in(m, "dd") \/ in(m, "wud")
  <2>1. \A l, k : <<l, k>>[1] = l
    OBVIOUS
  <2> QED BY <1>1, <2>1
<1> DEFINE level == CASE \E p \in P : p[1] = "container" -> "container"
                      [] ~(\E p \in P : p[1] = "container")
                         /\ (\E p \in P : p[1] = "task") -> "task"
                      [] OTHER -> "deploy"
<1>9. level = IF in("container", "dd") \/ in("container", "wud") THEN "container"
              ELSE IF in("task", "dd") \/ in("task", "wud") THEN "task" ELSE "deploy"
  BY <1>8
<1>10. \A m : (\E p \in {q \in P : q[1] = m} : p[2] = "dd") <=> in(m, "dd")
  <2>1. \A l, k : <<l, k>>[1] = l /\ <<l, k>>[2] = k
    OBVIOUS
  <2>2. \A p \in P : p = <<p[1], p[2]>>
    BY <1>1
  <2> QED BY <2>1, <2>2
<1>11. Closest(P) = IF in(level, "dd") THEN <<level, "dd">> ELSE <<level, "wud">>
  <2> HIDE DEF in
  <2> QED BY <1>10 DEF Closest
<1> HIDE DEF level, E, F
<1>12. level \in Levels
  BY <1>9
<1>13. in(level, "dd") \/ in(level, "wud")
  <2>1. \E l \in Levels : in(l, "dd") \/ in(l, "wud")
    BY <1>1
  <2> HIDE DEF in
  <2> QED BY <1>9, <2>1
<1>14. MixedLevels(P) <=> in("task", "wud") /\ ~in("task", "dd") /\ in("deploy", "dd")
  BY DEF MixedLevels
<1>15. \A l \in Levels, k \in {"dd", "wud"} : <<l, k>> \in F <=> <<l, k>> = Closest(P)
  <2>1. ASSUME NEW l \in Levels PROVE <<l, "dd">> \in F <=> l = level /\ in(level, "dd")
    <3> HIDE DEF in
    <3> QED BY <1>5, <1>7, <1>9, <1>13, <1>14
  <2>2. ASSUME NEW l \in Levels PROVE <<l, "wud">> \in F <=> l = level /\ ~in(level, "dd")
    <3> HIDE DEF in
    <3> QED BY <1>5, <1>7, <1>9, <1>13, <1>14
  <2> QED BY <1>11, <2>1, <2>2
<1>16. \E l \in Levels, k \in {"dd", "wud"} : Closest(P) = <<l, k>>
  BY <1>11, <1>12
<1>17. FromLabels(P) = {Closest(P)}
  BY <1>1, <1>6, <1>15, <1>16 DEF F
<1>18. Closest(P) \in Places
  BY <1>16 DEF Places, Keys
<1> QED BY <1>17, <1>18

\* The display name a container gets is the declared one, or its name.
LEMMA DisplayAsDeclared ==
  ASSUME NEW P, P \subseteq Places, ~MixedKeys(P), ~MixedLevels(P),
         NEW entries \in Orders, NEW img, NEW name
  PROVE  /\ DisplayOf(P, entries, img, name)
              = IF DeclaredOf(P, entries, img) = FromName THEN Named(name)
                ELSE DeclaredOf(P, entries, img)
         /\ P # {} => DeclaredOf(P, entries, img) = Closest(P)
         /\ \/ DeclaredOf(P, entries, img) = FromName
            \/ DeclaredOf(P, entries, img)[1] # "name"
<1> DEFINE R == Ranked(entries, img)
<1>1. \A l, k : l # "name" => <<l, k>> # FromName /\ <<l, k>>[1] # "name"
  <2>1. \A l, k : <<l, k>>[1] = l /\ FromName[1] = "name"
    BY DEF FromName
  <2> QED BY <2>1
<1>2. CASE P # {}
  <2>1. FromLabels(P) = {Closest(P)} /\ Closest(P) \in Places
    BY <1>2, ClosestLabel
  <2>2. DeclaredOf(P, entries, img) = Closest(P)
    BY <1>2 DEF DeclaredOf
  <2>3. Closest(P) # FromName /\ Closest(P)[1] # "name"
    <3>1. \E l \in {"container", "task", "deploy"} : \E k \in Keys : Closest(P) = <<l, k>>
      BY <2>1 DEF Places
    <3> QED BY <1>1, <3>1
  <2>4. Merged(P, entries, img) = {Closest(P)}
    BY <2>1 DEF Merged
  <2>5. DisplayOf(P, entries, img, name) = Closest(P)
    BY <2>4 DEF DisplayOf
  <2> QED BY <2>2, <2>3, <2>5
<1>3. CASE P = {}
  <2>1. FromLabels(P) = {}
    BY <1>3 DEF FromLabels, Effective
  <2>2. Best(entries, img) = R
    BY BestIsTop, RankedIsTop
  <2>3. Merged(P, entries, img) = {<<"imgset", i.name>> : i \in {b \in R : b.named}}
    BY <2>1, <2>2 DEF Merged, FromImgset
  <2>4. \A i, j \in R : i = j
    BY RankedIsTop
  <2>5. CASE \E i \in R : i.named
    <3>1. PICK i \in R : i.named
      BY <2>5
    <3>2. R = {i}
      BY <2>4
    <3> HIDE DEF R
    <3>3. {b \in R : b.named} = {i}
      BY <3>1, <3>2
    <3>4. Merged(P, entries, img) = {<<"imgset", i.name>>}
      BY <2>3, <3>3
    <3>5. DisplayOf(P, entries, img, name) = <<"imgset", i.name>>
      BY <3>4 DEF DisplayOf
    <3>6. (CHOOSE j \in R : TRUE) = i
      BY <3>2
    <3>7. DeclaredOf(P, entries, img) = <<"imgset", i.name>>
      BY <1>3, <2>5, <3>6 DEF DeclaredOf, R
    <3>8. <<"imgset", i.name>> # FromName /\ <<"imgset", i.name>>[1] # "name"
      BY <1>1
    <3> QED BY <1>3, <3>5, <3>7, <3>8
  <2>6. CASE ~(\E i \in R : i.named)
    <3>1. Merged(P, entries, img) = {}
      BY <2>3, <2>6
    <3>2. DisplayOf(P, entries, img, name)
            = IF img.path \in Drydock THEN <<"drydock", "">> ELSE Named(name)
      BY <3>1 DEF DisplayOf
    <3>3. DeclaredOf(P, entries, img)
            = IF img.path \in Drydock THEN <<"drydock", "">> ELSE FromName
      BY <1>3, <2>6 DEF DeclaredOf
    <3>4. <<"drydock", "">> # FromName /\ <<"drydock", "">>[1] # "name"
      BY <1>1
    <3> QED BY <1>3, <3>2, <3>3, <3>4
  <2> QED BY <2>5, <2>6
<1> QED BY <1>2, <1>3

\* What holds of every document: its display name is the declared one; a
\* container with a label of its own was declared by it.
Shown(c) ==
  IsStored(c) /\ declared[c] # Unnamed =>
    /\ stored[c].display = IF declared[c] = FromName THEN Named(stored[c].name) ELSE declared[c]
    /\ own[c] # {} => declared[c] = OwnLabel(c)
    /\ declared[c] = FromName \/ declared[c][1] # "name"

FarPlaces == Places \ ({"container"} \X Keys)
DetailsInv ==
  /\ own \in [Box -> SUBSET Keys] /\ imgsets \in Orders
  /\ offered \in [SwarmServices -> SUBSET FarPlaces]
  /\ DOMAIN answer = SwarmServices /\ \A s \in SwarmServices : answer[s].labels \subseteq FarPlaces
  /\ DOMAIN stored = Box /\ DOMAIN declared = Box
  /\ \A c \in Box : Shown(c)

LEMMA DetailsInitInv ==
  ASSUME DetailsInit
  PROVE  DetailsInv
<1>1. \A c \in Box : ~IsStored(c)
  BY DEF DetailsInit, IsStored, NotStored
<1>2. own \in [Box -> SUBSET Keys] /\ imgsets \in Orders
      /\ offered \in [SwarmServices -> SUBSET FarPlaces]
  BY DEF DetailsInit, FarPlaces
<1>3. DOMAIN answer = SwarmServices /\ \A s \in SwarmServices : answer[s].labels \subseteq FarPlaces
  BY DEF DetailsInit, NoAnswer
<1>4. DOMAIN stored = Box /\ DOMAIN declared = Box
  BY DEF DetailsInit
<1> QED BY <1>1, <1>2, <1>3, <1>4 DEF DetailsInv, Shown

\* A document that stays as it is, with its labels, stays shown as declared.
LEMMA ShownStays ==
  ASSUME NEW c, Shown(c), stored'[c] = stored[c], declared'[c] = declared[c], own' = own
  PROVE  Shown(c)'
BY DEF Shown, IsStored, OwnLabel

LEMMA DetailKeeps ==
  ASSUME DetailsInv, NEW c \in Box, Detail(c)
  PROVE  DetailsInv'
<1> DEFINE P == LabelsOf(c)
           e == imgsets
           i == ImageOf[c]
<1>1. own' = own /\ offered' = offered /\ imgsets' = imgsets /\ answer' = answer
  BY DEF Detail, environment
<1>2. CASE IsStored(c)
  <2>1. stored' = stored /\ declared' = declared
    BY <1>2 DEF Detail
  <2> QED BY <1>1, <2>1, ShownStays DEF DetailsInv
<1>3. CASE ~IsStored(c)
  <2>1. stored' = [stored EXCEPT ![c] =
               [name |-> named[c], labels |-> Effective(P), display |-> DisplayOf(P, e, i, named[c])]]
    BY <1>3 DEF Detail
  <2>2. declared' = [declared EXCEPT ![c] =
               IF MixedKeys(P) \/ MixedLevels(P) THEN Unnamed ELSE DeclaredOf(P, e, i)]
    BY <1>3 DEF Detail
  <2>3. own[c] \in SUBSET Keys /\ OwnPlaces(c) \subseteq Places
    BY DEF DetailsInv, OwnPlaces, Places
  <2>4. \A p \in P : p \in OwnPlaces(c) \/ p \in FarPlaces
    <3>1. CASE Service[c] = NoService
      BY <3>1 DEF LabelsOf
    <3>2. CASE Service[c] # NoService
      <4>1. Service[c] \in SwarmServices
        BY <3>2 DEF SwarmServices
      <4>2. answer[Service[c]].labels \subseteq FarPlaces
        BY <4>1 DEF DetailsInv
      <4> QED BY <3>2, <4>2 DEF LabelsOf
    <3> QED BY <3>1, <3>2
  <2>5. P \subseteq Places
    BY <2>3, <2>4 DEF FarPlaces
  <2>6. ASSUME own[c] # {} PROVE P # {} /\ Closest(P) = OwnLabel(c)
    <3>1. \A k : <<"container", k>> \in P <=> k \in own[c]
      <4>1. \A k : <<"container", k>> \in OwnPlaces(c) <=> k \in own[c]
        BY DEF OwnPlaces
      <4>2. \A k : <<"container", k>> \notin FarPlaces
        BY DEF FarPlaces, Places
      <4>3. OwnPlaces(c) \subseteq P
        BY DEF LabelsOf
      <4> QED BY <2>4, <4>1, <4>2, <4>3
    <3>2. PICK k \in own[c] : TRUE
      BY <2>6
    <3>3. <<"container", k>> \in P
      BY <3>1, <3>2
    <3>4. \E p \in P : p[1] = "container"
      BY <3>3
    <3>5. (\E p \in {q \in P : q[1] = "container"} : p[2] = "dd") <=> <<"container", "dd">> \in P
      <4>1. \A p \in P : p = <<p[1], p[2]>>
        BY <2>5 DEF Places
      <4> QED BY <4>1
    <3> HIDE DEF P
    <3> QED BY <3>1, <3>3, <3>4, <3>5 DEF Closest, OwnLabel
  <2>7. stored'[c] = [name |-> named[c], labels |-> Effective(P), display |-> DisplayOf(P, e, i, named[c])]
        /\ declared'[c] = IF MixedKeys(P) \/ MixedLevels(P) THEN Unnamed ELSE DeclaredOf(P, e, i)
    BY <2>1, <2>2 DEF DetailsInv
  <2>8. Shown(c)'
    <3>1. CASE MixedKeys(P) \/ MixedLevels(P)
      <4> HIDE DEF P
      <4> QED BY <2>7, <3>1 DEF Shown
    <3>2. CASE ~MixedKeys(P) /\ ~MixedLevels(P)
      <4>1. e \in Orders
        BY DEF DetailsInv
      <4> HIDE DEF P, e, i
      <4>2. /\ DisplayOf(P, e, i, named[c])
                 = IF DeclaredOf(P, e, i) = FromName THEN Named(named[c]) ELSE DeclaredOf(P, e, i)
            /\ P # {} => DeclaredOf(P, e, i) = Closest(P)
            /\ DeclaredOf(P, e, i) = FromName \/ DeclaredOf(P, e, i)[1] # "name"
        BY <2>5, <3>2, <4>1, DisplayAsDeclared
      <4>3. stored'[c].display = DisplayOf(P, e, i, named[c]) /\ stored'[c].name = named[c]
        BY <2>7
      <4>4. declared'[c] = DeclaredOf(P, e, i)
        BY <2>7, <3>2
      <4>5. OwnLabel(c)' = OwnLabel(c)
        BY <1>1 DEF OwnLabel
      <4> QED BY <1>1, <2>6, <4>2, <4>3, <4>4, <4>5 DEF Shown
    <3> QED BY <3>1, <3>2
  <2>9. ASSUME NEW d \in Box, d # c PROVE Shown(d)'
    <3>1. stored'[d] = stored[d] /\ declared'[d] = declared[d]
      BY <2>1, <2>2, <2>9 DEF DetailsInv
    <3> QED BY <1>1, <3>1, ShownStays DEF DetailsInv
  <2>10. DOMAIN stored' = Box /\ DOMAIN declared' = Box
    BY <2>1, <2>2 DEF DetailsInv
  <2>11. \A d \in Box : Shown(d)'
    BY <2>8, <2>9
  <2> QED BY <1>1, <2>10, <2>11 DEF DetailsInv
<1> QED BY <1>2, <1>3

LEMMA InspectedKeeps ==
  ASSUME DetailsInv, NEW c \in Box, Inspected(c)
  PROVE  DetailsInv'
<1>1. own' = own /\ offered' = offered /\ imgsets' = imgsets /\ answer' = answer /\ declared' = declared
  BY DEF Inspected, environment
<1>2. stored' = [stored EXCEPT ![c] = [name |-> named[c], display |-> Renamed(c),
                                      labels |-> Effective(OwnPlaces(c))]]
  BY DEF Inspected
<1>3. IsStored(c) /\ Shown(c)
  BY DEF Inspected, DetailsInv
<1>4. stored'[c].name = named[c] /\ stored'[c].display = Renamed(c)
  BY <1>2 DEF DetailsInv
<1>5. OwnLabel(c)' = OwnLabel(c)
  BY <1>1 DEF OwnLabel
<1>6. \A n, m : Named(n) = Named(m) => n = m
  BY DEF Named
<1>7. \A n : Named(n)[1] = "name"
  BY DEF Named
<1>8. "name" # "container" /\ OwnLabel(c)[1] = "container" /\ OwnLabel(c) # FromName
  BY DEF OwnLabel, FromName
<1>9. Shown(c)'
  <2> SUFFICES ASSUME declared[c] # Unnamed PROVE Shown(c)'
    BY <1>1 DEF Shown
  <2>1. /\ stored[c].display = IF declared[c] = FromName THEN Named(stored[c].name) ELSE declared[c]
        /\ own[c] # {} => declared[c] = OwnLabel(c)
        /\ declared[c] = FromName \/ declared[c][1] # "name"
    BY <1>3 DEF Shown
  <2>2. Renamed(c) = IF declared[c] = FromName THEN Named(named[c]) ELSE declared[c]
    <3>1. CASE own[c] # {}
      BY <1>8, <2>1, <3>1 DEF Renamed
    <3>2. CASE own[c] = {} /\ declared[c] = FromName
      BY <2>1, <3>2 DEF Renamed, WasName
    <3>3. CASE own[c] = {} /\ declared[c] # FromName
      <4>1. stored[c].display # Named(stored[c].name)
        BY <1>7, <2>1, <3>3
      <4> QED BY <2>1, <3>3, <4>1 DEF Renamed, WasName
    <3> QED BY <3>1, <3>2, <3>3
  <2> QED BY <1>1, <1>4, <1>5, <2>1, <2>2 DEF Shown
<1>10. ASSUME NEW d \in Box, d # c PROVE Shown(d)'
  <2>1. stored'[d] = stored[d] /\ declared'[d] = declared[d]
    BY <1>1, <1>2, <1>10 DEF DetailsInv
  <2> QED BY <1>1, <2>1, ShownStays DEF DetailsInv
<1>11. DOMAIN stored' = Box
  BY <1>2 DEF DetailsInv
<1>12. \A d \in Box : Shown(d)'
  BY <1>9, <1>10
<1> QED BY <1>1, <1>11, <1>12 DEF DetailsInv

LEMMA DetailsNextInv ==
  ASSUME DetailsInv, [DetailsNext]_detailVars
  PROVE  DetailsInv'
<1>1. ASSUME own' = own, imgsets' \in Orders, offered' = offered, stored' = stored,
             declared' = declared, DOMAIN answer' = SwarmServices,
             \A s \in SwarmServices : answer'[s].labels \subseteq FarPlaces
      PROVE DetailsInv'
  <2>1. \A c \in Box : Shown(c)'
    BY <1>1, ShownStays DEF DetailsInv
  <2> QED BY <1>1, <2>1 DEF DetailsInv
<1>2. CASE List
  <2>1. DOMAIN answer' = SwarmServices /\ \A s \in SwarmServices : answer'[s].labels \subseteq FarPlaces
    BY <1>2 DEF List, NoAnswer
  <2> QED BY <1>1, <1>2, <2>1 DEF List, environment, DetailsInv
<1>3. CASE Reconfigure
  <2>1. DOMAIN answer' = SwarmServices /\ \A s \in SwarmServices : answer'[s].labels \subseteq FarPlaces
    BY <1>3 DEF Reconfigure, NoAnswer
  <2> QED BY <1>1, <1>3, <2>1 DEF Reconfigure
<1>4. ASSUME NEW s \in SwarmServices, ServiceAnswers(s) PROVE DetailsInv'
  <2>1. PICK labels \in {offered[s], {}} :
          answer' = [answer EXCEPT ![s] = [at |-> "done", labels |-> labels]]
    BY <1>4 DEF ServiceAnswers
  <2>2. labels \subseteq FarPlaces
    BY DEF DetailsInv
  <2>3. DOMAIN answer' = SwarmServices /\ \A t \in SwarmServices : answer'[t].labels \subseteq FarPlaces
    BY <2>1, <2>2 DEF DetailsInv
  <2> QED BY <1>1, <1>4, <2>3 DEF ServiceAnswers, environment, DetailsInv
<1>5. ASSUME NEW s \in SwarmServices, Redeploy(s) PROVE DetailsInv'
  <2>1. own' = own /\ offered' = offered /\ imgsets' = imgsets /\ answer' = answer
    BY <1>5 DEF Redeploy, environment
  <2>2. ASSUME NEW c \in Box PROVE Shown(c)'
    <3>1. CASE Service[c] = s
      <4>1. stored'[c].display = Unnamed
        BY <1>5, <3>1 DEF Redeploy, NotStored
      <4> QED BY <4>1 DEF Shown, IsStored
    <3>2. CASE Service[c] # s
      <4>1. stored'[c] = stored[c] /\ declared'[c] = declared[c]
        BY <1>5, <3>2 DEF Redeploy
      <4> QED BY <2>1, <4>1, ShownStays DEF DetailsInv
    <3> QED BY <3>1, <3>2
  <2>3. DOMAIN stored' = Box /\ DOMAIN declared' = Box
    BY <1>5 DEF Redeploy
  <2> QED BY <2>1, <2>2, <2>3 DEF DetailsInv
<1>6. ASSUME NEW c \in Box, Rename(c) PROVE DetailsInv'
  BY <1>1, <1>6 DEF Rename, DetailsInv
<1>7. CASE UNCHANGED detailVars
  BY <1>1, <1>7 DEF detailVars, DetailsInv
<1> QED BY <1>2, <1>3, <1>4, <1>5, <1>6, <1>7, DetailKeeps, InspectedKeeps DEF DetailsNext

\* DisplayIsDeclared: for any containers, labels, services that answer or do
\* not, imgsets in any order, renames, events, redeployments and restarts, a
\* document has the display name that was declared.
THEOREM DisplayStaysDeclared == DetailsSpec => []DisplayIsDeclared
<1>1. DetailsInit => DetailsInv
  BY DetailsInitInv
<1>2. DetailsInv /\ [DetailsNext]_detailVars => DetailsInv'
  BY DetailsNextInv
<1>3. DetailsInv => DisplayIsDeclared
  BY DEF DetailsInv, Shown, DisplayIsDeclared
<1> QED BY <1>1, <1>2, <1>3, PTL DEF DetailsSpec
---------------------------------------------------------------------------------
(***************************************************************************)
(* A service runs what its compose file declares, for any services, files, *)
(* releases and batches that overlap.                                      *)
(***************************************************************************)
\* A listing of a finite set lists each of its elements.
LEMMA OrderListsAll ==
  ASSUME NEW S, IsFiniteSet(S), NEW listing \in SetToSeqs(S)
  PROVE  /\ Len(listing) \in Nat /\ listing \in [1..Len(listing) -> S]
         /\ \A m, n \in 1..Len(listing) : listing[m] = listing[n] => m = n
         /\ \A e \in S : \E n \in 1..Len(listing) : listing[n] = e
<1> DEFINE N == Cardinality(S)
<1>1. N \in Nat
  BY FS_CardinalityType
<1>2. listing \in [1..N -> S] /\ \A i, j \in 1..N : i # j => listing[i] # listing[j]
  BY DEF SetToSeqs
<1>3. listing \in Seq(S) /\ Len(listing) = N
  <2> HIDE DEF N
  <2> QED BY <1>1, <1>2
<1>4. listing \in Injection(1..N, S)
  BY <1>2 DEF Injection, IsInjective
<1>5. IsFiniteSet(1..N) /\ Cardinality(1..N) = N
  <2>1. 0 - 0 + N = N /\ 1 \in Int /\ N \in Int /\ (1 > N <=> N = 0) /\ N - 1 + 1 = N
    <3> HIDE DEF N
    <3> QED BY <1>1
  <2>2. IsFiniteSet(1..N) /\ Cardinality(1..N) = IF 1 > N THEN 0 ELSE N - 1 + 1
    <3> HIDE DEF N
    <3> QED BY <2>1, FS_Interval
  <2> QED BY <2>1, <2>2
<1>6. listing \in Surjection(1..N, S)
  <2>1. Cardinality(1..N) = Cardinality(S)
    BY <1>5
  <2> HIDE DEF N
  <2> QED BY <1>4, <2>1, FS_Injection
<1>7. \A e \in S : \E n \in 1..N : listing[n] = e
  BY <1>6 DEF Surjection
<1> HIDE DEF N
<1> QED BY <1>1, <1>2, <1>3, <1>7

\* A service that an edit is for gets the update, and one that no edit is for
\* stays, unless it is spoilt: by induction over the replacements, first that
\* the loop has its texts, then what they say of the service.
LEMMA EditIsExact ==
  ASSUME NEW call, IsFiniteSet(call.edits), NEW listing \in SetToSeqs(call.edits),
         NEW s \in Svc, s \notin Spoilt(call), FileOf[s] = Head(call.files),
         \A d, e \in call.edits : d.svc = e.svc => d = e
  PROVE  /\ \A e \in call.edits : e.svc = s => Edited(call, listing)[s] = e.update
         /\ (\A e \in call.edits : e.svc # s) => Edited(call, listing)[s] = inFile[s]
<1> DEFINE N == Len(listing)
           step(g, n) == IF n = 0 THEN call.text
                         ELSE Replaced(g[n - 1], listing[n].current, listing[n].update)
           From(g, m) == DOMAIN g = 0..m /\ \A n \in 0..m : g[n] = step(g, n)
           Bad == {m \in 0..N : ~\E g : From(g, m)}
           text == CHOOSE g : g = [n \in 0..N |-> step(g, n)]
<1>1. /\ N \in Nat /\ listing \in [1..N -> call.edits]
      /\ \A m, n \in 1..N : listing[m] = listing[n] => m = n
      /\ \A e \in call.edits : \E n \in 1..N : listing[n] = e
  BY OrderListsAll
<1> HIDE DEF N
<1>2. ASSUME Bad # {} PROVE FALSE
  <2>1. PICK m \in Bad : \A k \in Bad : m <= k
    <3>1. Bad \subseteq Nat
      BY <1>1
    <3> HIDE DEF Bad
    <3> QED BY <1>2, <3>1, LeastOf
  <2>2. m \in 0..N /\ ~\E g : From(g, m)
    BY <2>1
  <2>3. m # 0
    <3>1. SUFFICES ASSUME m = 0 PROVE \E g : From(g, m)
      BY <2>2
    <3> DEFINE g == [n \in 0..0 |-> call.text]
    <3>2. DOMAIN g = 0..0 /\ \A n \in 0..0 : n = 0 /\ g[n] = call.text
      OBVIOUS
    <3>3. From(g, 0)
      <4> HIDE DEF g
      <4> QED BY <3>2
    <3> HIDE DEF From
    <3> QED BY <3>1, <3>3
  <2>4. m - 1 \in 0..N /\ ~(m <= m - 1) /\ m \in Nat \ {0}
    <3> HIDE DEF From
    <3> QED BY <1>1, <2>2, <2>3
  <2>5. \E g : From(g, m - 1)
    <3>1. m - 1 \notin Bad
      <4> HIDE DEF Bad
      <4> QED BY <2>1, <2>4
    <3> HIDE DEF From
    <3> QED BY <2>4, <3>1
  <2>6. PICK g : From(g, m - 1)
    BY <2>5
  <2> DEFINE h == [n \in 0..m |-> IF n = m THEN step(g, m) ELSE g[n]]
  <2>7. \A n \in 0..m : n = m \/ n \in 0..(m - 1)
    BY <2>4
  <2>8. \A n \in 0..m : n # 0 => n - 1 \in 0..m /\ n - 1 # m
    BY <2>4
  <2>9. \A n \in 0..m : h[n] = step(h, n)
    <3> SUFFICES ASSUME NEW n \in 0..m PROVE h[n] = step(h, n)
      OBVIOUS
    <3>1. n # 0 => h[n - 1] = g[n - 1]
      BY <2>8
    <3>2. step(h, n) = step(g, n)
      <4> HIDE DEF h
      <4> QED BY <3>1
    <3>3. CASE n = m
      BY <3>2, <3>3
    <3>4. CASE n # m
      <4>1. h[n] = g[n] /\ n \in 0..(m - 1)
        BY <2>7, <3>4
      <4> HIDE DEF step, h
      <4> QED BY <2>6, <3>2, <4>1
    <3> QED BY <3>3, <3>4
  <2>10. From(h, m)
    <3>1. DOMAIN h = 0..m
      OBVIOUS
    <3> HIDE DEF h, step
    <3> QED BY <2>9, <3>1
  <2> HIDE DEF From
  <2> QED BY <2>2, <2>10
<1>3. \E g : From(g, N)
  <2>1. N \in 0..N
    BY <1>1
  <2> HIDE DEF From
  <2> QED BY <1>2, <2>1
<1>4. \A n \in 0..N : text[n] = step(text, n)
  <2>1. PICK g : From(g, N)
    BY <1>3
  <2> DEFINE h == [n \in 0..N |-> g[n]]
  <2>2. ASSUME NEW n \in 0..N PROVE h[n] = step(h, n)
    <3>1. n # 0 => n - 1 \in 0..N
      BY <1>1
    <3>2. n # 0 => h[n - 1] = g[n - 1]
      BY <3>1
    <3> HIDE DEF h
    <3>3. step(h, n) = step(g, n)
      BY <3>2
    <3> HIDE DEF step
    <3> QED BY <2>1, <3>3 DEF h
  <2>3. h = [n \in 0..N |-> step(h, n)]
    <3> HIDE DEF step
    <3> QED BY <2>2
  <2>4. text = [n \in 0..N |-> step(text, n)]
    <3> HIDE DEF step
    <3> QED BY <2>3
  <2> HIDE DEF step, text
  <2> QED BY <2>4
<1>5. Edited(call, listing)[s] = text[N][s]
  BY DEF Edited, N
<1>6. /\ call.text[s] = inFile[s]
      /\ \A e \in call.edits : /\ s # e.svc => call.text[s] # e.current
                               /\ s = e.svc => call.text[s] = e.current
                               /\ <<e.current, call.text[s]>> \notin Within
      /\ \A d, e \in call.edits : d.svc = s /\ e.svc # s =>
            d.update # e.current /\ <<e.current, d.update>> \notin Within
  BY DEF Spoilt
<1> HIDE DEF text
<1>11. N \in Nat /\ text[0] = call.text
  BY <1>1, <1>4
<1> DEFINE Done(n) == \E k \in 1..n : listing[k].svc = s
           Exact(n) == /\ ~Done(n) => text[n][s] = call.text[s]
                       /\ \A k \in 1..n : listing[k].svc = s => text[n][s] = listing[k].update
           Wrong == {n \in 0..N : ~Exact(n)}
<1>7. ASSUME Wrong # {} PROVE FALSE
  <2>1. PICK n \in Wrong : \A k \in Wrong : n <= k
    <3>1. Wrong \subseteq Nat
      BY <1>1
    <3> HIDE DEF Wrong
    <3> QED BY <1>7, <3>1, LeastOf
  <2>2. n \in 0..N /\ ~Exact(n)
    BY <2>1
  <2>3. n # 0
    <3>1. SUFFICES ASSUME n = 0 PROVE Exact(0)
      BY <2>2
    <3>2. text[0] = call.text
      BY <1>11, Zenon
    <3>3. \A k \in 1..0 : FALSE
      OBVIOUS
    <3> QED BY <3>2, <3>3
  <2>4. n - 1 \in 0..N /\ ~(n <= n - 1) /\ n \in 1..N
    <3> HIDE DEF Exact
    <3> QED BY <1>1, <2>2, <2>3
  <2>5. Exact(n - 1)
    <3>1. n - 1 \notin Wrong
      <4> HIDE DEF Wrong
      <4> QED BY <2>1, <2>4
    <3> HIDE DEF Exact
    <3> QED BY <2>4, <3>1
  <2>6. text[n] = Replaced(text[n - 1], listing[n].current, listing[n].update)
    BY <1>4, <2>2, <2>3
  <2> DEFINE c == listing[n].current
             u == listing[n].update
             t == text[n - 1][s]
  <2>7. text[n][s] = IF t = c THEN u ELSE IF <<c, t>> \in Within THEN Garbled ELSE t
    BY <2>6 DEF Replaced
  <2>8. listing[n] \in call.edits
    BY <1>1, <2>4
  <2>9. \A k \in 1..n : k = n \/ k \in 1..(n - 1)
    BY <2>4
  <2>10. \A k \in 1..(n - 1) : k \in 1..n /\ k \in 1..N /\ k # n
    <3> HIDE DEF Exact
    <3> QED BY <1>11, <2>4
  <2>11. CASE listing[n].svc = s
    <3>1. ~Done(n - 1)
      <4>1. ASSUME NEW k \in 1..(n - 1), listing[k].svc = s PROVE FALSE
        BY <1>1, <2>4, <2>8, <2>10, <2>11, <4>1
      <4> QED BY <4>1
    <3>2. t = call.text[s] /\ call.text[s] = c
      BY <1>6, <2>5, <2>8, <2>11, <3>1
    <3>3. text[n][s] = u
      BY <2>7, <3>2
    <3>4. \A k \in 1..n : listing[k].svc = s => k = n
      BY <2>9, <3>1
    <3>5. n \in 1..n
      BY <2>4
    <3> QED BY <2>2, <2>11, <3>3, <3>4, <3>5
  <2>12. CASE listing[n].svc # s
    <3>1. t # c /\ <<c, t>> \notin Within
      <4>1. CASE Done(n - 1)
        <5>1. PICK k \in 1..(n - 1) : listing[k].svc = s
          BY <4>1
        <5>2. t = listing[k].update /\ listing[k] \in call.edits
          BY <1>1, <2>5, <2>10, <5>1
        <5> QED BY <1>6, <2>8, <2>12, <5>1, <5>2
      <4>2. CASE ~Done(n - 1)
        <5>1. t = call.text[s]
          BY <2>5, <4>2
        <5> QED BY <1>6, <2>8, <2>12, <5>1
      <4> QED BY <4>1, <4>2
    <3>2. text[n][s] = t
      BY <2>7, <3>1
    <3>3. ~Done(n) => ~Done(n - 1)
      BY <2>10
    <3>4. \A k \in 1..n : listing[k].svc = s => k \in 1..(n - 1)
      BY <2>9, <2>12
    <3> HIDE DEF Done
    <3> QED BY <2>2, <2>5, <3>2, <3>3, <3>4
  <2> QED BY <2>11, <2>12
<1>8. Exact(N)
  <2>1. N \in 0..N
    BY <1>1
  <2> HIDE DEF Exact
  <2> QED BY <1>7, <2>1
<1>9. ASSUME NEW e \in call.edits, e.svc = s PROVE text[N][s] = e.update
  BY <1>1, <1>8, <1>9
<1>10. ASSUME \A e \in call.edits : e.svc # s PROVE text[N][s] = inFile[s]
  <2>1. ~Done(N)
    BY <1>1, <1>10
  <2> QED BY <1>6, <1>8, <2>1
<1> QED BY <1>5, <1>9, <1>10

\* What a call wants and is about to do: of each service the update it has,
\* once, in the file at hand; the calls of a dry run write nothing.
Updates(x) == x.svc \in Svc /\ x.update = newest[x.svc] /\ newest[x.svc] # Releases[x.svc][1]
CallOK(call) ==
  /\ DOMAIN call = {"at", "files", "wants", "edits", "text"}
  /\ IsFiniteSet(call.wants) /\ IsFiniteSet(call.edits)
  /\ \A w \in call.wants : Updates(w)
  /\ \A e \in call.edits : Updates(e)
  /\ \A d, e \in call.edits : d.svc = e.svc => d = e
  /\ call.at \in {"read", "write"} => ~dryrun /\ \A e \in call.edits : FileOf[e.svc] = Head(call.files)

\* A service that is not excused: what its file declares runs, or an update to
\* what it declares is pending.
Pending(s) == \E b \in Slot : batch[b].at = "update" /\ \E e \in batch[b].edits : e.svc = s
Applied(s) == /\ newest[s] = Releases[s][1] => runs[s] = Releases[s][1]
              /\ dryrun => runs[s] = inFile[s]
              /\ s \notin excused /\ ~dryrun =>
                   IF Pending(s) THEN inFile[s] = newest[s] ELSE runs[s] = inFile[s]

ComposeInv ==
  /\ DOMAIN batch = Slot /\ DOMAIN inFile = Svc /\ DOMAIN runs = Svc /\ newest = [s \in Svc |-> newest[s]]
  /\ \A b \in Slot : CallOK(batch[b])
  /\ \A s \in Svc : Applied(s)

LEMMA ComposeInitInv ==
  ASSUME ComposeInit
  PROVE  ComposeInv
<1>1. DOMAIN batch = Slot /\ DOMAIN inFile = Svc /\ DOMAIN runs = Svc /\ newest = [s \in Svc |-> newest[s]]
  BY DEF ComposeInit
<1>2. ASSUME NEW b \in Slot PROVE CallOK(batch[b]) /\ batch[b].at = "idle"
  <2>1. batch[b] = IdleBatch
    BY DEF ComposeInit
  <2>2. IsFiniteSet({})
    BY FS_EmptySet
  <2> QED BY <2>1, <2>2 DEF CallOK, IdleBatch
<1>3. \A s \in Svc : Applied(s)
  BY <1>2 DEF Applied, Pending, ComposeInit
<1> QED BY <1>1, <1>2, <1>3 DEF ComposeInv

\* The next file of a call, or its end.
LEMMA NextFileOK ==
  ASSUME NEW call, CallOK(call)
  PROVE  /\ CallOK(NextFile(call)) /\ NextFile(call).at \in {"idle", "parse"}
         /\ CallOK(IdleBatch) /\ IdleBatch.at = "idle"
<1>1. IsFiniteSet({})
  BY FS_EmptySet
<1>2. CallOK(IdleBatch) /\ IdleBatch.at = "idle"
  BY <1>1 DEF CallOK, IdleBatch
<1> DEFINE next == [call EXCEPT !.at = "parse", !.files = Tail(call.files), !.edits = {}]
<1>3. CASE Len(call.files) # 1
  <2>1. NextFile(call) = next
    BY <1>3 DEF NextFile
  <2>2. DOMAIN next = DOMAIN call /\ next.wants = call.wants /\ next.edits = {} /\ next.at = "parse"
    BY DEF CallOK
  <2> HIDE DEF next
  <2> QED BY <1>1, <1>2, <2>1, <2>2 DEF CallOK
<1>4. CASE Len(call.files) = 1
  BY <1>2, <1>4 DEF NextFile
<1> QED BY <1>2, <1>3, <1>4

\* What a step of one call leaves of the others.
LEMMA CallsStay ==
  ASSUME ComposeInv, NEW b \in Slot, NEW call, batch' = [batch EXCEPT ![b] = call],
         newest' = newest, dryrun' = dryrun, CallOK(call)'
  PROVE  /\ DOMAIN batch' = Slot /\ batch'[b] = call
         /\ \A o \in Slot : CallOK(batch[o])'
         /\ \A o \in Slot \ {b} : batch'[o] = batch[o]
<1>1. DOMAIN batch' = Slot /\ batch'[b] = call /\ \A o \in Slot \ {b} : batch'[o] = batch[o]
  BY DEF ComposeInv
<1>2. ASSUME NEW o \in Slot \ {b} PROVE CallOK(batch[o])'
  <2>1. CallOK(batch[o])
    BY DEF ComposeInv
  <2> QED BY <1>1, <2>1 DEF CallOK, Updates
<1>3. CallOK(batch[b])'
  BY <1>1
<1> QED BY <1>1, <1>2, <1>3

\* A step before the update of a call neither adds nor ends a pending one.
LEMMA SameSettled ==
  ASSUME ComposeInv, NEW b \in Slot, NEW call, batch' = [batch EXCEPT ![b] = call],
         batch[b].at # "update", call.at # "update" \/ dryrun,
         newest' = newest, dryrun' = dryrun, runs' = runs, inFile' = inFile, excused' = excused
  PROVE  \A s \in Svc : Applied(s)'
<1> SUFFICES ASSUME NEW s \in Svc PROVE Applied(s)'
  OBVIOUS
<1>1. Applied(s)
  BY DEF ComposeInv
<1>2. CASE dryrun
  BY <1>1, <1>2 DEF Applied
<1>3. CASE ~dryrun
  <2>1. batch'[b] = call /\ \A o \in Slot \ {b} : batch'[o] = batch[o]
    BY DEF ComposeInv
  <2>2. Pending(s)' <=> Pending(s)
    BY <1>3, <2>1 DEF Pending
  <2> QED BY <1>1, <1>3, <2>2 DEF Applied
<1> QED BY <1>2, <1>3

LEMMA TriggerKeeps ==
  ASSUME ComposeInv, NEW b \in Slot, TriggerBatch(b)
  PROVE  ComposeInv'
<1>1. PICK ss \in SUBSET {s \in Svc : newest[s] # runs[s]} :
       batch' = [batch EXCEPT ![b] =
         [at |-> "parse", text |-> NoText, edits |-> {},
          files |-> SelectSeq(Files, LAMBDA f : \E s \in ss : FileOf[s] = f),
          wants |-> {[svc |-> s, update |-> newest[s]] : s \in ss}]]
  BY DEF TriggerBatch
<1>2. inFile' = inFile /\ runs' = runs /\ newest' = newest /\ dryrun' = dryrun /\ excused' = excused
  BY DEF TriggerBatch
<1>3. \E files : batch' = [batch EXCEPT ![b] =
         [at |-> "parse", text |-> NoText, edits |-> {}, files |-> files,
          wants |-> {[svc |-> s, update |-> newest[s]] : s \in ss}]]
  BY <1>1, Zenon
<1>4. PICK files : batch' = [batch EXCEPT ![b] =
         [at |-> "parse", text |-> NoText, edits |-> {}, files |-> files,
          wants |-> {[svc |-> s, update |-> newest[s]] : s \in ss}]]
  BY <1>3
<1> DEFINE wants == {[svc |-> s, update |-> newest[s]] : s \in ss}
           call == [at |-> "parse", text |-> NoText, edits |-> {}, files |-> files, wants |-> wants]
<1>5. IsFiniteSet(wants) /\ IsFiniteSet({})
  <2>1. IsFiniteSet(ss)
    BY ComposeAssumption, FS_Subset
  <2> DEFINE f == [s \in ss |-> [svc |-> s, update |-> newest[s]]]
  <2>2. f \in Surjection(ss, wants)
    BY DEF Surjection
  <2>3. IsFiniteSet({})
    BY FS_EmptySet
  <2> HIDE DEF f, wants
  <2> QED BY <2>1, <2>2, <2>3, FS_Surjection
<1>6. ASSUME NEW w \in wants PROVE Updates(w)
  <2>1. PICK s \in ss : w = [svc |-> s, update |-> newest[s]]
    OBVIOUS
  <2>2. newest[s] # runs[s] /\ s \in Svc
    OBVIOUS
  <2>3. newest[s] # Releases[s][1]
    <3>1. Applied(s)
      BY <2>2 DEF ComposeInv
    <3>2. newest[s] = Releases[s][1] => runs[s] = Releases[s][1]
      BY <3>1 DEF Applied
    <3> QED BY <2>2, <3>2
  <2> QED BY <2>1, <2>2, <2>3 DEF Updates
<1>7. CallOK(call)'
  <2>1. call.at = "parse" /\ call.edits = {} /\ call.wants = wants
        /\ DOMAIN call = {"at", "files", "wants", "edits", "text"}
    OBVIOUS
  <2>2. \A w \in wants : Updates(w)'
    <3> HIDE DEF wants
    <3> QED BY <1>2, <1>6 DEF Updates
  <2>3. wants' = wants /\ call' = call
    BY <1>2
  <2> HIDE DEF call, wants
  <2> QED BY <1>5, <2>1, <2>2, <2>3 DEF CallOK
<1>8. DOMAIN batch' = Slot /\ \A o \in Slot : CallOK(batch[o])'
  <2>1. batch' = [batch EXCEPT ![b] = call]
    BY <1>4
  <2>2. call' = call
    BY <1>2
  <2> HIDE DEF call
  <2> QED BY <1>2, <1>7, <2>1, <2>2, CallsStay
<1>9. \A s \in Svc : Applied(s)'
  <2>1. batch' = [batch EXCEPT ![b] = call] /\ call.at # "update"
    BY <1>4
  <2>2. batch[b].at # "update"
    BY DEF TriggerBatch
  <2> HIDE DEF call
  <2> QED BY <1>2, <2>1, <2>2, SameSettled
<1> QED BY <1>2, <1>8, <1>9 DEF ComposeInv

LEMMA ParseKeeps ==
  ASSUME ComposeInv, NEW b \in Slot, ParseFile(b)
  PROVE  ComposeInv'
<1> DEFINE edits == EditsOf(batch[b])
           started == [batch[b] EXCEPT !.edits = edits, !.at = IF dryrun THEN "update" ELSE "read"]
<1>1. inFile' = inFile /\ runs' = runs /\ newest' = newest /\ dryrun' = dryrun /\ excused' = excused
      /\ batch[b].at = "parse"
  BY DEF ParseFile
<1>2. CallOK(batch[b])
  BY DEF ComposeInv
<1>3. \A call : CallOK(call) => CallOK(call)'
  BY <1>1 DEF CallOK, Updates
<1>4. CallOK(started)
  <2>1. IsFiniteSet(edits)
    <3> DEFINE W == {v \in batch[b].wants : FileOf[v.svc] = Head(batch[b].files) /\ inFile[v.svc] # v.update}
               f == [w \in W |-> [svc |-> w.svc, current |-> inFile[w.svc], update |-> w.update]]
    <3>1. IsFiniteSet(W)
      BY <1>2, FS_Subset DEF CallOK
    <3>2. f \in Surjection(W, edits)
      BY DEF Surjection, EditsOf
    <3> HIDE DEF W, f, edits
    <3> QED BY <3>1, <3>2, FS_Surjection
  <2>2. ASSUME NEW e \in edits
        PROVE /\ Updates(e) /\ FileOf[e.svc] = Head(batch[b].files)
              /\ e = [svc |-> e.svc, current |-> inFile[e.svc], update |-> newest[e.svc]]
    <3>1. PICK w \in batch[b].wants : /\ FileOf[w.svc] = Head(batch[b].files)
                                      /\ e = [svc |-> w.svc, current |-> inFile[w.svc], update |-> w.update]
      BY DEF EditsOf
    <3>2. Updates(w)
      BY <1>2 DEF CallOK
    <3> QED BY <3>1, <3>2 DEF Updates
  <2>3. \A d, e \in edits : d.svc = e.svc => d = e
    <3> HIDE DEF edits
    <3> SUFFICES ASSUME NEW d \in edits, NEW e \in edits, d.svc = e.svc PROVE d = e
      OBVIOUS
    <3>1. d = [svc |-> d.svc, current |-> inFile[d.svc], update |-> newest[d.svc]]
      BY <2>2, Zenon
    <3>2. e = [svc |-> e.svc, current |-> inFile[e.svc], update |-> newest[e.svc]]
      BY <2>2, Zenon
    <3> QED BY <3>1, <3>2
  <2>4. /\ started.edits = edits /\ started.wants = batch[b].wants /\ started.files = batch[b].files
        /\ started.at = IF dryrun THEN "update" ELSE "read"
        /\ DOMAIN started = {"at", "files", "wants", "edits", "text"}
    <3> HIDE DEF edits
    <3> QED BY <1>2 DEF CallOK
  <2> HIDE DEF started, edits
  <2> QED BY <1>2, <2>1, <2>2, <2>3, <2>4 DEF CallOK
<1>5. PICK call : /\ batch' = [batch EXCEPT ![b] = call] /\ CallOK(call)
                  /\ call.at # "update" \/ dryrun
  <2>1. CASE batch' = [batch EXCEPT ![b] = IdleBatch]
    BY <1>2, <2>1, NextFileOK
  <2>2. CASE batch' = [batch EXCEPT ![b] = IF edits = {} THEN NextFile(@) ELSE started] /\ edits = {}
    <3>1. batch' = [batch EXCEPT ![b] = NextFile(batch[b])]
      BY <2>2
    <3>2. CallOK(NextFile(batch[b])) /\ NextFile(batch[b]).at # "update"
      BY <1>2, NextFileOK
    <3> QED BY <3>1, <3>2
  <2>3. CASE batch' = [batch EXCEPT ![b] = IF edits = {} THEN NextFile(@) ELSE started] /\ edits # {}
    <3>1. batch' = [batch EXCEPT ![b] = started]
      BY <2>3
    <3>2. started.at = IF dryrun THEN "update" ELSE "read"
      BY <1>2 DEF CallOK
    <3> HIDE DEF started
    <3> QED BY <1>4, <3>1, <3>2
  <2>4. batch' = [batch EXCEPT ![b] = IdleBatch]
        \/ batch' = [batch EXCEPT ![b] = IF edits = {} THEN NextFile(@) ELSE started]
    BY DEF ParseFile
  <2> QED BY <2>1, <2>2, <2>3, <2>4
<1>6. DOMAIN batch' = Slot /\ \A o \in Slot : CallOK(batch[o])'
  BY <1>1, <1>3, <1>5, CallsStay
<1>7. \A s \in Svc : Applied(s)'
  BY <1>1, <1>5, SameSettled
<1> QED BY <1>1, <1>6, <1>7 DEF ComposeInv

LEMMA ReadKeeps ==
  ASSUME ComposeInv, NEW b \in Slot, ReadText(b)
  PROVE  ComposeInv'
<1>1. inFile' = inFile /\ runs' = runs /\ newest' = newest /\ dryrun' = dryrun /\ excused' = excused
      /\ batch[b].at = "read"
  BY DEF ReadText
<1>2. CallOK(batch[b])
  BY DEF ComposeInv
<1>3. PICK call : /\ call = [batch[b] EXCEPT !.at = "write", !.text = inFile]
                  /\ batch' = [batch EXCEPT ![b] = call]
  BY DEF ReadText, ComposeInv
<1>4. /\ call.edits = batch[b].edits /\ call.wants = batch[b].wants /\ call.files = batch[b].files
      /\ call.at = "write" /\ DOMAIN call = {"at", "files", "wants", "edits", "text"}
  BY <1>2, <1>3 DEF CallOK
<1>5. CallOK(call)'
  BY <1>1, <1>2, <1>4 DEF CallOK, Updates
<1>6. DOMAIN batch' = Slot /\ \A o \in Slot : CallOK(batch[o])'
  BY <1>1, <1>3, <1>5, CallsStay
<1>7. \A s \in Svc : Applied(s)'
  BY <1>1, <1>3, <1>4, SameSettled
<1> QED BY <1>1, <1>6, <1>7 DEF ComposeInv

LEMMA WriteKeeps ==
  ASSUME ComposeInv, NEW b \in Slot, WriteFile(b)
  PROVE  ComposeInv'
<1>1. runs' = runs /\ newest' = newest /\ dryrun' = dryrun /\ batch[b].at = "write"
  BY DEF WriteFile
<1>2. CallOK(batch[b])
  BY DEF ComposeInv
<1>3. PICK call : /\ call = [batch[b] EXCEPT !.at = "update", !.text = NoText]
                  /\ batch' = [batch EXCEPT ![b] = call]
  BY DEF WriteFile, ComposeInv
<1>4. /\ call.edits = batch[b].edits /\ call.wants = batch[b].wants
      /\ call.at = "update" /\ DOMAIN call = {"at", "files", "wants", "edits", "text"}
  BY <1>2, <1>3 DEF CallOK
<1>5. CallOK(call)'
  BY <1>1, <1>2, <1>4 DEF CallOK, Updates
<1>6. DOMAIN batch' = Slot /\ batch'[b] = call /\ (\A o \in Slot : CallOK(batch[o])')
      /\ \A o \in Slot \ {b} : batch'[o] = batch[o]
  BY <1>1, <1>3, <1>5, CallsStay
<1>7. /\ ~dryrun /\ \A e \in batch[b].edits : FileOf[e.svc] = Head(batch[b].files) /\ Updates(e)
      /\ IsFiniteSet(batch[b].edits)
      /\ \A d, e \in batch[b].edits : d.svc = e.svc => d = e
  BY <1>1, <1>2 DEF CallOK
<1>8. ASSUME NEW s \in Svc
      PROVE Pending(s)' <=> Pending(s) \/ \E e \in batch[b].edits : e.svc = s
  <2>1. \A o \in Slot : batch'[o].at = "update" /\ (\E e \in batch'[o].edits : e.svc = s)
          <=> \/ o = b /\ \E e \in batch[b].edits : e.svc = s
              \/ o # b /\ batch[o].at = "update" /\ \E e \in batch[o].edits : e.svc = s
    BY <1>4, <1>6
  <2> QED BY <1>1, <2>1 DEF Pending
<1>9. CASE inFile' = inFile /\ excused' = excused \cup {e.svc : e \in batch[b].edits}
  <2>1. ASSUME NEW s \in Svc PROVE Applied(s)'
    <3>1. Applied(s)
      BY DEF ComposeInv
    <3>2. s \notin excused' => s \notin excused /\ ~\E e \in batch[b].edits : e.svc = s
      BY <1>9
    <3> QED BY <1>1, <1>7, <1>8, <1>9, <3>1, <3>2 DEF Applied
  <2> QED BY <1>1, <1>6, <1>9, <2>1 DEF ComposeInv
<1>10. CASE /\ \E listing \in SetToSeqs(batch[b].edits) : inFile' = Edited(batch[b], listing)
            /\ excused' = excused \cup Spoilt(batch[b])
  <2>1. PICK listing \in SetToSeqs(batch[b].edits) : inFile' = Edited(batch[b], listing)
    BY <1>10
  <2>2. DOMAIN inFile' = Svc
    BY <2>1 DEF Edited
  <2>3. ASSUME NEW s \in Svc PROVE Applied(s)'
    <3>1. Applied(s)
      BY DEF ComposeInv
    <3>2. s \notin excused' => s \notin excused /\ s \notin Spoilt(batch[b])
      BY <1>10
    <3>3. ASSUME s \notin Spoilt(batch[b]), NEW e \in batch[b].edits, e.svc = s
          PROVE inFile'[s] = newest[s]
      <4>1. FileOf[s] = Head(batch[b].files) /\ e.update = newest[s]
        BY <1>7, <3>3 DEF Updates
      <4>2. Edited(batch[b], listing)[s] = e.update
        BY <1>7, <3>3, <4>1, EditIsExact
      <4> QED BY <2>1, <4>1, <4>2
    <3>4. ASSUME s \notin Spoilt(batch[b]), \A e \in batch[b].edits : e.svc # s
          PROVE inFile'[s] = inFile[s]
      <4>1. CASE FileOf[s] = Head(batch[b].files)
        <5>1. Edited(batch[b], listing)[s] = inFile[s]
          BY <1>7, <3>4, <4>1, EditIsExact
        <5> QED BY <2>1, <5>1
      <4>2. CASE FileOf[s] # Head(batch[b].files)
        <5>1. Edited(batch[b], listing)[s] = inFile[s]
          BY <4>2 DEF Edited
        <5> QED BY <2>1, <5>1
      <4> QED BY <4>1, <4>2
    <3> QED BY <1>1, <1>7, <1>8, <3>1, <3>2, <3>3, <3>4 DEF Applied
  <2> QED BY <1>1, <1>6, <2>2, <2>3 DEF ComposeInv
<1> QED BY <1>9, <1>10 DEF WriteFile

LEMMA UpdateServiceKeeps ==
  ASSUME ComposeInv, NEW b \in Slot, UpdateService(b)
  PROVE  ComposeInv'
<1>1. inFile' = inFile /\ dryrun' = dryrun /\ batch[b].at = "update"
  BY SMTT(30) DEF UpdateService
<1>2. CallOK(batch[b])
  BY DEF ComposeInv
<1>3. PICK e \in batch[b].edits :
       LET rest == batch[b].edits \ {e} IN
       \/ /\ runs' = IF dryrun THEN runs ELSE [runs EXCEPT ![e.svc] = e.update]
          /\ newest' = IF dryrun THEN newest ELSE [newest EXCEPT ![e.svc] = e.update]
          /\ UNCHANGED excused
          /\ batch' = [batch EXCEPT ![b] =
                         IF rest = {} THEN NextFile(@) ELSE [@ EXCEPT !.edits = rest]]
       \/ /\ UNCHANGED <<runs, newest>> /\ excused' = excused \cup {e.svc}
          /\ batch' = [batch EXCEPT ![b] =
                         IF rest = {} THEN IdleBatch
                         ELSE [@ EXCEPT !.edits = rest, !.files = <<Head(batch[b].files)>>]]
  BY DEF UpdateService
<1>4. Updates(e) /\ \A d \in batch[b].edits : d.svc = e.svc => d = e
  BY <1>2 DEF CallOK
<1>5. /\ newest' = newest
      /\ \/ dryrun /\ runs' = runs /\ excused' = excused
         \/ ~dryrun /\ runs' = [runs EXCEPT ![e.svc] = newest[e.svc]] /\ excused' = excused
         \/ runs' = runs /\ excused' = excused \cup {e.svc}
  <2>1. e.update = newest[e.svc] /\ [newest EXCEPT ![e.svc] = newest[e.svc]] = newest
    BY <1>4 DEF Updates, ComposeInv
  <2> QED BY <1>3, <2>1
<1> DEFINE rest == batch[b].edits \ {e}
<1>6. PICK call : /\ batch' = [batch EXCEPT ![b] = call] /\ CallOK(call)
                  /\ call.at # "update" => rest = {}
                  /\ call.at = "update" => call.edits = rest
  <2>1. CallOK(IdleBatch) /\ IdleBatch.at # "update" /\ CallOK(NextFile(batch[b])) /\ NextFile(batch[b]).at # "update"
    BY <1>2, NextFileOK
  <2>2. IsFiniteSet(rest)
    BY <1>2, FS_Subset DEF CallOK
  <2> DEFINE with == [batch[b] EXCEPT !.edits = rest]
             short == [batch[b] EXCEPT !.edits = rest, !.files = <<Head(batch[b].files)>>]
  <2>3. /\ with.edits = rest /\ with.wants = batch[b].wants /\ with.at = "update"
        /\ DOMAIN with = {"at", "files", "wants", "edits", "text"}
    BY <1>1, <1>2 DEF CallOK
  <2>4. /\ short.edits = rest /\ short.wants = batch[b].wants /\ short.at = "update"
        /\ DOMAIN short = {"at", "files", "wants", "edits", "text"}
    BY <1>1, <1>2 DEF CallOK
  <2>5. (\A d \in rest : Updates(d)) /\ \A c, d \in rest : c.svc = d.svc => c = d
    BY <1>2 DEF CallOK
  <2>6. CallOK(with) /\ CallOK(short)
    <3> HIDE DEF with, short, rest
    <3> QED BY <1>2, <2>2, <2>3, <2>4, <2>5 DEF CallOK
  <2>7. \/ rest = {} /\ batch' = [batch EXCEPT ![b] = NextFile(batch[b])]
        \/ rest = {} /\ batch' = [batch EXCEPT ![b] = IdleBatch]
        \/ batch' = [batch EXCEPT ![b] = with]
        \/ batch' = [batch EXCEPT ![b] = short]
    BY <1>3
  <2> HIDE DEF with, short, rest
  <2> QED BY <2>1, <2>3, <2>4, <2>6, <2>7
<1>7. CallOK(call)'
  BY <1>1, <1>5, <1>6 DEF CallOK, Updates
<1>8. DOMAIN batch' = Slot /\ batch'[b] = call /\ (\A o \in Slot : CallOK(batch[o])')
      /\ \A o \in Slot \ {b} : batch'[o] = batch[o]
  BY <1>1, <1>5, <1>6, <1>7, CallsStay
<1>9. DOMAIN runs' = Svc
  BY <1>5 DEF ComposeInv
<1>10. ASSUME NEW s \in Svc, s # e.svc PROVE Pending(s)' <=> Pending(s)
  <2>1. batch'[b].at = "update" /\ (\E d \in batch'[b].edits : d.svc = s)
          <=> \E d \in batch[b].edits : d.svc = s
    BY <1>6, <1>8, <1>10
  <2>2. \A o \in Slot : batch'[o].at = "update" /\ (\E d \in batch'[o].edits : d.svc = s)
          <=> batch[o].at = "update" /\ (\E d \in batch[o].edits : d.svc = s)
    BY <1>1, <1>8, <2>1
  <2> QED BY <2>2 DEF Pending
<1>11. e.svc \in Svc /\ Pending(e.svc)
  BY <1>1, <1>4 DEF Pending, Updates
<1>12. ASSUME NEW s \in Svc PROVE Applied(s)'
  <2>1. Applied(s)
    BY DEF ComposeInv
  <2>2. CASE s # e.svc
    <3>1. runs'[s] = runs[s] /\ (s \in excused' <=> s \in excused)
      BY <1>5, <2>2 DEF ComposeInv
    <3> QED BY <1>1, <1>5, <1>10, <2>1, <2>2, <3>1 DEF Applied
  <2>3. CASE s = e.svc
    <3>1. newest[s] # Releases[s][1]
      BY <1>4, <2>3 DEF Updates
    <3>2. CASE dryrun /\ runs' = runs
      BY <1>1, <1>5, <2>1, <3>1, <3>2 DEF Applied
    <3>3. CASE ~dryrun /\ runs' = [runs EXCEPT ![e.svc] = newest[e.svc]] /\ excused' = excused
      <4>1. runs'[s] = newest[s]
        BY <2>3, <3>3 DEF ComposeInv
      <4>2. s \notin excused => inFile[s] = newest[s]
        BY <1>11, <2>1, <2>3, <3>3 DEF Applied
      <4> QED BY <1>1, <1>5, <3>1, <3>3, <4>1, <4>2 DEF Applied
    <3>4. CASE runs' = runs /\ excused' = excused \cup {e.svc}
      BY <1>1, <1>5, <2>1, <2>3, <3>1, <3>4 DEF Applied
    <3> QED BY <1>5, <3>2, <3>3, <3>4
  <2> QED BY <2>2, <2>3
<1> QED BY <1>1, <1>5, <1>8, <1>9, <1>12 DEF ComposeInv

LEMMA FoundKeeps ==
  ASSUME ComposeInv, NEW s \in Svc, NewerFound(s)
  PROVE  ComposeInv'
<1>1. inFile' = inFile /\ runs' = runs /\ batch' = batch /\ dryrun' = dryrun /\ excused' = excused
  BY DEF NewerFound
<1>2. PICK i \in DOMAIN Releases[s] : /\ newest[s] # Releases[s][i]
                                      /\ newest[s] = runs[s] /\ runs[s] = Releases[s][1]
                                      /\ newest' = [newest EXCEPT ![s] = Releases[s][i]]
  BY DEF NewerFound
<1>3. newest' = [o \in Svc |-> newest'[o]] /\ newest'[s] # Releases[s][1] /\ \A o \in Svc \ {s} : newest'[o] = newest[o]
  BY <1>2 DEF ComposeInv
<1>4. \A x : Updates(x) => Updates(x)' /\ x.svc # s
  BY <1>2, <1>3 DEF Updates
<1>5. \A b \in Slot : CallOK(batch[b])'
  BY <1>1, <1>4 DEF ComposeInv, CallOK
<1>6. ~Pending(s)
  BY <1>4 DEF Pending, ComposeInv, CallOK
<1>7. ASSUME NEW o \in Svc PROVE Applied(o)'
  <2>1. Applied(o) /\ (Pending(o)' <=> Pending(o))
    BY <1>1 DEF ComposeInv, Pending
  <2> QED BY <1>1, <1>3, <1>6, <2>1 DEF Applied
<1> QED BY <1>1, <1>3, <1>5, <1>7 DEF ComposeInv

LEMMA ComposeNextInv ==
  ASSUME ComposeInv, [ComposeNext]_composeVars
  PROVE  ComposeInv'
<1>1. CASE UNCHANGED composeVars
  BY <1>1 DEF composeVars, ComposeInv, CallOK, Updates, Applied, Pending
<1> QED BY <1>1, FoundKeeps, TriggerKeeps, ParseKeeps, ReadKeeps, WriteKeeps, UpdateServiceKeeps DEF ComposeNext

\* DeclaredRuns: for any services, files and releases, and any batches that
\* overlap, fail or replace what they should not, every service that is not
\* excused runs what its file declares when no batch is under way.
THEOREM DeclaredStaysRunning == ComposeSpec => []DeclaredRuns
<1>1. ComposeInit => ComposeInv
  BY ComposeInitInv
<1>2. ComposeInv /\ [ComposeNext]_composeVars => ComposeInv'
  BY ComposeNextInv
<1>3. ComposeInv => DeclaredRuns
  BY DEF ComposeInv, Applied, Pending, DeclaredRuns
<1> QED BY <1>1, <1>2, <1>3, PTL DEF ComposeSpec

---------------------------------------------------------------------------------
(***************************************************************************)
(* What a template says. The scan for an operator passes over a text that  *)
(* shows none outside quotes and parentheses and leaves it as it came, so  *)
(* the first operator found between two such texts is the one that joins   *)
(* them, and the cut gives the two texts back. Level by level - leaves,    *)
(* sums, conjunctions, conditionals - one more round of the evaluation is  *)
(* right about what is joined of texts the round before is right about.    *)
(***************************************************************************)
\* g follows a text from a state of the scan.
Follows(g, text, start) ==
  /\ g = [i \in 0..Len(text) |-> g[i]]
  /\ g[0] = start /\ \A i \in 1..Len(text) : g[i] = ScanStep(g[i - 1], text[i])

\* A text is followed in one way.
LEMMA OneWay ==
  ASSUME NEW text, NEW n \in Nat, n = Len(text), NEW start, NEW f, NEW g,
         Follows(f, text, start), Follows(g, text, start)
  PROVE  f = g
<1> DEFINE Apart == {i \in 0..n : f[i] # g[i]}
<1>1. ASSUME Apart # {} PROVE FALSE
  <2>1. PICK i \in Apart : \A j \in Apart : i <= j
    BY <1>1, LeastOf, Apart \subseteq Nat
  <2>2. i \in 0..n /\ f[i] # g[i]
    OBVIOUS
  <2>3. i # 0
    BY <2>2 DEF Follows
  <2>4. i \in 1..n /\ i - 1 \in 0..n /\ ~(i <= i - 1)
    BY <2>2, <2>3
  <2>5. f[i - 1] = g[i - 1]
    BY <2>1, <2>4
  <2> QED BY <2>2, <2>4, <2>5 DEF Follows
<1>2. \A i \in 0..n : f[i] = g[i]
  BY <1>1
<1> QED BY <1>2 DEF Follows

\* Every text can be followed.
LEMMA ScanFollows ==
  ASSUME NEW text, NEW n \in Nat, n = Len(text), NEW start
  PROVE  Follows(Scan(text, start), text, start)
<1> DEFINE step(f, i) == IF i = 0 THEN start ELSE ScanStep(f[i - 1], text[i])
           Bad == {m \in 0..n : ~(\E f : f = [i \in 0..m |-> step(f, i)])}
<1>1. ASSUME NEW m \in 1..n, NEW f, f = [i \in 0..(m - 1) |-> step(f, i)]
      PROVE  \E g : g = [i \in 0..m |-> step(g, i)]
  <2> DEFINE g == [i \in 0..m |-> IF i = m THEN ScanStep(f[m - 1], text[m]) ELSE f[i]]
  <2>1. \A i \in 0..m : g[i] = step(g, i)
    <3> SUFFICES ASSUME NEW i \in 0..m PROVE g[i] = step(g, i)
      OBVIOUS
    <3>1. CASE i = m
      <4>1. m - 1 \in 0..m /\ m - 1 # m /\ m # 0
        OBVIOUS
      <4>2. g[m - 1] = f[m - 1] /\ g[m] = ScanStep(f[m - 1], text[m])
        BY <4>1
      <4> HIDE DEF g
      <4> QED BY <3>1, <4>1, <4>2
    <3>2. CASE i # m
      <4>1. i \in 0..(m - 1) /\ (i # 0 => i - 1 \in 0..m /\ i - 1 # m)
        BY <3>2
      <4>2. f[i] = step(f, i)
        BY <1>1, <4>1
      <4>3. g[i] = f[i] /\ (i # 0 => g[i - 1] = f[i - 1])
        BY <3>2, <4>1
      <4> HIDE DEF g
      <4> QED BY <4>2, <4>3
    <3> QED BY <3>1, <3>2
  <2>2. g = [i \in 0..m |-> g[i]]
    OBVIOUS
  <2>3. g = [i \in 0..m |-> step(g, i)]
    <3> HIDE DEF g, step
    <3> QED BY <2>1, <2>2
  <2> HIDE DEF g, step
  <2> QED BY <2>3
<1>2. \E f : f = [i \in 0..0 |-> step(f, i)]
  <2> DEFINE g == [i \in 0..0 |-> start]
  <2>1. g = [i \in 0..0 |-> step(g, i)]
    OBVIOUS
  <2> HIDE DEF g, step
  <2> QED BY <2>1
<1>3. ASSUME Bad # {} PROVE FALSE
  <2>1. PICK m \in Bad : \A j \in Bad : m <= j
    BY <1>3, LeastOf, Bad \subseteq Nat
  <2>2. m \in 0..n /\ ~(\E f : f = [i \in 0..m |-> step(f, i)])
    BY <2>1
  <2> HIDE DEF step
  <2>3. m # 0
    BY <1>2, <2>2
  <2>4. m \in 1..n /\ m - 1 \in 0..n /\ ~(m <= m - 1)
    BY <2>2, <2>3
  <2>5. m - 1 \notin Bad
    <3> HIDE DEF Bad
    <3> QED BY <2>1, <2>4
  <2>6. PICK f : f = [i \in 0..(m - 1) |-> step(f, i)]
    BY <2>4, <2>5
  <2> QED BY <1>1, <2>2, <2>4, <2>6
<1>4. \E f : f = [i \in 0..n |-> step(f, i)]
  <2>1. n \in 0..n /\ n \notin Bad
    <3> HIDE DEF Bad
    <3> QED BY <1>3
  <2> HIDE DEF step
  <2> QED BY <2>1
<1>5. Scan(text, start) = CHOOSE f : f = [i \in 0..n |-> step(f, i)]
  BY DEF Scan
<1>6. PICK f : f = Scan(text, start) /\ f = [i \in 0..n |-> step(f, i)]
  <2> HIDE DEF step
  <2> QED BY <1>4, <1>5
<1>7. f = [i \in 0..n |-> f[i]]
  BY <1>6
<1>8. 0 \in 0..n /\ \A i \in 1..n : i \in 0..n /\ i # 0
  OBVIOUS
<1>9. \A i \in 0..n : f[i] = step(f, i)
  <2> HIDE DEF step
  <2> QED BY <1>6
<1> QED BY <1>6, <1>7, <1>8, <1>9 DEF Follows

\* What a joined text is made of.
LEMMA InJoin ==
  ASSUME NEW S, NEW p \in Seq(S), NEW q \in Seq(S), NEW m \in Nat, NEW n \in Nat, m = Len(p), n = Len(q)
  PROVE  /\ p \o q \in Seq(S) /\ Len(p \o q) = m + n
         /\ \A i \in 1..m : (p \o q)[i] = p[i] /\ i \in 1..(m + n)
         /\ \A i \in 1..n : (p \o q)[m + i] = q[i] /\ m + i \in 1..(m + n)
         /\ \A i \in 1..(m + n) : i \in 1..m \/ (i - m \in 1..n /\ i = m + (i - m))
OBVIOUS

\* A joined text is followed through the one part and then through the other.
LEMMA FollowsHead ==
  ASSUME NEW p \in Seq(Token), NEW q \in Seq(Token), NEW m \in Nat, m = Len(p),
         NEW start, NEW h, Follows(h, p \o q, start), NEW f, Follows(f, p, start)
  PROVE  \A i \in 0..m : h[i] = f[i]
<1>n. PICK n \in Nat : n = Len(q)
  OBVIOUS
<1>l. Len(p \o q) = m + n
  BY <1>n, InJoin
<1>j. \A i \in 1..m : (p \o q)[i] = p[i]
  BY <1>n, InJoin
<1>0. \A i \in 1..(m + n) : h[i] = ScanStep(h[i - 1], (p \o q)[i])
  BY <1>l DEF Follows
<1> DEFINE a == [i \in 0..m |-> h[i]]
<1>1. Follows(a, p, start)
  <2>1. \A i \in 1..m : i \in 0..m /\ i - 1 \in 0..m /\ i \in 1..(m + n)
    OBVIOUS
  <2>2. \A i \in 1..m : a[i] = h[i] /\ a[i - 1] = h[i - 1]
    BY <2>1
  <2>3. a[0] = start /\ a = [i \in 0..m |-> a[i]]
    BY DEF Follows
  <2> HIDE DEF a
  <2>4. \A i \in 1..m : a[i] = ScanStep(a[i - 1], p[i])
    BY <1>0, <1>j, <2>1, <2>2
  <2> QED BY <2>3, <2>4 DEF Follows
<1>2. a = f
  BY <1>1, OneWay
<1>3. \A i \in 0..m : a[i] = h[i]
  OBVIOUS
<1> HIDE DEF a
<1> QED BY <1>2, <1>3

LEMMA FollowsTail ==
  ASSUME NEW p \in Seq(Token), NEW q \in Seq(Token), NEW start, NEW h, Follows(h, p \o q, start),
         NEW g, Follows(g, q, h[Len(p)])
  PROVE  \A i \in 0..Len(q) : h[Len(p) + i] = g[i]
<1>m. PICK m \in Nat : m = Len(p)
  OBVIOUS
<1>n. PICK n \in Nat : n = Len(q)
  OBVIOUS
<1>l. Len(p \o q) = m + n
  BY <1>m, <1>n, InJoin
<1>j. \A i \in 1..n : (p \o q)[m + i] = q[i]
  BY <1>m, <1>n, InJoin
<1>0. \A i \in 1..(m + n) : h[i] = ScanStep(h[i - 1], (p \o q)[i])
  BY <1>l DEF Follows
<1> DEFINE b == [i \in 0..n |-> h[m + i]]
<1>1. Follows(b, q, h[m])
  <2>1. \A i \in 1..n : i \in 0..n /\ i - 1 \in 0..n /\ m + i \in 1..(m + n) /\ (m + i) - 1 = m + (i - 1)
    OBVIOUS
  <2>2. \A i \in 1..n : b[i] = h[m + i] /\ b[i - 1] = h[m + (i - 1)]
    BY <2>1
  <2>3. b[0] = h[m + 0] /\ b = [i \in 0..n |-> b[i]]
    OBVIOUS
  <2>4. m + 0 = m
    OBVIOUS
  <2> HIDE DEF b
  <2>5. b[0] = h[m]
    BY <2>3, <2>4
  <2>6. ASSUME NEW i \in 1..n PROVE b[i] = ScanStep(b[i - 1], q[i])
    <3>1. PICK k \in 1..(m + n) : k = m + i /\ k - 1 = m + (i - 1)
      BY <2>1
    <3>2. h[k] = ScanStep(h[k - 1], (p \o q)[k]) /\ (p \o q)[k] = q[i]
      BY <1>0, <1>j, <3>1
    <3> QED BY <2>2, <3>1, <3>2
  <2> QED BY <1>n, <2>3, <2>5, <2>6 DEF Follows
<1>2. b = g
  BY <1>m, <1>n, <1>1, OneWay
<1>3. \A i \in 0..n : b[i] = h[m + i]
  OBVIOUS
<1> HIDE DEF b
<1> QED BY <1>m, <1>n, <1>2, <1>3

\* A text in which the scan finds no operator, and that it leaves as it came.
Clean(p, op) ==
  /\ p \in Seq(Token)
  /\ \E f : /\ Follows(f, p, ScanStart) /\ f[Len(p)] = ScanStart
            /\ \A i \in 1..Len(p) : ~IsTopLevel(f[i - 1], p[i], op)

LEMMA CleanJoin ==
  ASSUME NEW p, NEW q, NEW op, Clean(p, op), Clean(q, op)
  PROVE  Clean(p \o q, op)
<1>1. p \in Seq(Token) /\ q \in Seq(Token)
  BY DEF Clean
<1>2. PICK m \in Nat : m = Len(p)
  BY <1>1
<1>3. PICK n \in Nat : n = Len(q)
  BY <1>1
<1>4. PICK f : /\ Follows(f, p, ScanStart) /\ f[m] = ScanStart
               /\ \A i \in 1..m : ~IsTopLevel(f[i - 1], p[i], op)
  BY <1>2 DEF Clean
<1>5. PICK g : /\ Follows(g, q, ScanStart) /\ g[n] = ScanStart
               /\ \A i \in 1..n : ~IsTopLevel(g[i - 1], q[i], op)
  BY <1>3 DEF Clean
<1>6. p \o q \in Seq(Token) /\ Len(p \o q) = m + n
  BY <1>1, <1>2, <1>3
<1>7. PICK h : Follows(h, p \o q, ScanStart)
  <2>1. PICK l \in Nat : l = Len(p \o q)
    BY <1>6
  <2>2. Follows(Scan(p \o q, ScanStart), p \o q, ScanStart)
    BY <2>1, ScanFollows
  <2> QED BY <2>2, Zenon
<1>8. (\A i \in 0..m : h[i] = f[i]) /\ (\A i \in 0..n : h[m + i] = g[i])
  <2>1. Follows(f, p, ScanStart) /\ Follows(g, q, ScanStart)
    BY <1>4, <1>5, Zenon
  <2>2. \A i \in 0..m : h[i] = f[i]
    BY <1>1, <1>2, <1>7, <2>1, FollowsHead
  <2>3. Follows(g, q, h[Len(p)])
    BY <1>2, <1>4, <2>1, <2>2
  <2>4. \A i \in 0..Len(q) : h[Len(p) + i] = g[i]
    BY <1>1, <1>7, <2>3, FollowsTail
  <2> QED BY <1>2, <1>3, <2>2, <2>4
<1>9. h[m + n] = ScanStart
  BY <1>5, <1>8
<1>10. ASSUME NEW i \in 1..(m + n) PROVE ~IsTopLevel(h[i - 1], (p \o q)[i], op)
  <2>1. CASE i \in 1..m
    <3>1. i - 1 \in 0..m
      BY <2>1
    <3>2. h[i - 1] = f[i - 1] /\ (p \o q)[i] = p[i]
      BY <1>1, <1>2, <1>3, <1>8, <2>1, <3>1, InJoin
    <3> QED BY <1>4, <2>1, <3>2
  <2>2. CASE i \notin 1..m
    <3>1. PICK k \in 1..n : i = m + k
      <4>1. i - m \in 1..n /\ i = m + (i - m)
        BY <2>2
      <4> QED BY <4>1, Zenon
    <3>2. k - 1 \in 0..n /\ i - 1 = m + (k - 1)
      BY <3>1
    <3>3. h[i - 1] = g[k - 1] /\ (p \o q)[i] = q[k]
      BY <1>1, <1>2, <1>3, <1>8, <3>1, <3>2, InJoin, SMTT(30)
    <3> QED BY <1>5, <3>3
  <2> QED BY <2>1, <2>2
<1> QED BY <1>6, <1>7, <1>9, <1>10 DEF Clean

\* Where the first operator stands.
LEMMA NoneFound ==
  ASSUME NEW text, NEW op, Clean(text, op)
  PROVE  TopLevel(text, op) = 0
<1>1. PICK n \in Nat : n = Len(text)
  BY DEF Clean
<1>2. PICK f : Follows(f, text, ScanStart) /\ \A i \in 1..n : ~IsTopLevel(f[i - 1], text[i], op)
  BY <1>1 DEF Clean
<1>3. Scan(text, ScanStart) = f
  BY <1>1, <1>2, ScanFollows, OneWay
<1> QED BY <1>1, <1>2, <1>3 DEF TopLevel, FirstOf

LEMMA FirstPlace ==
  ASSUME NEW places, places \subseteq Nat, NEW i \in places, \A j \in places : i <= j
  PROVE  FirstOf(places) = i
<1>1. PICK k : k = FirstOf(places)
  OBVIOUS
<1>2. k = CHOOSE e \in places : \A j \in places : e <= j
  BY <1>1 DEF FirstOf
<1>3. k \in places /\ \A j \in places : k <= j
  BY <1>2
<1>4. k \in Nat /\ i \in Nat /\ k <= i /\ i <= k
  BY <1>3
<1> QED BY <1>1, <1>4

LEMMA FoundAt ==
  ASSUME NEW op \in Operators, NEW p, Clean(p, op), NEW q \in Seq(Token), NEW m \in Nat, m = Len(p)
  PROVE  TopLevel(Joined(p, op, q), op) = m + 1
<1> DEFINE r == <<op>> \o q
           text == p \o r
<1>1. p \in Seq(Token) /\ op \in Token
  BY DEF Clean, Token, Special
<1>2. PICK n \in Nat : n = Len(q)
  OBVIOUS
<1>3. r \in Seq(Token) /\ Len(r) = n + 1 /\ r[1] = op
  BY <1>1, <1>2
<1>4. Joined(p, op, q) = text
  BY <1>1 DEF Joined
<1> HIDE DEF r
<1>5. text \in Seq(Token) /\ Len(text) = m + (n + 1)
  BY <1>1, <1>3, SMTT(30)
<1>6. /\ \A i \in 1..m : text[i] = p[i] /\ i \in 1..(m + (n + 1))
      /\ text[m + 1] = op /\ m + 1 \in 1..(m + (n + 1))
  <2>1. n + 1 \in Nat /\ 1 \in 1..(n + 1)
    OBVIOUS
  <2>2. PICK k \in Nat : k = n + 1
    BY <2>1
  <2>3. /\ \A i \in 1..m : (p \o r)[i] = p[i] /\ i \in 1..(m + k)
        /\ \A i \in 1..k : (p \o r)[m + i] = r[i] /\ m + i \in 1..(m + k)
    <3>1. Len(r) = k
      BY <1>3, <2>2
    <3>2. r \in Seq(Token) /\ p \in Seq(Token)
      BY <1>1, <1>3
    <3>3. \A i \in 1..m : (p \o r)[i] = p[i]
      BY <3>2
    <3>4. \A i \in 1..k : (p \o r)[m + i] = r[i]
      BY <3>1, <3>2
    <3>5. /\ \A i \in 1..m : i \in 1..(m + k)
          /\ \A i \in 1..k : m + i \in 1..(m + k)
      OBVIOUS
    <3> QED BY <3>3, <3>4, <3>5
  <2> QED BY <1>3, <2>1, <2>2, <2>3
<1>7. PICK f : /\ Follows(f, p, ScanStart) /\ f[m] = ScanStart
               /\ \A i \in 1..m : ~IsTopLevel(f[i - 1], p[i], op)
  BY DEF Clean
<1>8. PICK h : h = Scan(text, ScanStart) /\ Follows(h, text, ScanStart)
  <2> HIDE DEF text
  <2> QED BY <1>5, ScanFollows
<1>9. \A i \in 0..m : h[i] = f[i]
  BY <1>1, <1>3, <1>7, <1>8, FollowsHead
<1> HIDE DEF text
<1>10. \A i \in 1..m : ~IsTopLevel(h[i - 1], text[i], op)
  <2>1. \A i \in 1..m : i - 1 \in 0..m
    OBVIOUS
  <2> QED BY <1>6, <1>7, <1>9, <2>1
<1>11. IsTopLevel(h[m], text[m + 1], op)
  <2>1. m \in 0..m
    OBVIOUS
  <2>2. h[m] = ScanStart /\ text[m + 1] = op
    BY <1>6, <1>7, <1>9, <2>1
  <2>3. IsTopLevel(ScanStart, op, op)
    BY DEF IsTopLevel, ScanStart, Operators, IsQuoted, Toggled, Deeper, Outside, Quotes, Double, Single, Backslash
  <2> QED BY <2>2, <2>3
<1> DEFINE places == {i \in 1..Len(text) : IsTopLevel(h[i - 1], text[i], op)}
<1>12. places \subseteq Nat /\ m + 1 \in places
  <2>1. (m + 1) - 1 = m
    OBVIOUS
  <2> QED BY <1>5, <1>6, <1>11, <2>1
<1>13. \A i \in places : m + 1 <= i
  BY <1>5, <1>10
<1>14. TopLevel(text, op) = FirstOf(places)
  BY <1>8 DEF TopLevel
<1> HIDE DEF places
<1> QED BY <1>4, <1>12, <1>13, <1>14, FirstPlace

\* The cut gives back what was joined.
LEMMA CutApart ==
  ASSUME NEW S, NEW p \in Seq(S), NEW q \in Seq(S), NEW op \in S
  PROVE  /\ TextBefore(Joined(p, op, q), Len(p) + 1) = p /\ TextAfter(Joined(p, op, q), Len(p) + 1) = q
         /\ Joined(p, op, q) \in Seq(S)
<1>m. PICK m \in Nat : m = Len(p)
  OBVIOUS
<1>1. PICK n \in Nat : n = Len(q)
  OBVIOUS
<1>2. PICK text : text = Joined(p, op, q) /\ text = p \o (<<op>> \o q)
  <2>1. Joined(p, op, q) = p \o (<<op>> \o q)
    BY DEF Joined
  <2> QED BY <2>1
<1>3. /\ text \in Seq(S) /\ Len(text) = m + 1 + n
      /\ \A i \in 1..m : text[i] = p[i]
      /\ \A i \in 1..n : text[m + 1 + i] = q[i]
  BY <1>m, <1>1, <1>2
<1>4. TextBefore(text, m + 1) = p
  <2>1. TextBefore(text, m + 1) = SubSeq(text, 1, m)
    BY DEF TextBefore
  <2> QED BY <1>m, <1>3, <2>1, SMTT(30)
<1>5. TextAfter(text, m + 1) = q
  <2>1. TextAfter(text, m + 1) = SubSeq(text, m + 2, m + 1 + n)
    BY <1>3 DEF TextAfter
  <2>2. m + 2 \in Int /\ m + 1 + n \in Int /\ (m + 1 + n) - (m + 2) + 1 = n
        /\ (IF m + 2 <= m + 1 + n THEN (m + 1 + n) - (m + 2) + 1 ELSE 0) = n
        /\ \A i \in 1..n : m + 2 + i - 1 = m + 1 + i
    BY <1>1
  <2>3. \A i \in (m + 2)..(m + 1 + n) : text[i] \in S
    BY <1>1, <1>3
  <2>4. /\ SubSeq(text, m + 2, m + 1 + n) \in Seq(S)
        /\ Len(SubSeq(text, m + 2, m + 1 + n)) = n
        /\ \A i \in 1..n : SubSeq(text, m + 2, m + 1 + n)[i] = text[m + 2 + i - 1]
    BY <2>2, <2>3, SubSeqProperties
  <2>5. \A i \in 1..n : SubSeq(text, m + 2, m + 1 + n)[i] = q[i]
    BY <1>3, <2>2, <2>4
  <2>6. PICK e \in Seq(S) : e = SubSeq(text, m + 2, m + 1 + n)
    BY <2>4, Zenon
  <2>7. e = q
    <3>1. Len(e) = n /\ \A i \in 1..n : e[i] = q[i]
      BY <2>4, <2>5, <2>6
    <3> QED BY <1>1, <3>1
  <2> QED BY <2>1, <2>6, <2>7
<1> QED BY <1>m, <1>2, <1>3, <1>4, <1>5, Zenon

\* The same, with the length of the first text named.
LEMMA CutAt ==
  ASSUME NEW S, NEW p \in Seq(S), NEW q \in Seq(S), NEW op \in S, NEW m \in Nat, m = Len(p)
  PROVE  /\ TextBefore(Joined(p, op, q), m + 1) = p /\ TextAfter(Joined(p, op, q), m + 1) = q
         /\ Joined(p, op, q) \in Seq(S)
<1>1. /\ TextBefore(Joined(p, op, q), Len(p) + 1) = p /\ TextAfter(Joined(p, op, q), Len(p) + 1) = q
      /\ Joined(p, op, q) \in Seq(S)
  BY CutApart
<1> QED BY <1>1, Zenon

\* Where a scan is: how deep in parentheses, in which quote.
At(depth, quote) == [depth |-> depth, quote |-> quote, skip |-> FALSE]

Sunk(s, new) == [s EXCEPT !.depth = new]
Turned(s, new) == [s EXCEPT !.quote = new]

LEMMA Moves ==
  ASSUME NEW depth, NEW quote, NEW new
  PROVE  /\ Sunk(At(depth, quote), new) = At(new, quote)
         /\ Turned(At(depth, quote), new) = At(depth, new)
         /\ At(depth, quote).depth = depth /\ At(depth, quote).quote = quote
         /\ ~At(depth, quote).skip
<1>1. PICK k : k = FALSE
  OBVIOUS
<1>2. At(depth, quote) = [depth |-> depth, quote |-> quote, skip |-> k]
  BY <1>1 DEF At
<1>3. At(new, quote) = [depth |-> new, quote |-> quote, skip |-> k]
  BY <1>1 DEF At
<1>4. At(depth, new) = [depth |-> depth, quote |-> new, skip |-> k]
  BY <1>1 DEF At
<1>5. Sunk(At(depth, quote), new) = At(new, quote)
  <2>1. [[depth |-> depth, quote |-> quote, skip |-> k] EXCEPT !.depth = new] = [depth |-> new, quote |-> quote, skip |-> k]
    OBVIOUS
  <2> QED BY <1>2, <1>3, <2>1, Zenon DEF Sunk
<1>6. Turned(At(depth, quote), new) = At(depth, new)
  <2>1. [[depth |-> depth, quote |-> quote, skip |-> k] EXCEPT !.quote = new] = [depth |-> depth, quote |-> new, skip |-> k]
    OBVIOUS
  <2> QED BY <1>2, <1>4, <2>1, Zenon DEF Turned
<1>7. At(depth, quote).depth = depth /\ At(depth, quote).quote = quote /\ ~At(depth, quote).skip
  BY DEF At
<1> QED BY <1>5, <1>6, <1>7

LEMMA StepsAt ==
  /\ ScanStep(At(0, Outside), Double) = At(0, Double)
  /\ ScanStep(At(0, Double), Double) = At(0, Outside)
  /\ ScanStep(At(0, Outside), "(") = At(1, Outside)
  /\ ScanStep(At(1, Outside), ")") = At(0, Outside)
<1>1. /\ Toggled(Outside, Double) = Double /\ Toggled(Double, Double) = Outside
      /\ IsQuoted(Outside, Double) /\ IsQuoted(Double, Double) /\ ~IsQuoted(Outside, "(") /\ ~IsQuoted(Outside, ")")
  BY DEF Toggled, IsQuoted, Outside, Quotes, Double, Single
<1>2. /\ \A s : (~s.skip /\ IsQuoted(s.quote, Double)) => ScanStep(s, Double) = Turned(s, Toggled(s.quote, Double))
      /\ \A s : (~s.skip /\ ~IsQuoted(s.quote, "(")) => ScanStep(s, "(") = Sunk(s, s.depth + 1)
      /\ \A s : (~s.skip /\ ~IsQuoted(s.quote, ")")) => ScanStep(s, ")") = Sunk(s, s.depth - 1)
  BY DEF ScanStep, Turned, Sunk, Deeper, Double, Backslash
<1>3. 0 + 1 = 1 /\ 1 - 1 = 0
  OBVIOUS
<1>4. /\ ~At(0, Outside).skip /\ At(0, Outside).quote = Outside /\ At(0, Outside).depth = 0
      /\ ~At(0, Double).skip /\ At(0, Double).quote = Double
      /\ ~At(1, Outside).skip /\ At(1, Outside).quote = Outside /\ At(1, Outside).depth = 1
  BY Moves
<1>5. /\ Turned(At(0, Outside), Double) = At(0, Double) /\ Turned(At(0, Double), Outside) = At(0, Outside)
      /\ Sunk(At(0, Outside), 1) = At(1, Outside) /\ Sunk(At(1, Outside), 0) = At(0, Outside)
  BY Moves
<1>6. ScanStep(At(0, Outside), Double) = At(0, Double)
  BY <1>1, <1>2, <1>4, <1>5
<1>7. ScanStep(At(0, Double), Double) = At(0, Outside)
  BY <1>1, <1>2, <1>4, <1>5
<1>8. ScanStep(At(0, Outside), "(") = At(1, Outside)
  BY <1>1, <1>2, <1>3, <1>4, <1>5
<1>9. ScanStep(At(1, Outside), ")") = At(0, Outside)
  BY <1>1, <1>2, <1>3, <1>4, <1>5
<1> QED BY <1>6, <1>7, <1>8, <1>9

LEMMA StartsAt == ScanStart = At(0, Outside) /\ [ScanStart EXCEPT !.quote = Double] = At(0, Double)
<1>1. ScanStart = At(0, Outside)
  BY DEF ScanStart, At
<1>2. [At(0, Outside) EXCEPT !.quote = Double] = Turned(At(0, Outside), Double)
  BY Zenon DEF Turned
<1>3. Turned(At(0, Outside), Double) = At(0, Double)
  BY Moves
<1> QED BY <1>1, <1>2, <1>3

\* What users write is clean of the operators it does not show.
LEMMA TokenClean ==
  ASSUME NEW c \in Token, NEW op, c # op, ScanStep(ScanStart, c) = ScanStart
  PROVE  Clean(<<c>>, op)
<1> DEFINE f == [i \in 0..1 |-> ScanStart]
<1>1. <<c>> \in Seq(Token) /\ Len(<<c>>) = 1 /\ <<c>>[1] = c
  OBVIOUS
<1>2. f = [i \in 0..1 |-> f[i]] /\ \A i \in 0..1 : f[i] = ScanStart
  OBVIOUS
<1>3. 0 \in 0..1 /\ 1 \in 0..1 /\ \A i \in 1..1 : i = 1 /\ i - 1 = 0
  OBVIOUS
<1> HIDE DEF f
<1>4. Follows(f, <<c>>, ScanStart)
  BY <1>1, <1>2, <1>3 DEF Follows
<1>5. \A s : ~IsTopLevel(s, c, op)
  BY DEF IsTopLevel
<1> QED BY <1>1, <1>2, <1>3, <1>4, <1>5 DEF Clean

LEMMA Plain ==
  ASSUME NEW c, c \notin Quotes \cup {Backslash, "(", ")"}
  PROVE  ScanStep(ScanStart, c) = ScanStart
<1>1. ScanStart = At(0, Outside) /\ ~ScanStart.skip /\ ScanStart.quote = Outside /\ ScanStart.depth = 0
  BY StartsAt, Moves
<1>2. ~IsQuoted(Outside, c) /\ c # Backslash /\ Deeper(0, c) = 0
  BY DEF IsQuoted, Toggled, Deeper
<1>3. ScanStep(ScanStart, c) = Sunk(ScanStart, 0)
  BY <1>1, <1>2 DEF ScanStep, Sunk
<1>4. Sunk(At(0, Outside), 0) = At(0, Outside)
  BY Moves
<1> QED BY <1>1, <1>3, <1>4

LEMMA OperatorClean ==
  ASSUME NEW op \in Operators, NEW o \in Operators, o # op
  PROVE  Clean(<<o>>, op)
<1>1. o \in Token
  BY DEF Token, Special
<1>2. o \notin Quotes \cup {Backslash, "(", ")"}
  BY DEF Operators, Quotes, Double, Single, Backslash
<1> QED BY <1>1, <1>2, Plain, TokenClean

LEMMA WordClean ==
  ASSUME NEW op \in Operators, NEW c \in Name \cup Method
  PROVE  Clean(<<c>>, op)
<1>1. c \in Token
  BY DEF Token
<1>2. c \notin Quotes \cup {Backslash, "(", ")"} /\ c # op
  BY ExprAssumption DEF Special
<1> QED BY <1>1, <1>2, Plain, TokenClean

LEMMA CallClean ==
  ASSUME NEW op \in Operators, NEW a \in Name, NEW b \in Method
  PROVE  Clean(<<a, b, "(", ")">>, op)
<1> DEFINE f == [i \in 0..4 |-> IF i = 3 THEN At(1, Outside) ELSE ScanStart]
           p == <<a, b, "(", ")">>
<1>1. p \in Seq(Token) /\ Len(p) = 4 /\ p[1] = a /\ p[2] = b /\ p[3] = "(" /\ p[4] = ")"
  BY DEF Token, Special
<1>2. /\ f = [i \in 0..4 |-> f[i]] /\ f[0] = ScanStart /\ f[1] = ScanStart /\ f[2] = ScanStart
      /\ f[3] = At(1, Outside) /\ f[4] = ScanStart
  OBVIOUS
<1>3. \A i \in 1..4 : \/ (i = 1 /\ i - 1 = 0)
                      \/ (i = 2 /\ i - 1 = 1)
                      \/ (i = 3 /\ i - 1 = 2)
                      \/ (i = 4 /\ i - 1 = 3)
  OBVIOUS
<1>4. ScanStep(ScanStart, "(") = At(1, Outside) /\ ScanStep(At(1, Outside), ")") = ScanStart
  BY StepsAt, StartsAt
<1>5. a \notin Quotes \cup {Backslash, "(", ")"} /\ b \notin Quotes \cup {Backslash, "(", ")"} /\ a # op /\ b # op
  BY ExprAssumption DEF Special
<1>6. ScanStep(ScanStart, a) = ScanStart /\ ScanStep(ScanStart, b) = ScanStart
  BY <1>5, Plain
<1>7. \A s : \A c \in {a, b, "(", ")"} : ~IsTopLevel(s, c, op)
  BY <1>5 DEF IsTopLevel, Operators
<1> HIDE DEF f, p
<1>8. Follows(f, p, ScanStart)
  BY <1>1, <1>2, <1>3, <1>4, <1>6 DEF Follows
<1>9. \A i \in 1..4 : ~IsTopLevel(f[i - 1], p[i], op)
  BY <1>1, <1>3, <1>7
<1>10. Clean(p, op)
  BY <1>1, <1>2, <1>8, <1>9 DEF Clean
<1> QED BY <1>10 DEF p

\* Inside a literal, the scan stays in its quotes.
Quoting == [depth : {0}, quote : {Double}, skip : BOOLEAN]

LEMMA StaysQuoted ==
  ASSUME NEW s \in Quoting, NEW ch, ScanStep(s, ch).quote = Double
  PROVE  ScanStep(s, ch) \in Quoting
<1>1. PICK k \in BOOLEAN : s = [depth |-> 0, quote |-> Double, skip |-> k]
  BY DEF Quoting
<1>s. ASSUME NEW x PROVE [s EXCEPT !.skip = x] = [depth |-> 0, quote |-> Double, skip |-> x]
  BY <1>1
<1>2. CASE k
  <2>1. ScanStep(s, ch) = [s EXCEPT !.skip = FALSE]
    BY <1>1, <1>2 DEF ScanStep
  <2>2. ScanStep(s, ch) = [depth |-> 0, quote |-> Double, skip |-> FALSE]
    BY <1>s, <2>1, Zenon
  <2> QED BY <2>2 DEF Quoting
<1>3. CASE ~k /\ ch = Backslash
  <2>1. ScanStep(s, ch) = [s EXCEPT !.skip = TRUE]
    BY <1>1, <1>3 DEF ScanStep
  <2>2. ScanStep(s, ch) = [depth |-> 0, quote |-> Double, skip |-> TRUE]
    BY <1>s, <2>1, Zenon
  <2> QED BY <2>2 DEF Quoting
<1>4. CASE ~k /\ ch # Backslash
  <2>1. IsQuoted(s.quote, ch)
    BY <1>1 DEF IsQuoted, Double, Outside
  <2>2. ScanStep(s, ch) = [s EXCEPT !.quote = Toggled(s.quote, ch)]
    BY <1>1, <1>4, <2>1 DEF ScanStep
  <2>3. PICK q : q = Toggled(s.quote, ch)
    OBVIOUS
  <2>4. ScanStep(s, ch) = [depth |-> 0, quote |-> q, skip |-> k]
    BY <1>1, <2>2, <2>3
  <2> QED BY <1>4, <2>4 DEF Quoting
<1> QED BY <1>2, <1>3, <1>4

\* What stands between two tokens.
LEMMA Enclosed ==
  ASSUME NEW a \in Token, NEW b \in Token, NEW text \in Seq(Token), NEW n \in Nat, n = Len(text),
         NEW p, p = <<a>> \o text \o <<b>>
  PROVE  /\ p \in Seq(Token) /\ Len(p) = n + 2 /\ p[1] = a /\ p[n + 2] = b
         /\ \A i \in 1..n : p[i + 1] = text[i]
<1>1. PICK h : h = <<a>> \o text
  OBVIOUS
<1>2. h \in Seq(Token)
  BY <1>1
<1>3. Len(h) = n + 1 /\ h[1] = a /\ \A i \in 1..n : h[i + 1] = text[i]
  BY <1>1
<1>4. p = h \o <<b>>
  BY <1>1
<1>5. p \in Seq(Token)
  BY <1>2, <1>4
<1>6. Len(p) = n + 2 /\ p[n + 2] = b
  BY <1>2, <1>3, <1>4
<1>7. \A i \in 1..(n + 1) : p[i] = h[i]
  BY <1>2, <1>3, <1>4
<1>8. 1 \in 1..(n + 1) /\ \A i \in 1..n : i + 1 \in 1..(n + 1)
  OBVIOUS
<1> QED BY <1>3, <1>5, <1>6, <1>7, <1>8

LEMMA LiteralClean ==
  ASSUME NEW op \in Operators, NEW text \in Literal
  PROVE  Clean(<<Double>> \o text \o <<Double>>, op)
<1>1. text \in Seq(Token)
  BY ExprAssumption
<1>2. PICK n \in Nat : n = Len(text)
  BY <1>1
<1>3. PICK f : f = Scan(text, At(0, Double)) /\ Follows(f, text, At(0, Double))
  BY <1>2, ScanFollows
<1>4. (\A i \in 0..n : f[i].quote = Double) /\ ~f[n].skip
  BY <1>2, <1>3, StartsAt, ExprAssumption, SMTT(30)
<1> DEFINE Out == {i \in 0..n : f[i] \notin Quoting}
<1>5. ASSUME Out # {} PROVE FALSE
  <2>1. PICK i \in Out : \A j \in Out : i <= j
    BY <1>5, LeastOf, Out \subseteq Nat
  <2>2. i \in 0..n /\ f[i] \notin Quoting
    OBVIOUS
  <2>3. i # 0
    <3>1. At(0, Double) \in Quoting
      BY DEF At, Quoting
    <3> QED BY <1>3, <2>2, <3>1 DEF Follows
  <2>4. i \in 1..n /\ i - 1 \in 0..n /\ ~(i <= i - 1)
    BY <2>2, <2>3
  <2>5. i - 1 \notin Out
    <3> HIDE DEF Out
    <3> QED BY <2>1, <2>4
  <2>6. f[i - 1] \in Quoting
    BY <2>4, <2>5
  <2>7. f[i] = ScanStep(f[i - 1], text[i])
    BY <1>2, <1>3, <2>4 DEF Follows
  <2>8. f[i].quote = Double
    BY <1>4, <2>2
  <2> QED BY <2>2, <2>6, <2>7, <2>8, StaysQuoted
<1>6. \A i \in 0..n : f[i] \in Quoting
  BY <1>5
<1>7. f[0] = At(0, Double) /\ f[n] = At(0, Double)
  <2>1. f[n] \in Quoting /\ ~f[n].skip
    BY <1>4, <1>6
  <2>2. PICK k \in BOOLEAN : f[n] = [depth |-> 0, quote |-> Double, skip |-> k]
    BY <2>1 DEF Quoting
  <2>3. k = FALSE
    BY <2>1, <2>2
  <2>4. f[n] = At(0, Double)
    BY <2>2, <2>3 DEF At
  <2> QED BY <1>3, <2>4 DEF Follows
<1> DEFINE p == <<Double>> \o text \o <<Double>>
           g == [i \in 0..(n + 2) |-> IF i \in 1..(n + 1) THEN f[i - 1] ELSE ScanStart]
<1>8. Double \in Token
  BY DEF Token, Special, Quotes
<1>9. /\ p \in Seq(Token) /\ Len(p) = n + 2 /\ p[1] = Double /\ p[n + 2] = Double
      /\ \A i \in 1..n : p[i + 1] = text[i]
  BY <1>1, <1>2, <1>8, Enclosed
<1>10. g = [i \in 0..(n + 2) |-> g[i]] /\ g[0] = ScanStart /\ g[n + 2] = ScanStart
  OBVIOUS
<1>11. \A i \in 0..n : g[i + 1] = f[i]
  OBVIOUS
<1>12. ScanStep(ScanStart, Double) = At(0, Double) /\ ScanStep(At(0, Double), Double) = ScanStart
  BY StartsAt, StepsAt
<1>13. \A i \in 1..n : f[i] = ScanStep(f[i - 1], text[i])
  BY <1>2, <1>3 DEF Follows
<1> HIDE DEF p, g, Out
<1>14. ASSUME NEW i \in 1..(n + 2)
       PROVE g[i] = ScanStep(g[i - 1], p[i]) /\ ~IsTopLevel(g[i - 1], p[i], op)
  <2>1. CASE i = 1
    <3>1. g[1] = At(0, Double) /\ i - 1 = 0
      <4>1. 0 \in 0..n /\ 0 + 1 = 1
        OBVIOUS
      <4> QED BY <1>7, <1>11, <2>1, <4>1
    <3>2. ~IsTopLevel(ScanStart, Double, op)
      BY DEF IsTopLevel, Operators, Double
    <3> QED BY <1>9, <1>10, <1>12, <2>1, <3>1, <3>2
  <2>2. CASE i = n + 2
    <3>1. g[n + 1] = At(0, Double) /\ i - 1 = n + 1
      <4>1. n \in 0..n /\ (n + 2) - 1 = n + 1
        OBVIOUS
      <4> QED BY <1>7, <1>11, <2>2, <4>1
    <3>2. ~IsTopLevel(At(0, Double), Double, op)
      BY DEF IsTopLevel, Operators, Double
    <3> QED BY <1>9, <1>10, <1>12, <2>2, <3>1, <3>2
  <2>3. CASE i # 1 /\ i # n + 2
    <3>1. PICK k \in 1..n : i = k + 1
      <4>1. i - 1 \in 1..n /\ i = (i - 1) + 1
        BY <2>3
      <4> QED BY <4>1, Zenon
    <3>2. k \in 0..n /\ k - 1 \in 0..n /\ i - 1 = (k - 1) + 1
      BY <3>1
    <3>3. g[i] = f[k] /\ g[i - 1] = f[k - 1] /\ p[i] = text[k]
      BY <1>9, <1>11, <3>1, <3>2
    <3>4. ~IsTopLevel(f[k - 1], text[k], op)
      <4>1. f[k - 1].quote = Double
        BY <1>4, <3>2
      <4> QED BY <4>1 DEF IsTopLevel, IsQuoted, Double, Outside
    <3> QED BY <1>13, <3>1, <3>3, <3>4
  <2> QED BY <2>1, <2>2, <2>3
<1>15. Follows(g, p, ScanStart)
  BY <1>9, <1>10, <1>14 DEF Follows
<1>16. Clean(p, op)
  BY <1>9, <1>10, <1>14, <1>15 DEF Clean
<1> QED BY <1>16 DEF p

LEMMA LeafClean ==
  ASSUME NEW op \in Operators, NEW e \in Leaf
  PROVE  Clean(TextOfLeaf(e), op)
<1>1. CASE e.kind = "name"
  BY <1>1, WordClean DEF TextOfLeaf, Leaf
<1>2. CASE e.kind = "text"
  BY <1>2, LiteralClean DEF TextOfLeaf, Leaf
<1>3. CASE e.kind = "call"
  <2>1. e.name \in Name /\ e.method \in Method
    BY <1>3 DEF Leaf
  <2> QED BY <1>3, <2>1, CallClean DEF TextOfLeaf
<1> QED BY <1>1, <1>2, <1>3 DEF Leaf

LEMMA JoinedClean ==
  ASSUME NEW op \in Operators, NEW o \in Operators, o # op,
         NEW p, Clean(p, op), NEW q, Clean(q, op)
  PROVE  Clean(Joined(p, o, q), op)
<1>1. Clean(p \o <<o>>, op)
  BY OperatorClean, CleanJoin
<1>2. Clean((p \o <<o>>) \o q, op)
  BY <1>1, CleanJoin
<1> QED BY <1>2 DEF Joined

LEMMA SumClean ==
  ASSUME NEW op \in Operators \ {"+"}, NEW e \in Sum
  PROVE  Clean(TextOfSum(e), op)
<1>1. CASE e \in Leaf
  BY <1>1, LeafClean DEF TextOfSum, Leaf
<1>2. CASE e \in Pair("+")
  <2>1. e.kind = "+" /\ e.left \in Leaf /\ e.right \in Leaf /\ "+" \in Operators
    BY <1>2 DEF Pair, Operators
  <2>2. Clean(Joined(TextOfLeaf(e.left), "+", TextOfLeaf(e.right)), op)
    BY <2>1, LeafClean, JoinedClean
  <2> QED BY <2>1, <2>2 DEF TextOfSum
<1> QED BY <1>1, <1>2 DEF Sum

LEMMA BothClean ==
  ASSUME NEW op \in Operators \ {"+", "&&"}, NEW e \in Sum \cup Both \cup Pair("&&")
  PROVE  Clean(TextOfBoth(e), op)
<1>1. CASE e \in Sum
  <2>1. e.kind # "&&"
    BY <1>1 DEF Sum, Leaf, Pair
  <2> QED BY <1>1, <2>1, SumClean DEF TextOfBoth
<1>2. CASE e \in Both \cup Pair("&&")
  <2>1. e.kind = "&&" /\ e.left \in Sum /\ e.right \in Sum /\ "&&" \in Operators
    BY <1>2 DEF Both, Pair, Sum, Operators
  <2>2. Clean(Joined(TextOfSum(e.left), "&&", TextOfSum(e.right)), op)
    BY <2>1, SumClean, JoinedClean
  <2> QED BY <2>1, <2>2 DEF TextOfBoth
<1> QED BY <1>1, <1>2

\* The evaluation of every text, one level deeper each time.
Round(vars, f, m) ==
  [piece \in Seq(Token) |-> IF m = 0 THEN <<>> ELSE Tried(piece, vars, f[m - 1])]

LEMMA RoundsExist ==
  ASSUME NEW vars, NEW n \in Nat
  PROVE  \E f : f = [m \in 0..n |-> Round(vars, f, m)]
<1> DEFINE Bad == {m \in 0..n : ~(\E f : f = [i \in 0..m |-> Round(vars, f, i)])}
<1>0. ASSUME NEW f, NEW g, NEW k, k # 0 => f[k - 1] = g[k - 1]
      PROVE  Round(vars, f, k) = Round(vars, g, k)
  BY <1>0 DEF Round
<1>1. ASSUME NEW m \in 1..n, NEW f, f = [i \in 0..(m - 1) |-> Round(vars, f, i)]
      PROVE  \E g : g = [i \in 0..m |-> Round(vars, g, i)]
  <2> DEFINE g == [i \in 0..m |-> IF i = m THEN Round(vars, f, m) ELSE f[i]]
  <2>1. \A i \in 0..m : g[i] = Round(vars, g, i)
    <3> SUFFICES ASSUME NEW i \in 0..m PROVE g[i] = Round(vars, g, i)
      OBVIOUS
    <3>1. CASE i = m
      <4>1. m - 1 \in 0..m /\ m - 1 # m /\ m # 0 /\ m \in 0..m
        OBVIOUS
      <4>2. g[m - 1] = f[m - 1] /\ g[m] = Round(vars, f, m)
        BY <4>1
      <4> HIDE DEF g
      <4> QED BY <1>0, <3>1, <4>2
    <3>2. CASE i # m
      <4>1. i \in 0..(m - 1) /\ (i # 0 => i - 1 \in 0..m /\ i - 1 # m)
        BY <3>2
      <4>2. f[i] = Round(vars, f, i)
        BY <1>1, <4>1
      <4>3. g[i] = f[i] /\ (i # 0 => g[i - 1] = f[i - 1])
        BY <3>2, <4>1
      <4> HIDE DEF g
      <4> QED BY <1>0, <4>2, <4>3
    <3> QED BY <3>1, <3>2
  <2>2. g = [i \in 0..m |-> g[i]]
    OBVIOUS
  <2>3. g = [i \in 0..m |-> Round(vars, g, i)]
    <3> HIDE DEF g
    <3> QED BY <2>1, <2>2
  <2> HIDE DEF g
  <2> QED BY <2>3
<1>2. \E f : f = [i \in 0..0 |-> Round(vars, f, i)]
  <2> DEFINE g == [i \in 0..0 |-> Round(vars, <<>>, 0)]
  <2>1. \A i \in 0..0 : i = 0
    OBVIOUS
  <2>2. Round(vars, g, 0) = Round(vars, <<>>, 0)
    <3> HIDE DEF g
    <3> QED BY <1>0
  <2>3. g = [i \in 0..0 |-> Round(vars, g, i)]
    BY <2>1, <2>2
  <2> HIDE DEF g
  <2> QED BY <2>3
<1>3. ASSUME Bad # {} PROVE FALSE
  <2>1. PICK m \in Bad : \A j \in Bad : m <= j
    BY <1>3, LeastOf, Bad \subseteq Nat
  <2>2. m \in 0..n /\ ~(\E f : f = [i \in 0..m |-> Round(vars, f, i)])
    BY <2>1
  <2>3. m # 0
    BY <1>2, <2>2
  <2>4. m \in 1..n /\ m - 1 \in 0..n /\ ~(m <= m - 1)
    BY <2>2, <2>3
  <2>5. m - 1 \notin Bad
    <3> HIDE DEF Bad
    <3> QED BY <2>1, <2>4
  <2>6. PICK f : f = [i \in 0..(m - 1) |-> Round(vars, f, i)]
    BY <2>4, <2>5
  <2> QED BY <1>1, <2>2, <2>4, <2>6
<1>4. n \in 0..n /\ n \notin Bad
  <2> HIDE DEF Bad
  <2> QED BY <1>3
<1> QED BY <1>4

LEMMA EvalRounds ==
  ASSUME NEW vars, NEW text, NEW n \in Nat, n = Len(text)
  PROVE  \E f : f = [m \in 0..n |-> Round(vars, f, m)] /\ Eval(text, vars) = f[n][text]
<1>1. PICK f : /\ f = CHOOSE e : e = [m \in 0..n |-> Round(vars, e, m)]
               /\ f = [m \in 0..n |-> Round(vars, f, m)]
  <2>1. \E f : f = [m \in 0..n |-> Round(vars, f, m)]
    BY RoundsExist
  <2> QED BY <2>1
<1>2. Eval(text, vars) = f[n][text]
  BY <1>1 DEF Eval, Round
<1> WITNESS f
<1> QED BY <1>1, <1>2, Zenon

\* A round that is right about the pieces makes the next right about the whole.
LeavesRight(g, vars) == \A e \in Leaf : g[TextOfLeaf(e)] = LeafMeans(e, vars)
SumsRight(g, vars) == \A e \in Sum : g[TextOfSum(e)] = SumMeans(e, vars)
BothRight(g, vars) == \A e \in Sum \cup Both \cup Pair("&&") : g[TextOfBoth(e)] = BothMeans(e, vars)

LEMMA NoOperator ==
  ASSUME NEW text, NEW vars, NEW g, Clean(text, "?"), Clean(text, "&&"), Clean(text, "+")
  PROVE  Tried(text, vars, g) = Atom(text, vars)
BY NoneFound DEF Tried, IsTernary

LEMMA AtomOfLiteral ==
  ASSUME NEW t, NEW vars, IsLiteral(t), Len(t) # 1
  PROVE  Atom(t, vars) = Unescaped(SubSeq(t, 2, Len(t) - 1))
<1>2. PICK u : u = Unescaped(SubSeq(t, 2, Len(t) - 1))
  OBVIOUS
<1>3. Atom(t, vars) = CASE IsLiteral(t) -> u
                        [] ~IsLiteral(t) /\ IsCall(t) -> CallValue(t, vars)
                        [] Len(t) = 1 /\ t[1] \in Name -> vars[t[1]]
                        [] OTHER -> <<>>
  BY <1>2, Zenon DEF Atom
<1>4. Atom(t, vars) = u
  BY <1>3
<1> QED BY <1>2, <1>4

LEMMA AtomOfCall ==
  ASSUME NEW t, NEW vars, ~IsLiteral(t), IsCall(t)
  PROVE  Atom(t, vars) = CallValue(t, vars)
BY DEF Atom, IsLiteral, IsCall

LEMMA LiteralAtom ==
  ASSUME NEW x \in Literal, NEW vars
  PROVE  Atom(<<Double>> \o x \o <<Double>>, vars) = Unescaped(x)
<1> DEFINE t == <<Double>> \o x \o <<Double>>
<1>1. x \in Seq(Token)
  BY ExprAssumption
<1>2. PICK n \in Nat : n = Len(x)
  BY <1>1
<1>4. Double \in Token
  BY DEF Token, Special, Quotes
<1>5. /\ t \in Seq(Token) /\ Len(t) = n + 2 /\ t[1] = Double /\ t[n + 2] = Double
      /\ \A i \in 1..n : t[i + 1] = x[i]
  BY <1>1, <1>2, <1>4, Enclosed
<1> HIDE DEF t
<1>6. IsLiteral(t)
  <2>1. Last(t) = Double /\ Double \in Quotes
    BY <1>5 DEF Last, Quotes
  <2>2. Len(t) >= 2
    BY <1>5
  <2> QED BY <1>5, <2>1, <2>2 DEF IsLiteral
<1>7. SubSeq(t, 2, Len(t) - 1) = x
  <2>1. PICK k \in Nat : k = n + 1 /\ Len(t) - 1 = k
    BY <1>5
  <2>2. /\ 2 \in Int /\ k \in Int
        /\ (IF 2 <= k THEN (k - 2) + 1 ELSE 0) = n
        /\ \A i \in 1..n : (2 + i) - 1 = i + 1 /\ i + 1 \in 1..(n + 2)
        /\ \A i \in 2..k : i \in 1..(n + 2)
    BY <2>1
  <2>3. \A i \in 2..k : t[i] \in Token
    BY <1>5, <2>2
  <2>4. /\ SubSeq(t, 2, k) \in Seq(Token)
        /\ Len(SubSeq(t, 2, k)) = n
        /\ \A i \in 1..n : SubSeq(t, 2, k)[i] = t[(2 + i) - 1]
    BY <2>2, <2>3, SubSeqProperties
  <2>5. PICK r \in Seq(Token) : r = SubSeq(t, 2, k)
    BY <2>4, Zenon
  <2>6. Len(r) = n /\ \A i \in 1..n : r[i] = x[i]
    BY <1>5, <2>2, <2>4, <2>5
  <2>7. r = x
    BY <1>1, <1>2, <2>6
  <2> QED BY <2>1, <2>5, <2>7
<1>8. Atom(t, vars) = Unescaped(x)
  <2>1. Atom(t, vars) = Unescaped(SubSeq(t, 2, Len(t) - 1))
    <3>1. Len(t) # 1
      BY <1>2, <1>5
    <3> QED BY <1>6, <3>1, AtomOfLiteral
  <2> QED BY <1>7, <2>1, Zenon
<1> QED BY <1>8 DEF t

LEMMA LeafTried ==
  ASSUME NEW e \in Leaf, NEW vars, NEW g
  PROVE  Tried(TextOfLeaf(e), vars, g) = LeafMeans(e, vars)
<1>1. Tried(TextOfLeaf(e), vars, g) = Atom(TextOfLeaf(e), vars)
  <2>1. "?" \in Operators /\ "&&" \in Operators /\ "+" \in Operators
    BY DEF Operators
  <2> QED BY <2>1, LeafClean, NoOperator
<1>2. CASE e.kind = "name"
  <2>1. PICK a \in Name : a = e.name
    BY <1>2 DEF Leaf
  <2>2. TextOfLeaf(e) = <<a>> /\ LeafMeans(e, vars) = vars[a]
    BY <1>2, <2>1 DEF TextOfLeaf, LeafMeans
  <2>3. Len(<<a>>) = 1 /\ <<a>>[1] = a
    OBVIOUS
  <2>4. Atom(<<a>>, vars) = vars[a]
    BY <2>3 DEF Atom, IsLiteral, IsCall
  <2> QED BY <1>1, <2>2, <2>4
<1>3. CASE e.kind = "text"
  <2>1. e.text \in Literal
    BY <1>3 DEF Leaf
  <2>2. TextOfLeaf(e) = <<Double>> \o e.text \o <<Double>> /\ LeafMeans(e, vars) = Unescaped(e.text)
    BY <1>3 DEF TextOfLeaf, LeafMeans
  <2> QED BY <1>1, <2>1, <2>2, LiteralAtom
<1>4. CASE e.kind = "call"
  <2>1. PICK a \in Name, b \in Method : a = e.name /\ b = e.method
    BY <1>4 DEF Leaf
  <2>2. TextOfLeaf(e) = <<a, b, "(", ")">>
    BY <1>4, <2>1 DEF TextOfLeaf
  <2>3. PICK t : t = <<a, b, "(", ")">> /\ Len(t) = 4 /\ t[1] = a /\ t[2] = b /\ t[3] = "(" /\ t[4] = ")"
    <3> DEFINE u == <<a, b, "(", ")">>
    <3>1. Len(u) = 4 /\ u[1] = a /\ u[2] = b /\ u[3] = "(" /\ u[4] = ")"
      OBVIOUS
    <3> QED BY <3>1, Zenon
  <2>4. ~IsLiteral(t)
    <3>1. a \notin Quotes
      BY ExprAssumption DEF Special
    <3> QED BY <2>3, <3>1 DEF IsLiteral
  <2>5. IsCall(t)
    BY <2>3 DEF IsCall
  <2>6. Atom(t, vars) = CallValue(t, vars)
    BY <2>4, <2>5, AtomOfCall
  <2>7. CallValue(t, vars) = LeafMeans(e, vars)
    BY <1>4, <2>1, <2>3 DEF CallValue, LeafMeans
  <2> QED BY <1>1, <2>2, <2>3, <2>6, <2>7
<1> QED BY <1>2, <1>3, <1>4 DEF Leaf

\* The kinds tell the expressions apart.
LEMMA KindsDiffer ==
  /\ \A e \in Leaf : e.kind \notin {"+", "&&", "?"}
  /\ \A o \in {"+", "&&"} : \A e \in Pair(o) : e.kind = o /\ e.left \in Leaf /\ e.right \in Leaf
  /\ \A e \in Both : e.kind = "&&" /\ e.left \in Sum /\ e.right \in Sum
  /\ \A e \in Sum : e.kind \notin {"&&", "?"}
BY DEF Leaf, Pair, Both, Sum

LEMMA SumTried ==
  ASSUME NEW e \in Sum, NEW vars, NEW g, LeavesRight(g, vars)
  PROVE  Tried(TextOfSum(e), vars, g) = SumMeans(e, vars)
<1>1. CASE e \in Leaf
  BY <1>1, KindsDiffer, LeafTried DEF TextOfSum, SumMeans
<1>2. CASE e \in Pair("+")
  <2>1. e.kind = "+" /\ e.left \in Leaf /\ e.right \in Leaf
    BY <1>2, KindsDiffer
  <2>2. "?" \in Operators \ {"+"} /\ "&&" \in Operators \ {"+"} /\ "+" \in Operators
    BY DEF Operators
  <2>3. PICK p, q, t : p = TextOfLeaf(e.left) /\ q = TextOfLeaf(e.right) /\ t = Joined(p, "+", q)
    OBVIOUS
  <2>4. TextOfSum(e) = t /\ SumMeans(e, vars) = LeafMeans(e.left, vars) \o LeafMeans(e.right, vars)
    BY <2>1, <2>3 DEF TextOfSum, SumMeans
  <2>5. Clean(p, "+") /\ Clean(q, "+")
    BY <2>1, <2>2, <2>3, LeafClean
  <2>6. p \in Seq(Token) /\ q \in Seq(Token)
    BY <2>5 DEF Clean
  <2>7. PICK m \in Nat : m = Len(p)
    BY <2>6
  <2>8. TopLevel(t, "+") = m + 1 /\ m + 1 # 0
    BY <2>2, <2>3, <2>5, <2>6, <2>7, FoundAt
  <2>9. TopLevel(t, "?") = 0 /\ TopLevel(t, "&&") = 0
    BY <1>2, <2>2, <2>4, SumClean, NoneFound DEF Sum
  <2>10. Tried(t, vars, g) = Concat(t, g)
    BY <2>8, <2>9 DEF Tried, IsTernary
  <2>11. TextBefore(t, m + 1) = p /\ TextAfter(t, m + 1) = q
    <3>1. "+" \in Token
      BY <2>2 DEF Token, Special
    <3> QED BY <2>3, <2>6, <2>7, <3>1, CutAt
  <2>12. Concat(t, g) = g[p] \o g[q]
    BY <2>8, <2>11 DEF Concat
  <2>13. g[p] = LeafMeans(e.left, vars) /\ g[q] = LeafMeans(e.right, vars)
    BY <2>1, <2>3 DEF LeavesRight
  <2> QED BY <2>4, <2>10, <2>12, <2>13
<1> QED BY <1>1, <1>2 DEF Sum

LEMMA BothTried ==
  ASSUME NEW e \in Sum \cup Both \cup Pair("&&"), NEW vars, NEW g, LeavesRight(g, vars), SumsRight(g, vars)
  PROVE  Tried(TextOfBoth(e), vars, g) = BothMeans(e, vars)
<1>1. CASE e \in Sum
  BY <1>1, KindsDiffer, SumTried DEF TextOfBoth, BothMeans
<1>2. CASE e \in Both \cup Pair("&&")
  <2>1. e.kind = "&&" /\ e.left \in Sum /\ e.right \in Sum
    BY <1>2, KindsDiffer DEF Sum
  <2>2. "?" \in Operators \ {"+", "&&"} /\ "&&" \in Operators \ {"+"} /\ "&&" \in Operators
    BY DEF Operators
  <2>3. PICK p, q, t : p = TextOfSum(e.left) /\ q = TextOfSum(e.right) /\ t = Joined(p, "&&", q)
    OBVIOUS
  <2>4. /\ TextOfBoth(e) = t
        /\ BothMeans(e, vars) = IF SumMeans(e.left, vars) = <<>> THEN <<>> ELSE SumMeans(e.right, vars)
    BY <2>1, <2>3 DEF TextOfBoth, BothMeans
  <2>5. Clean(p, "&&") /\ Clean(q, "&&")
    BY <2>1, <2>2, <2>3, SumClean
  <2>6. p \in Seq(Token) /\ q \in Seq(Token)
    BY <2>5 DEF Clean
  <2>7. PICK m \in Nat : m = Len(p)
    BY <2>6
  <2>8. TopLevel(t, "&&") = m + 1 /\ m + 1 # 0
    BY <2>2, <2>3, <2>5, <2>6, <2>7, FoundAt
  <2>9. TopLevel(t, "?") = 0
    BY <1>2, <2>2, <2>4, BothClean, NoneFound
  <2>10. Tried(t, vars, g) = And(t, g)
    BY <2>8, <2>9 DEF Tried, IsTernary
  <2>11. TextBefore(t, m + 1) = p /\ TextAfter(t, m + 1) = q
    <3>1. "&&" \in Token
      BY <2>2 DEF Token, Special
    <3> QED BY <2>3, <2>6, <2>7, <3>1, CutAt
  <2>12. And(t, g) = IF g[p] = <<>> THEN <<>> ELSE g[q]
    BY <2>8, <2>11 DEF And
  <2>13. g[p] = SumMeans(e.left, vars) /\ g[q] = SumMeans(e.right, vars)
    BY <2>1, <2>3 DEF SumsRight
  <2> QED BY <2>4, <2>10, <2>12, <2>13
<1> QED BY <1>1, <1>2

LEMMA ConditionalTried ==
  ASSUME NEW e \in Conditional, NEW vars, NEW g, LeavesRight(g, vars), SumsRight(g, vars), BothRight(g, vars)
  PROVE  Tried(Text(e), vars, g) = Meaning(e, vars)
<1>1. e.kind = "?" /\ e.test \in Sum \cup Pair("&&") /\ e.yes \in Leaf /\ e.no \in Sum
  BY DEF Conditional
<1>2. /\ "?" \in Operators \ {"+", "&&"} /\ ":" \in Operators \ {"+", "&&"} /\ "?" \in Token /\ ":" \in Token
  BY DEF Operators, Token, Special
<1>3. PICK p, q, r, rest, t : /\ p = TextOfBoth(e.test) /\ q = TextOfLeaf(e.yes) /\ r = TextOfSum(e.no)
                              /\ rest = Joined(q, ":", r) /\ t = Joined(p, "?", rest)
  OBVIOUS
<1>4. /\ Text(e) = t
      /\ Meaning(e, vars) = IF BothMeans(e.test, vars) # <<>> THEN LeafMeans(e.yes, vars) ELSE SumMeans(e.no, vars)
  BY <1>1, <1>3 DEF Text, Meaning
<1>5. Clean(p, "?") /\ Clean(q, ":") /\ Clean(r, ":")
  BY <1>1, <1>2, <1>3, BothClean, LeafClean, SumClean
<1>6. p \in Seq(Token) /\ q \in Seq(Token) /\ r \in Seq(Token)
  BY <1>5 DEF Clean
<1>7. PICK m \in Nat : m = Len(p)
  BY <1>6
<1>8. PICK k \in Nat : k = Len(q)
  BY <1>6
<1>9. /\ TextBefore(rest, k + 1) = q /\ TextAfter(rest, k + 1) = r /\ rest \in Seq(Token)
  BY <1>2, <1>3, <1>6, <1>8, CutAt
<1>10. TextBefore(t, m + 1) = p /\ TextAfter(t, m + 1) = rest
  BY <1>2, <1>3, <1>6, <1>7, <1>9, CutAt
<1>11. TopLevel(rest, ":") = k + 1 /\ k + 1 # 0
  BY <1>2, <1>3, <1>5, <1>6, <1>8, FoundAt
<1>12. TopLevel(t, "?") = m + 1 /\ m + 1 # 0
  BY <1>2, <1>3, <1>5, <1>7, <1>9, FoundAt
<1>13. IsTernary(t)
  BY <1>10, <1>11, <1>12 DEF IsTernary
<1>14. Tried(t, vars, g) = Ternary(t, g)
  BY <1>13 DEF Tried
<1>15. Ternary(t, g) = IF g[p] # <<>> THEN g[q] ELSE g[r]
  BY <1>9, <1>10, <1>11, <1>12 DEF Ternary
<1>16. g[p] = BothMeans(e.test, vars) /\ g[q] = LeafMeans(e.yes, vars) /\ g[r] = SumMeans(e.no, vars)
  BY <1>1, <1>3 DEF LeavesRight, SumsRight, BothRight
<1> QED BY <1>4, <1>14, <1>15, <1>16

\* The text of an expression, and how long it is at least.
LEMMA JoinedLength ==
  ASSUME NEW p \in Seq(Token), NEW q \in Seq(Token), NEW op \in Token
  PROVE  Joined(p, op, q) \in Seq(Token) /\ Len(Joined(p, op, q)) = Len(p) + (1 + Len(q))
<1> PICK m \in Nat : m = Len(p)
  OBVIOUS
<1> PICK n \in Nat : n = Len(q)
  OBVIOUS
<1>1. <<op>> \o q \in Seq(Token) /\ Len(<<op>> \o q) = 1 + n
  OBVIOUS
<1>2. PICK r : r = <<op>> \o q /\ r \in Seq(Token) /\ Len(r) = 1 + n
  BY <1>1, Zenon
<1>3. Joined(p, op, q) = p \o r
  BY <1>2 DEF Joined
<1>4. p \o r \in Seq(Token) /\ Len(p \o r) = m + (1 + n)
  BY <1>2
<1> QED BY <1>3, <1>4

LEMMA JoinedAt ==
  ASSUME NEW S, NEW p \in Seq(S), NEW q \in Seq(S), NEW op \in S, NEW m \in Nat, NEW n \in Nat,
         m = Len(p), n = Len(q)
  PROVE  /\ Len(Joined(p, op, q)) = m + (1 + n) /\ Joined(p, op, q)[m + 1] = op
         /\ \A i \in 1..m : Joined(p, op, q)[i] = p[i]
<1>1. PICK r : r = <<op>> \o q
  OBVIOUS
<1>2. r \in Seq(S) /\ Len(r) = 1 + n /\ r[1] = op
  BY <1>1
<1>3. Joined(p, op, q) = p \o r
  BY <1>1 DEF Joined
<1>4. Len(p \o r) = m + (1 + n) /\ (p \o r)[m + 1] = op /\ \A i \in 1..m : (p \o r)[i] = p[i]
  BY <1>2
<1> QED BY <1>3, <1>4

LongAs(text, k) == text \in Seq(Token) /\ \E n \in Nat : n = Len(text) /\ n >= k

LEMMA JoinedLong ==
  ASSUME NEW p, NEW q, NEW op \in Token, LongAs(p, 1), LongAs(q, 1)
  PROVE  LongAs(Joined(p, op, q), 3) /\ (LongAs(q, 3) => LongAs(Joined(p, op, q), 4))
<1>1. PICK m \in Nat : m = Len(p) /\ m >= 1
  BY DEF LongAs
<1>2. PICK n \in Nat : n = Len(q) /\ n >= 1
  BY DEF LongAs
<1>3. Joined(p, op, q) \in Seq(Token) /\ Len(Joined(p, op, q)) = m + (1 + n)
  <2>1. p \in Seq(Token) /\ q \in Seq(Token)
    BY DEF LongAs
  <2>2. Joined(p, op, q) \in Seq(Token) /\ Len(Joined(p, op, q)) = Len(p) + (1 + Len(q))
    BY <2>1, JoinedLength
  <2> QED BY <1>1, <1>2, <2>2
<1>4. m + (1 + n) \in Nat /\ m + (1 + n) >= 3 /\ (n >= 3 => m + (1 + n) >= 4)
  BY <1>1, <1>2
<1>5. LongAs(q, 3) => n >= 3
  BY <1>2 DEF LongAs
<1> QED BY <1>3, <1>4, <1>5 DEF LongAs

LEMMA LongEnough ==
  /\ \A text : LongAs(text, 3) => LongAs(text, 1)
  /\ \A e \in Leaf : LongAs(TextOfLeaf(e), 1)
  /\ \A e \in Pair("+") : LongAs(TextOfSum(e), 3)
  /\ \A e \in Both \cup Pair("&&") : LongAs(TextOfBoth(e), 3)
  /\ \A e \in Conditional : LongAs(Text(e), 4)
<1>1. \A text : LongAs(text, 3) => LongAs(text, 1)
  BY DEF LongAs
<1>2. "+" \in Token /\ "&&" \in Token /\ "?" \in Token /\ ":" \in Token /\ Double \in Token
  BY DEF Token, Special, Operators, Quotes
<1>3. ASSUME NEW e \in Leaf PROVE LongAs(TextOfLeaf(e), 1)
  <2>1. CASE e.kind = "name"
    <3>1. e.name \in Token
      BY <2>1 DEF Leaf, Token
    <3>2. PICK a \in Token : a = e.name
      BY <3>1, Zenon
    <3>3. <<a>> \in Seq(Token) /\ Len(<<a>>) = 1
      OBVIOUS
    <3>4. TextOfLeaf(e) = <<a>>
      BY <2>1, <3>2 DEF TextOfLeaf
    <3> QED BY <3>3, <3>4 DEF LongAs
  <2>2. CASE e.kind = "text"
    <3> DEFINE u == <<Double>> \o e.text \o <<Double>>
    <3>1. e.text \in Seq(Token)
      BY <2>2, ExprAssumption DEF Leaf
    <3>2. PICK n \in Nat : n = Len(e.text)
      BY <3>1
    <3>3. u \in Seq(Token) /\ Len(u) = n + 2
      BY <1>2, <3>1, <3>2, Enclosed
    <3>4. TextOfLeaf(e) = u
      BY <2>2 DEF TextOfLeaf
    <3> HIDE DEF u
    <3>5. n + 2 \in Nat /\ n + 2 >= 1
      OBVIOUS
    <3> QED BY <3>3, <3>4, <3>5 DEF LongAs
  <2>3. CASE e.kind = "call"
    <3>1. e.name \in Token /\ e.method \in Token /\ "(" \in Token /\ ")" \in Token
      BY <2>3 DEF Leaf, Token, Special
    <3>2. PICK a \in Token, b \in Token : a = e.name /\ b = e.method
      BY <3>1, Zenon
    <3>3. <<a, b, "(", ")">> \in Seq(Token) /\ Len(<<a, b, "(", ")">>) = 4
      BY <3>1
    <3>4. TextOfLeaf(e) = <<a, b, "(", ")">>
      BY <2>3, <3>2 DEF TextOfLeaf
    <3> QED BY <3>3, <3>4 DEF LongAs
  <2> QED BY <2>1, <2>2, <2>3 DEF Leaf
<1>4. ASSUME NEW e \in Pair("+") PROVE LongAs(TextOfSum(e), 3)
  BY <1>2, <1>3, KindsDiffer, JoinedLong DEF TextOfSum
<1>5. ASSUME NEW e \in Sum PROVE LongAs(TextOfSum(e), 1)
  BY <1>1, <1>3, <1>4, KindsDiffer DEF TextOfSum, Sum
<1>6. ASSUME NEW e \in Both \cup Pair("&&") PROVE LongAs(TextOfBoth(e), 3)
  <2>1. e.kind = "&&" /\ e.left \in Sum /\ e.right \in Sum
    BY KindsDiffer DEF Sum
  <2> QED BY <1>2, <1>5, <2>1, JoinedLong DEF TextOfBoth
<1>7. ASSUME NEW e \in Conditional PROVE LongAs(Text(e), 4)
  <2>1. e.kind = "?" /\ e.test \in Sum \cup Pair("&&") /\ e.yes \in Leaf /\ e.no \in Sum
    BY DEF Conditional
  <2>2. LongAs(TextOfBoth(e.test), 1)
    BY <1>1, <1>5, <1>6, <2>1, KindsDiffer DEF TextOfBoth
  <2>3. PICK q : q = Joined(TextOfLeaf(e.yes), ":", TextOfSum(e.no))
    OBVIOUS
  <2>4. LongAs(q, 3) /\ LongAs(q, 1)
    BY <1>1, <1>2, <1>3, <1>5, <2>1, <2>3, JoinedLong
  <2> QED BY <1>2, <2>1, <2>2, <2>3, <2>4, JoinedLong DEF Text
<1> QED BY <1>1, <1>3, <1>4, <1>6, <1>7

LEMMA RoundTried ==
  ASSUME NEW vars, NEW n \in Nat, NEW f, f = [m \in 0..n |-> Round(vars, f, m)],
         NEW m \in 1..n, NEW text \in Seq(Token)
  PROVE  f[m][text] = Tried(text, vars, f[m - 1])
<1>1. m \in 0..n /\ m # 0
  OBVIOUS
<1>2. f[m] = Round(vars, f, m)
  BY <1>1
<1> QED BY <1>1, <1>2 DEF Round

LEMMA RoundsAreRight ==
  ASSUME NEW vars, NEW n \in Nat, NEW f, f = [m \in 0..n |-> Round(vars, f, m)]
  PROVE  /\ \A m \in 1..n : LeavesRight(f[m], vars)
         /\ \A m \in 2..n : SumsRight(f[m], vars)
         /\ \A m \in 3..n : BothRight(f[m], vars)
<1>1. ASSUME NEW m \in 1..n, NEW text \in Seq(Token) PROVE f[m][text] = Tried(text, vars, f[m - 1])
  <2>1. m \in 0..n /\ m # 0
    OBVIOUS
  <2>2. f[m] = Round(vars, f, m)
    BY <2>1
  <2> QED BY <2>1, <2>2 DEF Round
<1>2. ASSUME NEW m \in 1..n PROVE LeavesRight(f[m], vars)
  <2>1. ASSUME NEW e \in Leaf PROVE f[m][TextOfLeaf(e)] = LeafMeans(e, vars)
    <3>1. TextOfLeaf(e) \in Seq(Token)
      BY LongEnough DEF LongAs
    <3> QED BY <1>1, <3>1, LeafTried
  <2> QED BY <2>1 DEF LeavesRight
<1>3. ASSUME NEW m \in 2..n PROVE SumsRight(f[m], vars)
  <2>1. m \in 1..n /\ m - 1 \in 1..n
    OBVIOUS
  <2>2. LeavesRight(f[m - 1], vars)
    BY <1>2, <2>1
  <2>3. ASSUME NEW e \in Sum PROVE f[m][TextOfSum(e)] = SumMeans(e, vars)
    <3>1. TextOfSum(e) \in Seq(Token)
      BY KindsDiffer, LongEnough DEF LongAs, TextOfSum, Sum
    <3>2. f[m][TextOfSum(e)] = Tried(TextOfSum(e), vars, f[m - 1])
      BY <1>1, <2>1, <3>1
    <3> QED BY <2>2, <3>2, SumTried
  <2> QED BY <2>3 DEF SumsRight
<1>4. ASSUME NEW m \in 3..n PROVE BothRight(f[m], vars)
  <2>1. m \in 1..n /\ m - 1 \in 1..n /\ m - 1 \in 2..n
    OBVIOUS
  <2>2. LeavesRight(f[m - 1], vars) /\ SumsRight(f[m - 1], vars)
    BY <1>2, <1>3, <2>1
  <2>3. ASSUME NEW e \in Sum \cup Both \cup Pair("&&") PROVE f[m][TextOfBoth(e)] = BothMeans(e, vars)
    <3>1. TextOfBoth(e) \in Seq(Token)
      <4>1. CASE e \in Sum
        BY <4>1, KindsDiffer, LongEnough DEF LongAs, TextOfBoth, TextOfSum, Sum
      <4>2. CASE e \in Both \cup Pair("&&")
        BY <4>2, LongEnough DEF LongAs
      <4> QED BY <4>1, <4>2
    <3>2. f[m][TextOfBoth(e)] = Tried(TextOfBoth(e), vars, f[m - 1])
      BY <1>1, <2>1, <3>1
    <3> QED BY <2>2, <3>2, BothTried
  <2> QED BY <2>3 DEF BothRight
<1> QED BY <1>2, <1>3, <1>4

\* What is evaluated is what is meant.
LEMMA EvalMeans ==
  ASSUME NEW e \in Tree, NEW vars
  PROVE  LongAs(Text(e), 1) /\ Eval(Text(e), vars) = Meaning(e, vars)
<1>1. CASE e \in Leaf
  <2>1. Text(e) = TextOfLeaf(e) /\ Meaning(e, vars) = LeafMeans(e, vars)
    BY <1>1, KindsDiffer DEF Text, TextOfBoth, TextOfSum, Meaning, BothMeans, SumMeans
  <2>2. LongAs(TextOfLeaf(e), 1)
    BY <1>1, LongEnough
  <2>3. PICK n \in Nat : n = Len(TextOfLeaf(e)) /\ n >= 1
    BY <2>2 DEF LongAs
  <2>4. PICK f : f = [m \in 0..n |-> Round(vars, f, m)] /\ Eval(TextOfLeaf(e), vars) = f[n][TextOfLeaf(e)]
    BY <2>3, EvalRounds
  <2>5. n \in 1..n
    BY <2>3
  <2>6. LeavesRight(f[n], vars)
    BY <2>4, <2>5, RoundsAreRight
  <2> QED BY <1>1, <2>1, <2>2, <2>4, <2>6 DEF LeavesRight
<1>2. CASE e \in Pair("+")
  <2>1. Text(e) = TextOfSum(e) /\ Meaning(e, vars) = SumMeans(e, vars) /\ e \in Sum
    BY <1>2, KindsDiffer DEF Text, TextOfBoth, Meaning, BothMeans, Sum
  <2>2. LongAs(TextOfSum(e), 3)
    BY <1>2, LongEnough
  <2>3. PICK n \in Nat : n = Len(TextOfSum(e)) /\ n >= 3
    BY <2>2 DEF LongAs
  <2>4. PICK f : f = [m \in 0..n |-> Round(vars, f, m)] /\ Eval(TextOfSum(e), vars) = f[n][TextOfSum(e)]
    BY <2>3, EvalRounds
  <2>5. n \in 2..n
    BY <2>3
  <2>6. SumsRight(f[n], vars)
    BY <2>4, <2>5, RoundsAreRight
  <2> QED BY <2>1, <2>2, <2>4, <2>6, LongEnough DEF SumsRight
<1>3. CASE e \in Both
  <2>1. Text(e) = TextOfBoth(e) /\ Meaning(e, vars) = BothMeans(e, vars)
    BY <1>3, KindsDiffer DEF Text, Meaning
  <2>2. LongAs(TextOfBoth(e), 3)
    BY <1>3, LongEnough
  <2>3. PICK n \in Nat : n = Len(TextOfBoth(e)) /\ n >= 3
    BY <2>2 DEF LongAs
  <2>4. PICK f : f = [m \in 0..n |-> Round(vars, f, m)] /\ Eval(TextOfBoth(e), vars) = f[n][TextOfBoth(e)]
    BY <2>3, EvalRounds
  <2>5. n \in 3..n
    BY <2>3
  <2>6. BothRight(f[n], vars)
    BY <2>4, <2>5, RoundsAreRight
  <2> QED BY <1>3, <2>1, <2>2, <2>4, <2>6, LongEnough DEF BothRight
<1>4. CASE e \in Conditional
  <2>1. LongAs(Text(e), 4)
    BY <1>4, LongEnough
  <2>2. PICK n \in Nat : n = Len(Text(e)) /\ n >= 4
    BY <2>1 DEF LongAs
  <2>3. PICK f : f = [m \in 0..n |-> Round(vars, f, m)] /\ Eval(Text(e), vars) = f[n][Text(e)]
    BY <2>2, EvalRounds
  <2>4. n \in 1..n /\ n - 1 \in 1..n /\ n - 1 \in 2..n /\ n - 1 \in 3..n
    BY <2>2
  <2>5. LeavesRight(f[n - 1], vars) /\ SumsRight(f[n - 1], vars) /\ BothRight(f[n - 1], vars)
    BY <2>3, <2>4, RoundsAreRight
  <2>6. f[n][Text(e)] = Tried(Text(e), vars, f[n - 1])
    <3>1. Text(e) \in Seq(Token)
      BY <2>1 DEF LongAs
    <3> QED BY <2>3, <2>4, <3>1, RoundTried
  <2>7. LongAs(Text(e), 1)
    BY <2>1 DEF LongAs
  <2> QED BY <1>4, <2>3, <2>5, <2>6, <2>7, ConditionalTried
<1> QED BY <1>1, <1>2, <1>3, <1>4 DEF Tree, Sum

\* The template around the expression.
LEMMA InLarger ==
  ASSUME NEW S, NEW T, S \subseteq T, NEW p \in Seq(S)
  PROVE  p \in Seq(T)
OBVIOUS

\* What a joined text is, and what the cut gives.
Parts(text, p, op, q) ==
  /\ text = Joined(p, op, q) /\ Len(text) = Len(p) + (1 + Len(q)) /\ text[Len(p) + 1] = op
  /\ \A i \in 1..Len(p) : text[i] = p[i]
  /\ TextBefore(text, Len(p) + 1) = p /\ TextAfter(text, Len(p) + 1) = q

LEMMA JoinedParts ==
  ASSUME NEW W, NEW p \in Seq(W), NEW q \in Seq(W), NEW op \in W
  PROVE  Joined(p, op, q) \in Seq(W) /\ Parts(Joined(p, op, q), p, op, q)
<1>1. PICK m \in Nat : m = Len(p)
  OBVIOUS
<1>2. PICK n \in Nat : n = Len(q)
  OBVIOUS
<1>3. TextBefore(Joined(p, op, q), Len(p) + 1) = p /\ TextAfter(Joined(p, op, q), Len(p) + 1) = q
  BY CutApart
<1>4. Joined(p, op, q) \in Seq(W)
  BY CutApart
<1>5. Len(Joined(p, op, q)) = m + (1 + n) /\ Joined(p, op, q)[m + 1] = op /\ \A i \in 1..m : Joined(p, op, q)[i] = p[i]
  BY <1>1, <1>2, JoinedAt
<1> QED BY <1>1, <1>2, <1>3, <1>4, <1>5, Zenon DEF Parts

LEMMA Interpolated ==
  ASSUME NEW text \in Seq(Token), LongAs(text, 1), NEW vars,
         NEW W, Token \subseteq W, "is" \in W, Opening \in W, Closing \in W, "!" \in W
  PROVE  Interpolate(Joined(<<"is">>, Opening, Joined(text, Closing, <<"!">>)), vars)
           = <<"is">> \o Eval(text, vars) \o <<"!">>
<1>1. PICK n \in Nat : n = Len(text)
  BY DEF LongAs
<1>0. n >= 1
  BY <1>1 DEF LongAs
<1>2. text \in Seq(W)
  BY InLarger
<1>3. PICK is \in Seq(W) : is = <<"is">> /\ Len(is) = 1 /\ is[1] = "is"
  <2>1. <<"is">> \in Seq(W) /\ Len(<<"is">>) = 1 /\ <<"is">>[1] = "is"
    OBVIOUS
  <2> QED BY <2>1, Zenon
<1>4. PICK end \in Seq(W) : end = <<"!">> /\ Len(end) = 1
  <2>1. <<"!">> \in Seq(W) /\ Len(<<"!">>) = 1
    OBVIOUS
  <2> QED BY <2>1, Zenon
<1>5. PICK rest : rest = Joined(text, Closing, end) /\ rest \in Seq(W) /\ Parts(rest, text, Closing, end)
  BY <1>2, JoinedParts
<1>6. TextBefore(rest, n + 1) = text /\ TextAfter(rest, n + 1) = end
  BY <1>1, <1>5, Zenon DEF Parts
<1>7. Len(rest) = n + (1 + 1) /\ rest[n + 1] = Closing /\ \A i \in 1..n : rest[i] = text[i]
  BY <1>1, <1>4, <1>5, Zenon DEF Parts
<1>8. PICK template : template = Joined(is, Opening, rest) /\ template \in Seq(W) /\ Parts(template, is, Opening, rest)
  BY <1>5, JoinedParts
<1>9. TextBefore(template, 1 + 1) = is /\ TextAfter(template, 1 + 1) = rest
  BY <1>3, <1>8, Zenon DEF Parts
<1>10. PICK k \in Nat : k = Len(rest)
  BY <1>5
<1>11. Len(template) = 1 + (1 + k) /\ template[1 + 1] = Opening /\ \A i \in 1..1 : template[i] = is[i]
  BY <1>3, <1>8, <1>10, Zenon DEF Parts
<1>12. template[2] = Opening /\ template[1] = "is" /\ 2 \in 1..(k + 2) /\ n + 1 \in 1..(n + 2)
  BY <1>3, <1>11
<1>o. Opening # "is"
  BY DEF Opening
<1>13. DOMAIN template = 1..(k + 2) /\ DOMAIN rest = 1..(n + 2)
  <2>1. Len(template) = k + 2 /\ Len(rest) = n + 2
    BY <1>7, <1>11
  <2> QED BY <1>6, <1>9, <2>1
<1> DEFINE opens == {i \in DOMAIN template : template[i] = Opening}
           closes == {i \in DOMAIN rest : rest[i] = Closing}
<1>14. FirstOf(opens) = 2
  <2>1. 2 \in opens
    BY <1>12, <1>13
  <2>2. opens \subseteq Nat /\ \A i \in opens : 2 <= i
    BY <1>o, <1>12, <1>13
  <2> HIDE DEF opens
  <2> QED BY <2>1, <2>2, FirstPlace
<1>15. FirstOf(closes) = n + 1
  <2>1. closes \subseteq Nat /\ n + 1 \in closes
    BY <1>7, <1>12, <1>13
  <2>2. \A i \in 1..n : rest[i] # Closing
    <3>1. \A i \in 1..n : text[i] \in Token
      BY <1>1
    <3> QED BY <1>7, <3>1, ExprAssumption
  <2>3. \A i \in closes : n + 1 <= i
    BY <1>13, <2>2
  <2> HIDE DEF closes
  <2> QED BY <2>1, <2>3, FirstPlace
<1>16. TextBefore(template, 2) = is /\ TextAfter(template, 2) = rest
  BY <1>9
<1>17. Interpolate(template, vars) = is \o Eval(text, vars) \o end
  <2>1. ~(2 = 0 \/ n + 1 <= 1)
    BY <1>0
  <2> HIDE DEF opens, closes
  <2> QED BY <1>6, <1>14, <1>15, <1>16, <2>1 DEF Interpolate, opens, closes
<1> QED BY <1>3, <1>4, <1>5, <1>8, <1>17

(***************************************************************************)
(* TemplatesMean: for any names, methods, values and literals, a template  *)
(* gives what the grammar with its precedence gives for its expression     *)
(* (safeInterpolate and safeEvalExpr of trigger-expression-parser.ts).     *)
(***************************************************************************)
THEOREM TemplatesMean == ExprSpec => []RendersAsMeant
<1> DEFINE Inv == written \in Tree /\ RendersAsMeant
<1>1. ExprInit => Inv
  BY DEF ExprInit, RendersAsMeant
<1>2. Inv /\ [Render]_exprVars => Inv'
  <2> SUFFICES ASSUME Inv, [Render]_exprVars PROVE Inv'
    OBVIOUS
  <2>1. CASE Render
    <3>1. written' = written /\ values' = values /\ written \in Tree
      BY <2>1 DEF Render
    <3>2. PICK text : text = Text(written)
      OBVIOUS
    <3>3. LongAs(text, 1) /\ text \in Seq(Token) /\ Eval(text, values) = Meaning(written, values)
      BY <3>1, <3>2, EvalMeans DEF LongAs
    <3>4. rendered' = <<"is">> \o Eval(text, values) \o <<"!">>
      <4>1. PICK W : W = Token \cup {"is", Opening, Closing, "!"}
        OBVIOUS
      <4>2. Token \subseteq W /\ "is" \in W /\ Opening \in W /\ Closing \in W /\ "!" \in W
        BY <4>1
      <4>3. Interpolate(Joined(<<"is">>, Opening, Joined(text, Closing, <<"!">>)), values)
              = <<"is">> \o Eval(text, values) \o <<"!">>
        BY <3>3, <4>2, Interpolated
      <4> QED BY <2>1, <3>2, <4>3 DEF Render
    <3> QED BY <3>1, <3>3, <3>4 DEF RendersAsMeant
  <2>2. CASE UNCHANGED exprVars
    BY <2>2 DEF exprVars, RendersAsMeant
  <2> QED BY <2>1, <2>2
<1>3. Inv => RendersAsMeant
  OBVIOUS
<1> QED BY <1>1, <1>2, <1>3, PTL DEF ExprSpec

==================================================================================
