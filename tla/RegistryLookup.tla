----------------------------- MODULE RegistryLookup ----------------------------
(* What a watch asks of a registry: which provider serves the image, all the tags *)
(* of its repository, page by page, and the digest a tag has for the platform of *)
(* the container. The repository changes between the requests: tags are pushed *)
(* and deleted while they are listed, and moved while their manifest is read. *)
EXTENDS Integers, Sequences, FiniteSets, Functions, SequencesExt, FiniteSetsExt

CONSTANTS RegistryName,     \* the registered registries
          Serves,       \* RegistryName -> the domains its match accepts
          AuthOf,       \* RegistryName -> "plain", "strict" or "quay": see Admitted
          RegistryOrders,       \* the orders registries may have come up in
          Domain, NoDomain,
          Tags,         \* tags, as numbers in the order a registry lists them
          PageSize,
          MediaOf,      \* Tags -> "list", "single" or "legacy"
          Shapes,       \* what a manifest list may hold: sequences of entries [id, arch, variant, media]
          Hosts,        \* the platforms of containers: [arch, variant]
          NoVariant, NoTag,
          MaxChanges    \* pushes and deletions

\* The entries of a list are numbered as it holds them, and no digest is missing.
ASSUME LookupAssumption ==
  /\ Tags \subseteq Nat \ {0} /\ NoTag \notin Tags
  /\ PageSize \in Nat \ {0} /\ MaxChanges \in Nat
  /\ \A shape \in Shapes :
       /\ shape \in Seq(Range(shape))
       /\ \A i, j \in DOMAIN shape : shape[i].id \in Nat /\ (i < j => shape[i].id < shape[j].id)
       /\ \A i \in DOMAIN shape, push \in 0 .. MaxChanges : <<push, shape[i].id>> # NoTag

VARIABLES order, domain, lookup,   \* the registries, the image's domain, its dd.lookup.image
          private,      \* the repository answers no anonymous request
          content,      \* Tags -> its release, or NoTag
          changes,
          host,         \* the platform of the container
          lookupStage,        \* of the lookup
          found,        \* getTags: what the pages held so far
          asked,        \* the tag whose digest is asked
          entry,        \* of the manifest list that was read, or NoTag
          digest,       \* the answer
          always, ever, \* history: tags there all along the listing, and at some moment of it
          releases      \* history: what the asked tag was since it was asked for

imageVars == <<order, domain, lookup, private, host>>    \* do not change
repoVars == <<content, changes>>
pastVars == <<always, ever, releases>>
registryVars == <<imageVars, repoVars, pastVars, lookupStage, found, asked, entry, digest>>

Held == {t \in Tags : content[t] # NoTag}

Release(t, shape) == [push |-> changes, tag |-> t, entries |-> shape]

\* The digests of a release: of each entry of a list, of the manifest itself.
EntryDigest(r, e) == <<r.push, e.id>>
OwnDigest(r) == <<r.push, 0>>

RegistryInit ==
  /\ order \in RegistryOrders /\ domain \in Domain /\ lookup \in Domain \cup {NoDomain}
  /\ private \in BOOLEAN
  /\ changes = 1
  /\ \E held \in SUBSET Tags, shape \in Shapes :
       content = [t \in Tags |-> IF t \in held THEN [push |-> 0, tag |-> t, entries |-> shape] ELSE NoTag]
  /\ host \in Hosts
  /\ lookupStage = "idle" /\ found = <<>> /\ asked = NoTag /\ entry = NoTag /\ digest = NoTag
  /\ always = {} /\ ever = {} /\ releases = {}

-------------------------------------------------------------------------------
\* Others push and delete tags of the repository.
ContentChanges ==
  /\ changes' = changes + 1
  /\ always' = always \cap {t \in Tags : content'[t] # NoTag}
  /\ ever' = IF lookupStage = "tags" THEN ever \cup {t \in Tags : content'[t] # NoTag} ELSE ever
  /\ releases' = IF asked # NoTag /\ content'[asked] # NoTag
                 THEN releases \cup {content'[asked]} ELSE releases
  /\ UNCHANGED <<imageVars, lookupStage, found, asked, entry, digest>>

PushTag(t, shape) ==
  /\ changes <= MaxChanges
  /\ content' = [content EXCEPT ![t] = Release(t, shape)]
  /\ ContentChanges

Delete(t) ==
  /\ changes <= MaxChanges /\ t \in Held
  /\ content' = [content EXCEPT ![t] = NoTag]
  /\ ContentChanges

-------------------------------------------------------------------------------
\* getImageForRegistryLookup, then the first registry that matches.
LookupDomain == IF lookup = NoDomain THEN domain ELSE lookup
MatchingRegistries == SelectSeq(order, LAMBDA p : LookupDomain \in Serves[p])
ChosenRegistry == Head(MatchingRegistries)

\* authenticate: "plain" sends what is configured; "strict" fetches a token and
\* throws when it cannot; "quay" looks for the token beside the data of the
\* response, where it is not, and asks anonymously.
Admitted(fetched) ==
  CASE AuthOf[ChosenRegistry] = "plain" -> TRUE
    [] AuthOf[ChosenRegistry] = "strict" -> fetched
    [] AuthOf[ChosenRegistry] = "quay" -> ~private

\* findNewVersion: without a registry the tag stays, otherwise the tags are listed.
StartLookup ==
  /\ lookupStage = "idle"
  /\ lookupStage' = IF MatchingRegistries = <<>> THEN "unsupported" ELSE "tags"
  /\ always' = Held /\ ever' = Held
  /\ UNCHANGED <<imageVars, repoVars, found, asked, entry, digest, releases>>

\* What the registry lists after a cursor, and a page of it: in order, and with all
\* of it when the page is not full.
TagsAfter(after) == {t \in Held : t > after}
IsPage(page, after) ==
  /\ Range(page) \subseteq TagsAfter(after)
  /\ \A i, j \in DOMAIN page : i < j => page[i] < page[j]
  /\ \A i \in DOMAIN page, t \in TagsAfter(after) \ Range(page) : page[i] < t
  /\ Len(page) = PageSize \/ TagsAfter(after) \subseteq Range(page)

\* Mutant: the number of tags seen so far.
Offset(tags) ==
  IF tags = <<>> \/ Held = {} THEN 0
  ELSE CHOOSE t \in Held : Cardinality({u \in Held : u <= t}) = Min({Len(tags), Cardinality(Held)})

\* The cursor of the next page: the last tag of the page before it.
Cursor(tags) == IF tags = <<>> THEN 0 ELSE Last(tags)

TagsPage(fetched) ==
  /\ lookupStage = "tags"
  /\ IF Admitted(fetched)
     THEN LET after == Cursor(found)
          IN  \E size \in 0 .. PageSize : \E page \in [1 .. size -> Held] :
                /\ IsPage(page, after)
                /\ found' = found \o page
                /\ lookupStage' = IF TagsAfter(after) \subseteq Range(page) THEN "listed" ELSE "tags"
     ELSE lookupStage' = "failed" /\ UNCHANGED found
  /\ UNCHANGED <<imageVars, repoVars, pastVars, asked, entry, digest>>

\* handleDigestWatch: the digest of the candidate, one of the tags that were listed.
AskDigest(t) ==
  /\ lookupStage = "listed" /\ t \in Range(found)
  /\ lookupStage' = "manifest" /\ asked' = t
  /\ releases' = IF content[t] = NoTag THEN {} ELSE {content[t]}
  /\ UNCHANGED <<imageVars, repoVars, found, entry, digest, always, ever>>

\* filterManifestByPlatform: of the entries of the architecture, the first of the
\* variant if there are several and one has it, otherwise the first.
OfArch(entries) == {i \in DOMAIN entries : entries[i].arch = host.arch}
OfVariant(entries) == {i \in OfArch(entries) : entries[i].variant = host.variant}
Refined(entries) ==
  Cardinality(OfArch(entries)) > 1 /\ host.variant # NoVariant /\ OfVariant(entries) # {}
BestEntry(entries) ==
  LET fits == IF Refined(entries) THEN OfVariant(entries) ELSE OfArch(entries)
  IN  entries[CHOOSE i \in fits : \A j \in fits : i <= j]

\* getImageManifestDigest: a list is narrowed to an entry, a manifest is asked for
\* once more by its tag, a legacy one and an entry that is a configuration hold
\* the digest themselves.
ReadManifest(fetched) ==
  /\ lookupStage = "manifest"
  /\ LET r == content[asked]
         media == MediaOf[asked]
         listed == media = "list" /\ r # NoTag
         fits == ~listed \/ OfArch(r.entries) # {}
     IN  \/ /\ ~Admitted(fetched) \/ r = NoTag \/ ~fits
            /\ lookupStage' = "failed" /\ UNCHANGED <<entry, digest>>
         \/ /\ Admitted(fetched) /\ r # NoTag /\ fits
            /\ IF media = "legacy" \/ (listed /\ BestEntry(r.entries).media = "config")
               THEN /\ lookupStage' = "done" /\ UNCHANGED entry
                    /\ digest' = IF listed THEN EntryDigest(r, BestEntry(r.entries)) ELSE OwnDigest(r)
               ELSE /\ lookupStage' = "head" /\ UNCHANGED digest
                    /\ entry' = IF listed THEN EntryDigest(r, BestEntry(r.entries)) ELSE NoTag
  /\ UNCHANGED <<imageVars, repoVars, pastVars, found, asked>>

\* fetchManifestDigestFromHead: by the digest of the entry, which the registry may
\* have collected, or by the tag.
ReadHead(fetched, collected) ==
  /\ lookupStage = "head"
  /\ IF \/ ~Admitted(fetched)
        \/ entry # NoTag /\ collected
        \/ entry = NoTag /\ content[asked] = NoTag
     THEN lookupStage' = "failed" /\ UNCHANGED digest
     ELSE /\ lookupStage' = "done"
          /\ digest' = IF entry # NoTag THEN entry ELSE OwnDigest(content[asked])
  /\ UNCHANGED <<imageVars, repoVars, pastVars, found, asked, entry>>

RegistryNext ==
  \/ StartLookup
  \/ \E t \in Tags : Delete(t) \/ AskDigest(t) \/ \E shape \in Shapes : PushTag(t, shape)
  \/ \E fetched \in BOOLEAN : TagsPage(fetched) \/ ReadManifest(fetched)
                              \/ \E collected \in BOOLEAN : ReadHead(fetched, collected)

RegistrySpec == RegistryInit /\ [][RegistryNext]_registryVars

-------------------------------------------------------------------------------
\* The digests a release offers the host: of the entries of its architecture those
\* of its variant, or the first when there is none.
Offers(r) ==
  IF MediaOf[r.tag] # "list" THEN {OwnDigest(r)}
  ELSE LET fits == {e \in Range(r.entries) : e.arch = host.arch}
           exact == {e \in fits : host.variant # NoVariant /\ e.variant = host.variant}
           first == {e \in fits : \A f \in fits : e.id <= f.id}
       IN  {EntryDigest(r, e) : e \in IF exact # {} THEN exact ELSE first}

(* A lookup answers what the repository held: a listing has every tag that was *)
(* there all along and none that never was, however tags come and go between its *)
(* pages (getTags), and a digest is the one the tag had for the container's *)
(* platform at some moment after it was asked for (getImageManifestDigest). *)
LookupIsTrue ==
  /\ lookupStage \in {"listed", "manifest", "head", "done"} =>
       /\ always \subseteq Range(found) /\ Range(found) \subseteq ever
       /\ Cardinality(Range(found)) = Len(found)
  /\ lookupStage = "done" => \E r \in releases : digest \in Offers(r)
===============================================================================
