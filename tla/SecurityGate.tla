------------------------------ MODULE SecurityGate ------------------------------
(* The security checks of an image (app/security/scan.ts): the gate an update by *)
(* the Docker trigger passes - signature, vulnerability scan, SBOM - the scan a *)
(* user asks for and the SBOM the API generates, which write what they found to *)
(* the document of the container. An image is named by its tag, and the tag may *)
(* be pushed again between the steps. How the runs of Trivy take turns is the *)
(* subject of TrivyQueue. *)
EXTENDS Naturals, Sequences, FiniteSets, SequencesExt, FiniteSetsExt

CONSTANTS Contents,     \* how often the tag is pushed: its contents are 1 .. Contents
          Severities,   \* SECURITY_SEVERITIES, with "UNKNOWN"
          Upcase,       \* the severities Trivy writes -> in upper case
          Reported,     \* content -> the severities Trivy reports, in order
          Signed,       \* the contents with a valid signature
          MaxStored,    \* MAX_STORED_VULNERABILITIES
          GateConfigs,  \* configurations: [enabled, blocking, verify, sbom, formats]
          SbomFormats,  \* SECURITY_SBOM_FORMATS
          DefaultFormat,\* one of them: "spdx-json"
          Recreated,    \* how often the container is recreated
          MaxCalls,     \* calls of the API
          Nothing

ASSUME GateAssumption ==
  /\ Contents \in Nat \ {0} /\ Recreated \in Nat /\ "UNKNOWN" \in Severities
  /\ Reported \in [1..Contents -> Seq(DOMAIN Upcase)] /\ DefaultFormat \in SbomFormats
  /\ \A configured \in GateConfigs : configured.blocking \subseteq Severities

VARIABLES gateConfig,   \* getSecurityConfiguration
          tagged,       \* the content the candidate's tag has at the registry
          running,      \* the content the container runs
          generation,   \* of the container: a recreated one has a new id
          securityOf,   \* the store: generation -> its `security`, or Nothing
          securityStateCache,   \* by the name of the container, or Nothing
          gated,        \* the update under way
          api,          \* the call of the API under way
          calls,        \* how many there were
          moved         \* history: contents pushed since the update began its checks

gateVars == <<gateConfig, tagged, running, generation, securityOf, securityStateCache,
              gated, api, calls, moved>>
theStore == <<securityOf, securityStateCache>>
theApi == <<api, calls>>
theWorld == <<gateConfig, tagged, running, generation>>

\* The scan, and the SBOM: its status, and the formats there is a document in.
NoSecurity == [scan |-> Nothing, sbom |-> Nothing]
IdleUpdate == [at |-> "idle", scan |-> Nothing, image |-> Nothing]
IdleApi == [at |-> "idle", of |-> 0, read |-> NoSecurity, patch |-> NoSecurity]

GateInit ==
  /\ gateConfig \in GateConfigs
  /\ tagged = 1 /\ running = 1 /\ generation = 1
  /\ securityOf = [g \in 1..(1 + Recreated) |-> IF g = 1 THEN NoSecurity ELSE Nothing]
  /\ securityStateCache = Nothing
  /\ gated = IdleUpdate /\ api = IdleApi /\ calls = 0
  /\ moved = {}

-------------------------------------------------------------------------------
(* The results of scan.ts. *)

\* normalizeSeverity
Severity(raw) == IF Upcase[raw] \in Severities THEN Upcase[raw] ELSE "UNKNOWN"

\* parseTrivyOutput
Found(c) == [i \in DOMAIN Reported[c] |-> Severity(Reported[c][i])]

\* buildSummary, getBlockingCount
Summary(found) == [s \in Severities |-> Cardinality({i \in DOMAIN found : found[i] = s})]
Blocking(found) == Cardinality({i \in DOMAIN found : found[i] \in gateConfig.blocking})

Kept(found) == SubSeq(found, 1, Min({Len(found), MaxStored}))

\* Mutant: what is stored is counted.
OfStored(c) ==
  [of |-> c, status |-> IF Blocking(Kept(Found(c))) > 0 THEN "blocked" ELSE "passed",
   summary |-> Summary(Found(c)), vulnerabilities |-> Kept(Found(c))]

\* scanImageForVulnerabilities: all are counted, the first are stored.
ScanResult(c) ==
  [of |-> c, status |-> IF Blocking(Found(c)) > 0 THEN "blocked" ELSE "passed",
   summary |-> Summary(Found(c)), vulnerabilities |-> Kept(Found(c))]

\* mapToErrorResult: Trivy failed, or what it wrote does not parse.
ScanError(c) == [of |-> c, status |-> "error", summary |-> Summary(<<>>), vulnerabilities |-> <<>>]
ScanResults(c) == {ScanResult(c), ScanError(c)}

\* cosign fails for an image without a valid signature, and for other reasons.
CosignAnswers(c) == {"failed", IF c \in Signed THEN "signatures" ELSE "no matching signatures"}

\* verifyImageSignature
Verdict(answer) == CASE answer = "signatures" -> "verified"
                     [] answer = "no matching signatures" -> "unverified"
                     [] OTHER -> "error"

ResolvedFormats(asked) == IF asked \cap SbomFormats # {} THEN asked \cap SbomFormats ELSE {DefaultFormat}

\* generateImageSbom: each format is generated or fails, none is an error.
Sbom(made) == [status |-> IF made = {} THEN "error" ELSE "generated", documents |-> made]
SbomResults(asked) == {Sbom(made) : made \in SUBSET ResolvedFormats(asked)}

Patched(security, patch) ==
  [k \in DOMAIN security |-> IF patch[k] = Nothing THEN security[k] ELSE patch[k]]
Only(k, value) == [NoSecurity EXCEPT ![k] = value]

-------------------------------------------------------------------------------
(* The gate of an update: maybeScanAndGateUpdate, then the image is pulled. *)

PushTagged ==
  /\ tagged < Contents
  /\ tagged' = tagged + 1 /\ moved' = moved \cup {tagged'}
  /\ UNCHANGED <<gateConfig, running, generation, theStore, gated, theApi>>

StartGate ==
  /\ gated.at = "idle" /\ generation <= Recreated /\ securityOf[generation] # Nothing
  /\ tagged # running
  /\ gated' = [IdleUpdate EXCEPT !.at = IF ~gateConfig.enabled THEN "pull"
                                        ELSE IF gateConfig.verify THEN "verify" ELSE "scan"]
  /\ moved' = {}
  /\ UNCHANGED <<theWorld, theStore, theApi>>

\* persistSecurityState: what the store holds now is patched, and cached by name.
Persist(patch) ==
  /\ securityOf' = [securityOf EXCEPT ![generation] = Patched(@, patch)]
  /\ securityStateCache' = securityOf'[generation]

GateStep(at) == gated.at = at /\ UNCHANGED <<theWorld, theApi, moved>>

\* An update whose candidate is not verified fails.
VerifyCandidate ==
  /\ GateStep("verify")
  /\ Persist(NoSecurity)
  /\ \E answer \in CosignAnswers(tagged) :
       gated' = IF Verdict(answer) = "verified" THEN [gated EXCEPT !.at = "scan"] ELSE IdleUpdate

\* The judgement waits for the SBOM.
ScanCandidate ==
  /\ GateStep("scan")
  /\ \E result \in ScanResults(tagged) :
       /\ Persist(Only("scan", result))
       /\ gated' = [gated EXCEPT !.scan = result, !.at = IF gateConfig.sbom THEN "sbom" ELSE "judge"]

SbomOfCandidate ==
  /\ GateStep("sbom")
  /\ \E sbom \in SbomResults(gateConfig.formats) : Persist(Only("sbom", sbom))
  /\ gated' = [gated EXCEPT !.at = "judge"]

Judge ==
  /\ GateStep("judge")
  /\ gated' = IF gated.scan.status = "passed" THEN [gated EXCEPT !.at = "pull"] ELSE IdleUpdate
  /\ UNCHANGED theStore

PullCandidate ==
  /\ GateStep("pull")
  /\ gated' = [gated EXCEPT !.at = "replace", !.image = tagged]
  /\ UNCHANGED theStore

\* The container is recreated and runs the image; its document is another one.
ReplaceRunning ==
  /\ gated.at = "replace"
  /\ running' = gated.image /\ generation' = generation + 1
  /\ gated' = IdleUpdate
  /\ UNCHANGED <<gateConfig, tagged, theStore, theApi, moved>>

\* A watch finds a container the store does not know (insertContainer) and removes
\* the documents of those that are gone.
WatchGate ==
  /\ securityOf[generation] = Nothing
  /\ securityOf' = [g \in DOMAIN securityOf |->
       IF g # generation THEN Nothing
       ELSE IF securityStateCache = Nothing THEN NoSecurity ELSE securityStateCache]
  /\ securityStateCache' = Nothing
  /\ UNCHANGED <<theWorld, gated, theApi, moved>>

-------------------------------------------------------------------------------
(* The API: it works on the document it read first, and writes that one. *)

CallOf(at, patch) == [at |-> at, of |-> generation, read |-> securityOf[generation], patch |-> patch]

Ask(begun) ==
  /\ api.at = "idle" /\ calls < MaxCalls /\ securityOf[generation] # Nothing
  /\ api' = begun /\ calls' = calls + 1
  /\ UNCHANGED <<theWorld, theStore, gated, moved>>

\* scanContainer: the candidate is scanned; the signature and the SBOM follow.
DemandScan == gateConfig.enabled /\ Ask(CallOf("scan", NoSecurity))

DemandStep ==
  /\ api.at \in {"scan", "sbom"}
  /\ \/ api.at = "scan" /\ \E result \in ScanResults(tagged) :
          api' = [api EXCEPT !.patch.scan = result, !.at = IF gateConfig.sbom THEN "sbom" ELSE "write"]
     \/ api.at = "sbom" /\ \E sbom \in SbomResults(gateConfig.formats) :
          api' = [api EXCEPT !.patch.sbom = sbom, !.at = "write"]
  /\ UNCHANGED <<theWorld, theStore, gated, calls, moved>>

\* getContainerSbom: a document that is there is answered, otherwise one of the
\* image that runs is generated and put beside those of the candidate.
HasDocument(security, f) ==
  security.sbom # Nothing /\ security.sbom.status = "generated" /\ f \in security.sbom.documents
WithDocuments(sbom, security) ==
  IF security.sbom = Nothing THEN sbom ELSE [sbom EXCEPT !.documents = @ \cup security.sbom.documents]

AskSbom(f) ==
  /\ securityOf[generation] # Nothing /\ ~HasDocument(securityOf[generation], f)
  /\ \E sbom \in SbomResults({f}) :
       Ask(CallOf("write", Only("sbom", WithDocuments(sbom, securityOf[generation]))))

WriteApi ==
  /\ api.at = "write"
  /\ securityOf' = [securityOf EXCEPT ![api.of] = Patched(api.read, api.patch)]
  /\ api' = IdleApi
  /\ UNCHANGED <<theWorld, securityStateCache, gated, calls, moved>>

GateNext ==
  \/ PushTagged \/ StartGate \/ VerifyCandidate \/ ScanCandidate \/ SbomOfCandidate \/ Judge
  \/ PullCandidate \/ ReplaceRunning \/ WatchGate
  \/ DemandScan \/ DemandStep \/ WriteApi \/ \E f \in SbomFormats : AskSbom(f)

GateSpec == GateInit /\ [][GateNext]_gateVars

-------------------------------------------------------------------------------
\* What the gate is to keep out, and what there is to tell of a content.
Harmful(c) == \/ \E i \in DOMAIN Reported[c] : Upcase[Reported[c][i]] \in gateConfig.blocking
              \/ gateConfig.verify /\ c \notin Signed

VerdictTold(scan) ==
  scan.status # "error" =>
    (scan.status = "blocked" <=>
       \E i \in DOMAIN Reported[scan.of] : Severity(Reported[scan.of][i]) \in gateConfig.blocking)
\* The sum of the counts of a summary: how many units they have between them.
Total(summary) == Cardinality(UNION {{s} \X (1..summary[s]) : s \in Severities})
AllCounted(scan) == scan.status # "error" => Total(scan.summary) = Len(Reported[scan.of])

Documented == {g \in DOMAIN securityOf : securityOf[g] # Nothing /\ securityOf[g].scan # Nothing}

(* An update replaces the container only by an image without a vulnerability of a *)
(* blocking severity, beyond the stored ones too, and with a signature where one *)
(* is asked for - unless the tag was pushed while the update checked it, whose *)
(* content is not checked again (maybeScanAndGateUpdate). *)
LetsInOnlyChecked ==
  gated.at = "replace" /\ gateConfig.enabled /\ gated.image \notin moved => ~Harmful(gated.image)

(* Every scan a document holds says whether what was found is to be blocked *)
(* (scanImageForVulnerabilities, persistSecurityState). *)
VerdictsStand == \A g \in Documented : VerdictTold(securityOf[g].scan)

(* The gate holds: what it lets in was checked, and every scan a document holds *)
(* tells what was found and counts all of it, whoever wrote it and whatever the *)
(* calls overwrite of each other. *)
GateHolds ==
  LetsInOnlyChecked /\ VerdictsStand /\ \A g \in Documented : AllCounted(securityOf[g].scan)
===============================================================================
