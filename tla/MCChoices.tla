------------------------------- MODULE MCChoices -------------------------------
(* The components that decide - what to update to, what to show, which trigger *)
(* fires, what a template says - in one run: `part` is the one *)
(* that moves, the others stay as they start. *)
EXTENDS TagUpdate, ContainerDetails, ComposeUpdate, TriggerConfig, HassSensors,
        LogBuffer, ContainersPage, RegistryLookup, Expression, TLC

VARIABLE part

staticVars == <<tagVars, detailVars, composeVars, alertVars, sensorVars>>
laterVars == <<logVars, pageVars, registryVars, exprVars>>
choicesVars == <<part, staticVars, laterVars>>

\* TagUpdate: seven tags, two ways to read them.
MCTag == {"latest", "1.0", "1.1", "1.1_1", "v1.2", "sha9", "1.sig"}
MCPrefix == [q \in MCTag |-> CASE q = "latest" -> <<"l", "a">> [] q = "v1.2" -> <<"v">>
                               [] q = "sha9" -> <<"s", "h">> [] OTHER -> <<>>]
ReadAs(text, version, segments) == [text |-> text, version |-> version, segments |-> segments]
Plain == [q \in MCTag |-> CASE q = "latest" -> ReadAs(q, 0, 0) [] q = "1.0" -> ReadAs(q, 1, 2)
                            [] q \in {"1.1", "1.1_1"} -> ReadAs(q, 2, 2) [] q = "v1.2" -> ReadAs(q, 3, 2)
                            [] q = "sha9" -> ReadAs(q, 9, 1) [] q = "1.sig" -> ReadAs(q, 1, 1)]
Cut == [q \in MCTag |-> CASE q = "1.1_1" -> ReadAs("1.1", 2, 2) [] q = "v1.2" -> ReadAs("1.2", 3, 2)
                          [] OTHER -> Plain[q]]
MCReads == [plain |-> Plain, cut |-> Cut]
MCListing == <<"v1.2", "sha9", "latest", "1.sig", "1.1_1", "1.1", "1.0">>
MCNoise == [sha |-> {"sha9"}, sig |-> {"1.sig"}]
MCFilters == {{"1.1", "1.1_1", "v1.2", "1.sig"}}

\* ContainerDetails: a swarm service's container and the container of drydock.
MCService == [a |-> "s", b |-> NoService]
MCImageOf == [a |-> [domain |-> "ghcr.io", path |-> "library/x"], b |-> [domain |-> "", path |-> "drydock"]]
Imgset(name, at, path) == [name |-> name, domain |-> at, path |-> path, named |-> TRUE]
MCOrders == LET i0 == Imgset(0, "", "x")
                i1 == Imgset(1, "", "library/x")
                i2 == Imgset(2, "ghcr.io", "library/x")
                i3 == Imgset(3, "ghcr.io", "drydock")
            IN  {<<i1, i0, i2, i3>>}
MCLibrary == {<<"library/x", "x">>}
MCLength == [x |-> 1, drydock |-> 7] @@ ("library/x" :> 9) @@ ("docker.io" :> 10)
            @@ ("registry-1.docker.io" :> 21) @@ ("" :> 0) @@ ("ghcr.io" :> 8)

\* ComposeUpdate: a file with two services, one image the start of another,
\* and a file with one.
SlotSymmetry == Permutations(Slot)
MCFileOf == [a |-> "f", b |-> "f", c |-> "g"]
MCFiles == <<"f", "g">>
MCReleases == [a |-> <<"x:10", "x:11">>, b |-> <<"x:1", "x:2">>, c |-> <<"y:1", "y:2">>]
MCWithin == {<<"x:1", "x:10">>, <<"x:1", "x:11">>}

\* TriggerConfig: two triggers of one name, one alone, one of an agent.
MCAlert == {"docker_up", "smtp_up", "http_x", "agent_up"}
MCTypeOf == [docker_up |-> "docker", smtp_up |-> "smtp", http_x |-> "http", agent_up |-> "docker"]
MCNameOf == [docker_up |-> "up", smtp_up |-> "up", http_x |-> "x", agent_up |-> "up"]
Minor == [base |-> "minor", digests |-> TRUE]
PatchNoDigest == [base |-> "patch", digests |-> FALSE]
Digest == [base |-> "digest", digests |-> TRUE]
MCOwn == {[a \in MCAlert |-> IF a \in DOMAIN given THEN given[a] ELSE Unset] :
            given \in [{"smtp_up", "docker_up"} -> {Minor, Unset}]}
MCGroup == {[up |-> u, x |-> Unset] : u \in {PatchNoDigest, Unset}}
MCProvider == {[docker |-> d, smtp |-> s, http |-> Unset] : d, s \in {Digest, Unset}}
MCLists == {<<[ref |-> "up", threshold |-> All]>>,
            <<[ref |-> "http_x", threshold |-> Minor], [ref |-> "docker_up", threshold |-> Minor]>>}

\* HassSensors
MCHostOf == [k |-> "w", l |-> "w"]

\* RegistryLookup: two registries that serve one domain, a repository whose tags
\* are of the three kinds, a manifest list with two variants.
MCServes == [hub |-> {"docker.io"}, quay |-> {"quay.io"}, custom |-> {"quay.io"}]
MCAuthOf == [hub |-> "strict", quay |-> "quay", custom |-> "plain"]
MCRegistryOrders == {<<"hub", "quay", "custom">>}
MCMediaOf == <<"list", "single", "legacy">>
Item(id, arch, variant, media) == [id |-> id, arch |-> arch, variant |-> variant, media |-> media]
MCShapes == {<<Item(1, "arm", "v6", "single"), Item(2, "arm", "v7", "single"),
               Item(3, "amd", NoVariant, "config")>>}
MCHosts == {[arch |-> "arm", variant |-> "v7"], [arch |-> "amd", variant |-> NoVariant],
            [arch |-> "riscv", variant |-> NoVariant]}

\* Expression: literals with a quote of the other kind, operators, an escape.
MCTextValue == {<<>>, <<"v", "w">>}
MCLiteral == {<<Single, "+", "?">>, <<Backslash, Double, ":">>}

-------------------------------------------------------------------------------
FixedTag == /\ config = [include |-> NoFilter, exclude |-> NoFilter, transform |-> "plain",
                         digest |-> "false", hub |-> TRUE]
            /\ current = "1.0" /\ repo = FALSE
FixedDetails == /\ own = [c \in Box |-> {}] /\ offered = [s \in SwarmServices |-> {}]
                /\ imgsets = CHOOSE o \in Orders : TRUE
FixedAlert == /\ ownOf = [a \in Alert |-> Unset] /\ groupOf = [n \in {"up", "x"} |-> Unset]
              /\ providerOf = [docker |-> Unset, smtp |-> Unset, http |-> Unset]
              /\ include = [c \in Cargo |-> Unset]
FixedLookup == /\ order = (CHOOSE o \in RegistryOrders : TRUE) /\ domain = "other" /\ lookup = NoDomain
               /\ private = FALSE /\ content = [q \in Tags |-> NoTag]
               /\ host = (CHOOSE h \in Hosts : TRUE)
FixedTemplate == written = (CHOOSE e \in Leaf : e.kind = "name") /\ values = [n \in Name |-> <<>>]

Init ==
  /\ part \in {"tags", "details", "compose", "thresholds", "sensors", "logs", "page",
               "lookup", "templates"}
  /\ part # "tags" => FixedTag
  /\ part # "details" => FixedDetails
  /\ part # "compose" => dryrun = FALSE
  /\ part # "thresholds" => FixedAlert
  /\ part # "sensors" => discovery = FALSE
  /\ part # "lookup" => FixedLookup
  /\ part = "lookup" => lookup = NoDomain \/ domain = "other"   \* one of the two is read
  /\ part # "templates" => FixedTemplate
  /\ TagInit /\ DetailsInit /\ ComposeInit /\ AlertInit /\ SensorInit /\ LogInit /\ PageInit
  /\ RegistryInit /\ ExprInit

Next ==
  /\ UNCHANGED part
  /\ \/ part = "tags" /\ TagNext
        /\ UNCHANGED <<detailVars, composeVars, alertVars, sensorVars, laterVars>>
     \/ part = "details" /\ DetailsNext
        /\ UNCHANGED <<tagVars, composeVars, alertVars, sensorVars, laterVars>>
     \/ part = "compose" /\ ComposeNext
        /\ UNCHANGED <<tagVars, detailVars, alertVars, sensorVars, laterVars>>
     \/ part = "thresholds" /\ AlertNext
        /\ UNCHANGED <<tagVars, detailVars, composeVars, sensorVars, laterVars>>
     \/ part = "sensors" /\ SensorNext
        /\ UNCHANGED <<tagVars, detailVars, composeVars, alertVars, laterVars>>
     \/ part = "logs" /\ LogNext
        /\ UNCHANGED <<staticVars, pageVars, registryVars, exprVars>>
     \/ part = "page" /\ PageNext
        /\ UNCHANGED <<staticVars, logVars, registryVars, exprVars>>
     \/ part = "lookup" /\ RegistryNext
        /\ UNCHANGED <<staticVars, logVars, pageVars, exprVars>>
     \/ part = "templates" /\ Render
        /\ UNCHANGED <<staticVars, logVars, pageVars, registryVars>>

Spec == Init /\ [][Next]_choicesVars
================================================================================
