-------------------------- MODULE StatefulSetTemplate --------------------------
(***************************************************************************)
(* What the operator writes into the StatefulSet of a WildFlyServer: the   *)
(* pod template and the volume claim, derived from the spec, and how they  *)
(* follow the edits of the spec.  A pass reads the WildFlyServer, lists    *)
(* its pods and creates, updates or deletes the StatefulSet; the user may  *)
(* edit the spec between any two of these steps.                           *)
(*                                                                         *)
(* The replicas and the pods are WildFlyServerController's; the other      *)
(* objects, failures and lagging caches are OwnedResources'.               *)
(***************************************************************************)
EXTENDS GoUtilities, FiniteSets

CONSTANTS
    Requests,       \* the specs the user may give the WildFlyServer
    Environments,   \* the environments the operator may have been deployed with
    UserLabels,     \* the labels of the WildFlyServer
    PodNames,       \* the names of the pods that are there
    MaxEdits        \* bound: how often the user edits the spec

\* A quantity as it is written, in mebibytes or gibibytes.
Written == [n : Nat \ {0}, unit : {"Mi", "Gi"}]

ProbeKinds == {"liveness", "readiness", "startup"}

\* A name, a path or a value is a sequence of words.
Text == Seq(STRING)

ASSUME MaxEditsAssumption == MaxEdits \in Nat
ASSUME RequestsAssumption ==
    /\ Requests # {}
    /\ \A r \in Requests :
          /\ r.storage.kind \in {"none", "emptyDir", "claim"}
          /\ r.storage.kind = "claim" => r.storage.size \in Written
          /\ r.bootableJar \in BOOLEAN /\ r.standaloneConfigMap \in BOOLEAN
          /\ r.secrets \in Seq(Text) /\ r.configMaps \in Seq(Text)
          /\ r.env \in Seq([name : STRING, value : Text])
          /\ \A k \in ProbeKinds : r.probes[k].handlers \subseteq {"exec", "httpGet"}

\* The pods are named after the StatefulSet, with their ordinal at the end.
ASSUME PodNamesAssumption ==
    IsFiniteSet(PodNames) /\ \A p \in PodNames : p \in Text /\ HasNumber(p)

\* The words the names of volumes are built from, of which three make a name.
ASSUME WordsAssumption ==
    /\ {"w", "volume", "standalone", "secret", "configmap"} \subseteq Letters
    /\ DNS1123LabelMaxLength >= 3

VARIABLES
    environment,    \* the environment variables of the operator
    spec,           \* the spec of the WildFlyServer
    generation,     \* its generation
    pass,           \* what the pass in progress has read, or NoPass
    sts             \* the StatefulSet, or Absent

vars == <<environment, spec, generation, pass, sts>>

Absent == [generation |-> 0]
NoPass == [generation |-> 0]

-----------------------------------------------------------------------------
(* Quantities.  A quantity is kept as its amount and, when the text it was *)
(* parsed from passes for canonical, with that text.                       *)

NoText == <<>>
Factor == [Mi |-> 1, Gi |-> 1024]

\* A text is kept when its number is no multiple of 8.
ParseQuantity(written) ==
    [amount |-> written.n * Factor[written.unit],
     text   |-> IF written.n % 8 # 0 THEN <<written>> ELSE NoText]

\* The number with the largest unit that divides it.
CanonicalizeBytes(amount) ==
    IF amount % 1024 = 0 THEN [n |-> amount \div 1024, unit |-> "Gi"]
    ELSE [n |-> amount, unit |-> "Mi"]

Marshal(quantity) ==
    IF quantity.text # NoText THEN quantity.text[1] ELSE CanonicalizeBytes(quantity.amount)

-----------------------------------------------------------------------------
(* Labels.                                                                 *)

Markers == {"operated-by-loadbalancer", "operated-by-headless"}
Active  == [m \in Markers |-> "active"]

LabelsForWildFly == MapMerge([l \in {"name", "managed-by", "runtime"} |-> "operator"], UserLabels)

\* The labels of a new pod: the markers, and those of the operator's environment.
TemplateLabels == MapMerge(MapMerge(LabelsForWildFly, Active), environment.templateLabels)

\* Faulty variant: the markers are put into the map that is the selector too.
SelectorSharesMap == TemplateLabels

SelectorLabels == LabelsForWildFly

\* The selectors of the services: the headless marker is put on all of them.
ServiceSelector(service) ==
    MapMerge(LabelsForWildFly,
             [m \in {"operated-by-headless"} \cup
                    (IF service = "cluster" THEN {"operated-by-loadbalancer"} ELSE {}) |-> "active"])

Selects(selector, labels) ==
    \A l \in DOMAIN selector : l \in DOMAIN labels /\ labels[l] = selector[l]

-----------------------------------------------------------------------------
(* Probes.                                                                 *)

Timings == {"delay", "timeout", "period", "success", "failure"}

DefaultTiming == [
    liveness  |-> [delay |-> 0,  timeout |-> 1, period |-> 10, success |-> 1, failure |-> 3],
    readiness |-> [delay |-> 10, timeout |-> 1, period |-> 10, success |-> 1, failure |-> 3],
    startup   |-> [delay |-> 10, timeout |-> 1, period |-> 10, success |-> 1, failure |-> 11]]

\* The startup probe asks the same endpoint and the same script as the liveness probe.
EndPoint == [liveness |-> "/health/live", readiness |-> "/health/ready", startup |-> "/health/live"]
ScriptOf == [liveness |-> "liveness", readiness |-> "readiness", startup |-> "liveness"]

\* Faulty variant: zero stands for "not given", for the delay too.
ZeroIsUnset(asked, t) == t \in DOMAIN asked /\ asked[t] # 0

\* The delay is a pointer and may be given as zero; for the others zero stands
\* for "not given".
IsGiven(asked, t) == t \in DOMAIN asked /\ (t # "delay" => asked[t] # 0)

\* A handler that the user gives wins, Exec before HTTPGet.
ProbeAction(r, kind) ==
    LET handlers == r.probes[kind].handlers
    IN CASE "exec" \in handlers -> <<"exec", "user">>
         [] handlers = {"httpGet"} -> <<"httpGet", "user">>
         [] handlers = {} /\ ScriptOf[kind] \in environment.scripts /\ ~r.bootableJar
              -> <<"exec", "script", ScriptOf[kind]>>
         [] OTHER -> <<"httpGet", EndPoint[kind]>>

CreateProbe(r, kind) ==
    [action |-> ProbeAction(r, kind),
     timing |-> [t \in Timings |-> IF IsGiven(r.probes[kind].timing, t)
                                   THEN r.probes[kind].timing[t]
                                   ELSE DefaultTiming[kind][t]]]

-----------------------------------------------------------------------------
(* Volumes and where they are mounted.                                     *)

Name           == <<"w">>
DataVolumeName == Name \o <<"-", "volume">>
ConfigVolume   == <<"standalone", "-", "volume">>

JBossHome(bootable)        == IF bootable THEN "bootableHome" ELSE "home"
JBossHomeDataDir(bootable) == IF bootable THEN "bootableData" ELSE "home"

DataDir(bootable) == <<JBossHomeDataDir(bootable), "standalone/data">>

\* A volume with the place it is mounted at, for a secret or a config map.
NamedVolume(kind, name) ==
    [name |-> SanitizeVolumeName(<<kind, "-">> \o name), source |-> <<kind, name>>]
NamedMount(kind, name) ==
    [name |-> SanitizeVolumeName(<<kind, "-">> \o name), path |-> <<kind, name>>]

Each(Op(_, _), kind, names) == [i \in DOMAIN names |-> Op(kind, names[i])]

Volumes(r) ==
    (IF r.storage.kind = "claim" THEN <<>>
     ELSE <<[name |-> DataVolumeName, source |-> <<"emptyDir", r.storage.kind>>]>>)
    \o (IF r.standaloneConfigMap THEN <<[name |-> ConfigVolume, source |-> <<"standalone">>]>>
        ELSE <<>>)
    \o Each(NamedVolume, "secret", r.secrets) \o Each(NamedVolume, "configmap", r.configMaps)

\* The data directory is mounted from the volume named after the WildFlyServer,
\* whatever name the user gives the claim.
VolumeMounts(r) ==
    <<[name |-> DataVolumeName, path |-> DataDir(r.bootableJar)]>>
    \o (IF r.standaloneConfigMap
        THEN <<[name |-> ConfigVolume, path |-> <<JBossHome(r.bootableJar), "standalone.xml">>]>>
        ELSE <<>>)
    \o Each(NamedMount, "secret", r.secrets) \o Each(NamedMount, "configmap", r.configMaps)

\* A claim keeps the name the user gives it.  Its storage class is copied too.
VolumeClaimTemplates(r) ==
    IF r.storage.kind # "claim" THEN <<>>
    ELSE <<[name      |-> IF r.storage.name = <<>> THEN DataVolumeName ELSE r.storage.name,
            resources |-> ParseQuantity(r.storage.size),
            class     |-> r.storage.class,
            mode      |-> "none"]>>

-----------------------------------------------------------------------------
(* The pod template and the StatefulSet.                                   *)

Var(name, value) == [name |-> name, value |-> value]

EnvForClustering == <<Var("KUBERNETES_NAMESPACE", <<"namespace">>),
                      Var("KUBERNETES_LABELS", <<"labels">>)>>
EnvForEJBRecovery == <<Var("STATEFULSET_HEADLESS_SERVICE_NAME", <<"headless">>)>>
EnvArgsForBootableJAR(r) ==
    IF r.bootableJar
    THEN <<Var("JAVA_ARGS", DataDir(TRUE)), Var("JBOSS_HOME", <<JBossHome(TRUE)>>)>>
    ELSE <<>>

\* Faulty variant: the variables of the user come last.
EnvUserLast(r) == EnvForClustering \o EnvForEJBRecovery \o EnvArgsForBootableJAR(r) \o r.env

\* The variables of the user come first.
Env(r) == r.env \o EnvForClustering \o EnvForEJBRecovery \o EnvArgsForBootableJAR(r)

\* The image, resources, security context and service account are copied.
Template(r) ==
    [labels      |-> TemplateLabels,
     imageType   |-> IF r.bootableJar THEN "bootable-jar" ELSE "generic",
     application |-> r.application,
     probes      |-> [k \in ProbeKinds |-> CreateProbe(r, k)],
     env         |-> Env(r),
     volumes     |-> Volumes(r),
     mounts      |-> VolumeMounts(r)]

\* Faulty variant: the marker names the edit after this one.
NextMarker == pass.generation + 1

\* Create and the update of the StatefulSet write the generation that was read.
Marker == pass.generation

NewStatefulSet(r) ==
    [generation |-> Marker,
     selector   |-> SelectorLabels,
     template   |-> Template(r),
     claims     |-> VolumeClaimTemplates(r)]

\* What is read back of a claim: the API server fills in the volume mode, and the
\* quantity has been written and parsed again.
StoredClaim(claim) ==
    [claim EXCEPT !.mode = "Filesystem", !.resources = ParseQuantity(Marshal(claim.resources))]

Stored(set) == [set EXCEPT !.claims = [i \in DOMAIN @ |-> StoredClaim(@[i])]]

\* The API server refuses a StatefulSet that does not select its own pods.
Accepted(set) == Selects(set.selector, set.template.labels)

-----------------------------------------------------------------------------
(* The pass and the user.                                                  *)

Generations == 1 .. MaxEdits + 1

TypeOK ==
    /\ environment \in Environments
    /\ spec \in Requests
    /\ generation \in Generations
    /\ pass # NoPass => /\ pass.generation \in Generations
                        /\ pass.spec \in Requests
                        /\ ToSet(pass.podList) \subseteq PodNames
    /\ sts # Absent => /\ sts.generation \in Generations
                       /\ Len(sts.claims) \in 0 .. 1

Init ==
    /\ environment \in Environments
    /\ spec \in Requests
    /\ generation = 1
    /\ pass = NoPass
    /\ sts = Absent

\* A Bootable JAR takes no configuration from a config map.
Validate(r) == ~(r.bootableJar /\ r.standaloneConfigMap)

\* The API server lists the pods in any order.
Fetch ==
    /\ pass = NoPass
    /\ Validate(spec)
    /\ \E podList \in IF sts = Absent THEN {<<>>} ELSE SetToSeqs(PodNames) :
          pass' = [generation |-> generation, spec |-> spec,
                   podList |-> SortPodListByName(podList)]
    /\ UNCHANGED <<environment, spec, generation, sts>>

\* The pass writes the StatefulSet, unless the API server refuses it, and ends.
Write(set) ==
    /\ pass # NoPass /\ pass' = NoPass
    /\ sts' = IF Accepted(set) THEN Stored(set) ELSE sts
    /\ UNCHANGED <<environment, spec, generation>>

CreateStatefulSet ==
    /\ sts = Absent
    /\ Write(NewStatefulSet(pass.spec))

\* Faulty variant: a claim that is no longer wanted is overlooked.
ClaimsDifferIfWanted(found, wanted) ==
    wanted # <<>> /\ (found # <<>> => \/ found[1].name # wanted[1].name
                                      \/ found[1].resources # wanted[1].resources)

\* Faulty variant: the claims are compared in every field.
ClaimsDifferAnywhere(found, wanted) == found # wanted

\* A claim is compared by its name, its access modes, which are always the same,
\* and its resources.
ClaimsDiffer(found, wanted) ==
    \/ (found = <<>>) # (wanted = <<>>)
    \/ /\ found # <<>> /\ wanted # <<>>
       /\ \/ found[1].name # wanted[1].name
          \/ found[1].resources # wanted[1].resources

Outdated == pass # NoPass /\ sts # Absent /\ sts.generation # pass.generation

DeleteStatefulSet ==
    /\ Outdated
    /\ ClaimsDiffer(sts.claims, VolumeClaimTemplates(pass.spec))
    /\ sts' = Absent /\ pass' = NoPass
    /\ UNCHANGED <<environment, spec, generation>>

\* Only the template and the marker are replaced.
UpdateStatefulSet ==
    /\ Outdated
    /\ ~ClaimsDiffer(sts.claims, VolumeClaimTemplates(pass.spec))
    /\ Write([sts EXCEPT !.template = Template(pass.spec), !.generation = Marker])

StatefulSetIsCurrent ==
    /\ pass # NoPass /\ sts # Absent
    /\ sts.generation = pass.generation
    /\ pass' = NoPass
    /\ UNCHANGED <<environment, spec, generation, sts>>

EditSpec ==
    /\ generation <= MaxEdits
    /\ spec' \in Requests \ {spec}
    /\ generation' = generation + 1
    /\ UNCHANGED <<environment, pass, sts>>

Next ==
    \/ Fetch \/ CreateStatefulSet \/ DeleteStatefulSet \/ UpdateStatefulSet
    \/ StatefulSetIsCurrent
    \/ EditSpec

Spec == Init /\ [][Next]_vars

-----------------------------------------------------------------------------
(* Properties.                                                             *)

Current == sts # Absent /\ sts.generation = generation

\* The claims ask for the same volume: its name, and how much of it.
SameVolume(c, d) ==
    /\ Len(c) = Len(d)
    /\ c # <<>> => c[1].name = d[1].name /\ c[1].resources.amount = d[1].resources.amount

\* A StatefulSet that carries the generation of the WildFlyServer has the pod
\* template and asks for the volume of the spec as it is now, whatever edits came
\* between the read, the deletion and the write (checkStatefulSet, which does not
\* look at the StatefulSet again once the generations agree).
CurrentMeansDeployed ==
    Current => /\ sts.template = Template(spec)
               /\ SameVolume(sts.claims, VolumeClaimTemplates(spec))

\* The StatefulSet, and with it every pod, is deleted only for a spec that asks for
\* another volume than the one it has (the comparison in checkStatefulSet).
DeletedOnlyForStorage ==
    [][sts # Absent /\ sts' = Absent
         => ~SameVolume(sts.claims, VolumeClaimTemplates(pass.spec))]_vars

Names(seq) == [i \in DOMAIN seq |-> seq[i].name]
Paths(seq) == [i \in DOMAIN seq |-> seq[i].path]

\* What the API server asks of the volumes of a pod.
ValidPod(set) ==
    /\ \A v \in ToSet(set.template.volumes) : IsDNSLabel(v.name)
    /\ IsInjective(Names(set.template.volumes \o set.claims))
    /\ IsInjective(Paths(set.template.mounts))
    /\ \A m \in ToSet(set.template.mounts) :
          m.name \in {v.name : v \in ToSet(set.template.volumes \o set.claims)}

\* No two secrets, and no two config maps, get the same volume name.
NamesStayApart(r) == /\ IsInjective(Names(Each(NamedVolume, "secret", r.secrets)))
                     /\ IsInjective(Names(Each(NamedVolume, "configmap", r.configMaps)))

\* The pods of a current StatefulSet can be created: their volumes have valid names
\* of their own and every mount has its volume, with long names, names that are no
\* DNS labels, and claims that came or went with an edit (NewStatefulSet and
\* SanitizeVolumeName).  Names that do not stay apart, and a claim the user has
\* given a name, are left out.
PodsCanBeCreated ==
    Current /\ NamesStayApart(spec) /\ spec.storage.name = <<>> => ValidPod(sts)

\* The value a container sees: the last one given.
Value(env, name) == env[Max({i \in DOMAIN env : env[i].name = name})].value

\* A Bootable JAR keeps its data, the transaction log in it, in the directory where
\* the data volume is mounted, whatever variables the user sets (the order in which
\* NewStatefulSet puts the environment together).
DataIsOnVolume ==
    sts # Absent /\ sts.template.imageType = "bootable-jar" =>
        \E m \in ToSet(sts.template.mounts) :
            m.name = DataVolumeName /\ m.path = Value(sts.template.env, "JAVA_ARGS")

\* A probe does what the user asks: every timing that is given, where zero counts as
\* given for the delay alone, and the user's handler; a Bootable JAR runs no script of
\* the operator (createCommonProbe and the pointer in InitialDelaySeconds).
ProbesAsAsked ==
    Current => \A k \in ProbeKinds :
        LET probe == sts.template.probes[k] asked == spec.probes[k] IN
        /\ \A t \in Timings \cap DOMAIN asked.timing :
              t = "delay" \/ asked.timing[t] # 0 => probe.timing[t] = asked.timing[t]
        /\ asked.handlers # {} => probe.action[2] = "user"
        /\ "exec" \in asked.handlers => probe.action[1] = "exec"
        /\ spec.bootableJar => probe.action[2] # "script"

Disabled(labels, markers) == MapMerge(labels, [m \in markers |-> "disabled"])

\* A pod stays the StatefulSet's when the scale down disables its markers, and the
\* services select it as long as their markers are active (the labels NewStatefulSet
\* copies before it adds the markers, and the selectors in service.go).
MarkedPodsStayOwned ==
    sts # Absent => \A markers \in SUBSET Markers :
        LET labels == Disabled(sts.template.labels, markers) IN
        /\ Selects(sts.selector, labels)
        /\ Selects(ServiceSelector("cluster"), labels) <=> markers = {}
        /\ \A s \in {"headless", "admin"} :
              Selects(ServiceSelector(s), labels) <=> "operated-by-headless" \notin markers

\* The pods are in the order of their numbers however the API server lists them, so
\* that the last ones are those the StatefulSet removes first (SortPodListByName).
PodsInOrder == pass # NoPass => InOrder(pass.podList)
================================================================================
