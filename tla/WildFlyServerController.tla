----------------------- MODULE WildFlyServerController -----------------------
(***************************************************************************)
(* The reconcile loop of the WildFly operator for one WildFlyServer, and   *)
(* the part of the cluster it works on: the custom resource, its status,   *)
(* the StatefulSet, the pods and their transaction logs.                   *)
(*                                                                         *)
(* A pass of Reconcile is a sequence of steps between which the user, the  *)
(* StatefulSet controller, the kubelets and the applications move.  What   *)
(* the pass has read is kept in "pass" and may be stale when it is used.   *)
(***************************************************************************)
EXTENDS Integers, FiniteSets

CONSTANTS
    MaxPods,            \* bound: ordinals the cluster has room for
    Volumes,            \* the VolumeClaimTemplates a spec may ask for
    Images,             \* the pod templates: application images, environments, probes
    InitialSpec,        \* the spec the WildFlyServer is created with
    Edits,              \* pairs <<from, to>>: the edits the user makes
    MaxGeneration,      \* bound: the generation after the last edit
    TransactionalPods,  \* pods whose applications run XA transactions
    HeuristicPods,      \* pods whose transactions may end heuristically
    LaggingCache,       \* whether the informer of the WildFlyServer may lag behind
    FaultKinds,         \* the kinds of failure that may happen
    MaxFaults           \* bound: how many failures happen

Ordinals == 0 .. MaxPods - 1

\* "deactivated": BootableJar or DeactivateTransactionRecovery;
\* "unsupported": the server has no transactions subsystem, or keeps its
\* object store neither in a persistent volume nor in a database;
\* "supported": scale down recovers transactions.
RecoveryModes == {"deactivated", "unsupported", "supported"}

Specs == [replicas : 0 .. MaxPods, recovery : RecoveryModes,
          volume : Volumes, image : Images, valid : BOOLEAN]

\* "api": a call of the API server fails; "exec": a CLI operation, a socket or a
\* log read fails; "restart": the server does not come back from its restart;
\* "crash": the operator's process ends; "podLoss": a pod is evicted.
AllFaultKinds == {"api", "exec", "restart", "crash", "podLoss"}

ASSUME MaxPodsAssumption       == MaxPods \in Nat \ {0}
ASSUME InitialSpecAssumption   == InitialSpec \in Specs
ASSUME EditsAssumption         == Edits \subseteq Specs \X Specs
ASSUME MaxGenerationAssumption == MaxGeneration \in Nat \ {0}
ASSUME PodsAssumption          == /\ TransactionalPods \subseteq Ordinals
                                  /\ HeuristicPods \subseteq TransactionalPods
ASSUME LaggingCacheAssumption  == LaggingCache \in BOOLEAN
ASSUME FaultsAssumption        == /\ FaultKinds \subseteq AllFaultKinds
                                  /\ MaxFaults \in Nat

VARIABLES
    spec, generation,           \* the WildFlyServer, as last edited
    statusPods, scalingdownPods, statusReplicas,    \* WildFlyServer.Status
    behind, copy,               \* the informer lags behind, and what it shows then
    sts, stsStatus,             \* the StatefulSet and its status.replicas
    pods,                       \* pods the API server lists
    terminating,                \* of those, the ones being deleted
    connected,                  \* ... labelled for the load balancer
    running,                    \* ... with the application server up
    prepared,                   \* ... restarted and annotated for recovery
    image,                      \* the template each pod was made from
    indoubt, heuristics,        \* pods whose transaction log is not empty
    resourcesGeneration,        \* generation of the services and the route
    queued,                     \* the request is in the work queue
    pc, pass,                   \* the pass of Reconcile in progress
    faults                      \* failures so far

serverVars == <<spec, generation>>
statusVars == <<statusPods, scalingdownPods, statusReplicas, behind, copy>>
stsVars    == <<sts, stsStatus>>
podVars    == <<pods, terminating, connected, running, prepared, image>>
txnVars    == <<indoubt, heuristics>>
passVars   == <<pc, pass, queued>>

vars == <<serverVars, statusVars, stsVars, podVars, txnVars,
          resourcesGeneration, passVars, faults>>

-----------------------------------------------------------------------------
(* Values.                                                                 *)

NoEntry   == "NONE"     \* Status.Pods has no entry for the pod
PodStates == {"ACTIVE", "INVESTIGATION", "PROCESSING", "HEURISTICS", "CLEAN"}
Entries   == PodStates \cup {NoEntry}

requeueOff   == 0
requeueLater == 1
requeueNow   == 2

Larger(x, y) == IF x < y THEN y ELSE x

Steps == {"idle", "getStatefulSet", "listPods", "setLabel", "processRecovery",
          "workers", "checkStatefulSet", "resources", "updateStatus"}

\* The WildFlyServer as the operator reads it.
ServerType == [spec : Specs, generation : 0 .. MaxGeneration, pods : [Ordinals -> Entries],
               scaling : Int, replicas : 0 .. MaxPods]

\* A pass keeps the WildFlyServer it fetched (spec, generation and status, which
\* it changes in memory) and whether that was the current one, the StatefulSet's
\* status.replicas and whether the StatefulSet it holds is still the stored one, the
\* pods it listed with their labels, phases and annotations, its goroutines and what
\* they reported.  A field goes back to its first value when the pass has no more use
\* for it.
PassType ==
    [spec : Specs, generation : 0 .. MaxGeneration,
     pods : [Ordinals -> Entries], scaling : Int, replicas : 0 .. MaxPods,
     current : BOOLEAN, observed : 0 .. MaxPods, fresh : BOOLEAN,
     list : SUBSET Ordinals, connected : SUBSET Ordinals,
     running : SUBSET Ordinals, prepared : SUBSET Ordinals,
     setup : SUBSET Ordinals, check : SUBSET Ordinals,
     must : {requeueOff, requeueLater, requeueNow},
     update : BOOLEAN, again : BOOLEAN]

NoPass ==
    [spec |-> InitialSpec, generation |-> 0,
     pods |-> [p \in Ordinals |-> NoEntry], scaling |-> 0, replicas |-> 0,
     current |-> FALSE, observed |-> 0, fresh |-> FALSE,
     list |-> {}, connected |-> {}, running |-> {}, prepared |-> {},
     setup |-> {}, check |-> {},
     must |-> requeueOff, update |-> FALSE, again |-> FALSE]

NoStatefulSet == [exists |-> FALSE, replicas |-> 0, generation |-> 0,
                  volume |-> InitialSpec.volume, image |-> InitialSpec.image]

NoCopy == [spec |-> InitialSpec, generation |-> 0, pods |-> [p \in Ordinals |-> NoEntry],
           scaling |-> 0, replicas |-> 0]

\* A new StatefulSet is marked with the generation of the WildFlyServer.
NewStatefulSet(s, g, size) ==
    [exists |-> TRUE, replicas |-> size, generation |-> g, volume |-> s.volume,
     image |-> s.image]

TypeOK ==
    /\ spec \in Specs
    /\ generation \in 1 .. MaxGeneration
    /\ statusPods \in [Ordinals -> Entries]
    /\ scalingdownPods \in Int
    /\ statusReplicas \in 0 .. MaxPods
    /\ behind \in BOOLEAN /\ copy \in ServerType
    /\ sts \in [exists : BOOLEAN, replicas : 0 .. MaxPods,
                generation : 0 .. MaxGeneration, volume : Volumes, image : Images]
    /\ stsStatus \in 0 .. MaxPods
    /\ pods \subseteq Ordinals
    /\ terminating \subseteq pods
    /\ connected \subseteq pods
    /\ running \subseteq pods
    /\ prepared \subseteq pods
    /\ image \in [Ordinals -> Images]
    /\ indoubt \subseteq TransactionalPods
    /\ heuristics \subseteq HeuristicPods
    /\ resourcesGeneration \in 0 .. MaxGeneration
    /\ queued \in BOOLEAN
    /\ pc \in Steps
    /\ pass \in PassType
    /\ faults \in 0 .. MaxFaults

Init ==
    /\ spec = InitialSpec /\ generation = 1
    /\ statusPods = [p \in Ordinals |-> NoEntry]
    /\ scalingdownPods = 0 /\ statusReplicas = 0
    /\ behind = FALSE /\ copy = NoCopy
    /\ sts = NoStatefulSet /\ stsStatus = 0
    /\ pods = {} /\ terminating = {} /\ connected = {}
    /\ running = {} /\ prepared = {}
    /\ image = [p \in Ordinals |-> InitialSpec.image]
    /\ indoubt = {} /\ heuristics = {}
    /\ resourcesGeneration = 0
    /\ queued = TRUE /\ pc = "idle" /\ pass = NoPass
    /\ faults = 0

-----------------------------------------------------------------------------
(* The API server, the work queue and failures, as the pass meets them.    *)

\* A failure of the given kind happens in this step, or none does.
Fail(kind) == /\ kind \in FaultKinds
              /\ faults < MaxFaults
              /\ faults' = faults + 1
NoFault == UNCHANGED faults

\* Reconcile returns.  A Requeue or an error puts the request back into the
\* work queue; an event seen during the pass has already put it there.
Return(requeue) == /\ pc' = "idle"
                   /\ pass' = NoPass
                   /\ queued' = (queued \/ requeue)

Goto(step) == pc' = step

\* What the informer shows of the WildFlyServer.
Shown == IF behind THEN copy
         ELSE [spec |-> spec, generation |-> generation, pods |-> statusPods,
               scaling |-> scalingdownPods, replicas |-> statusReplicas]

\* The WildFlyServer has been written.  An informer that lags goes on showing what
\* it showed; the event comes when it catches up.
Written == /\ behind' = LaggingCache
           /\ copy' = IF LaggingCache THEN Shown ELSE copy

\* Status().Update carries the resourceVersion that was fetched and is refused when
\* that was not the last one, or once the user has edited the WildFlyServer.
StatusIsCurrent == pass.current /\ pass.generation = generation
StatusRejected  == (~StatusIsCurrent /\ NoFault) \/ Fail("api")

\* An accepted write of the status; it is an event on the WildFlyServer.
WriteStatus(entries, scaling, replicas, requeue) ==
    /\ StatusIsCurrent
    /\ statusPods' = entries
    /\ scalingdownPods' = scaling
    /\ statusReplicas' = replicas
    /\ Written
    /\ queued' = (queued \/ requeue \/ ~LaggingCache)

\* Update of the StatefulSet carries the resourceVersion that was fetched too,
\* and is refused once the StatefulSet controller has written its status.
StatefulSetRejected == (~pass.fresh /\ NoFault) \/ Fail("api")

-----------------------------------------------------------------------------
(* Reconcile: the WildFlyServer, the StatefulSet and the pods are read.    *)

\* A pass begins with the fetched WildFlyServer; an invalid spec is an error,
\* which puts the request back.
FetchWildFlyServer ==
    /\ pc = "idle" /\ queued
    /\ \/ /\ \/ Fail("api")
             \/ ~Shown.spec.valid /\ NoFault
          /\ UNCHANGED passVars
       \/ /\ Shown.spec.valid /\ NoFault
          /\ queued' = FALSE
          /\ pass' = [NoPass EXCEPT !.spec = Shown.spec, !.generation = Shown.generation,
                                    !.pods = Shown.pods, !.scaling = Shown.scaling,
                                    !.replicas = Shown.replicas, !.current = ~behind]
          /\ Goto("getStatefulSet")
    /\ UNCHANGED <<serverVars, statusVars, stsVars, podVars, txnVars, resourcesGeneration>>

\* The size of a StatefulSet that has to be created (again).
DesiredReplicaSizeForNewStatefulSet == pass.spec.replicas + pass.scaling

\* The API server refuses a negative size, and the bounded cluster one that it
\* has no room for.  A failed read is swallowed and the empty StatefulSet then
\* ends the operator, which restarts; a failed creation is returned.
GetOrCreateNewStatefulSet ==
    /\ pc = "getStatefulSet"
    /\ \/ /\ \/ Fail("api")
             \/ /\ ~sts.exists
                /\ DesiredReplicaSizeForNewStatefulSet \notin 0 .. MaxPods
                /\ NoFault
          /\ Return(TRUE)
          /\ UNCHANGED stsVars
       \/ /\ ~sts.exists
          /\ DesiredReplicaSizeForNewStatefulSet \in 0 .. MaxPods
          /\ sts' = NewStatefulSet(pass.spec, pass.generation,
                                   DesiredReplicaSizeForNewStatefulSet)
          /\ Return(TRUE) /\ NoFault
          /\ UNCHANGED stsStatus
       \/ /\ sts.exists
          /\ pass' = [pass EXCEPT !.observed = stsStatus, !.fresh = TRUE]
          /\ Goto("listPods") /\ NoFault
          /\ UNCHANGED <<stsVars, queued>>
    /\ UNCHANGED <<serverVars, statusVars, podVars, txnVars, resourcesGeneration>>

\* Entries of pods that were cleaned and are gone.
RemovedEntries == {p \in Ordinals : pass.pods[p] = "CLEAN" /\ p \notin pods}

\* Faulty variant: the second comparison is missing.
PodsDifferFromSpec ==
    sts.replicas = pass.spec.replicas /\ Cardinality(pods) # pass.spec.replicas

\* The StatefulSet has been given its size but its pods have not followed.
PodsOutOfSync ==
    \/ sts.replicas = pass.spec.replicas /\ Cardinality(pods) # pass.spec.replicas
    \/ Cardinality(pods) < sts.replicas

\* A merge patch holds the fields that the pass has changed, and no resourceVersion:
\* it cannot conflict, and leaves the other fields as they are.
Patched(stored, fetched) ==
    LET changed == Larger(fetched - Cardinality(RemovedEntries), 0)
    IN  IF changed = fetched THEN stored ELSE changed

\* GetPodsForWildFly, cleanUpPodStatus and the two checks of the number of pods.
ListPods ==
    /\ pc = "listPods"
    /\ \/ /\ Fail("api")
          /\ Return(TRUE)
          /\ UNCHANGED statusVars
       \/ /\ RemovedEntries # {} /\ NoFault
          /\ statusPods' = [p \in Ordinals |->
                               IF p \in RemovedEntries THEN NoEntry ELSE pass.pods[p]]
          /\ statusReplicas' = Patched(statusReplicas, pass.replicas)
          /\ scalingdownPods' = Patched(scalingdownPods, pass.scaling)
          /\ Written
          /\ Return(TRUE)
       \/ /\ RemovedEntries = {} /\ PodsOutOfSync /\ NoFault
          /\ Return(TRUE)
          /\ UNCHANGED statusVars
       \/ /\ RemovedEntries = {} /\ ~PodsOutOfSync /\ NoFault
          /\ pass' = [pass EXCEPT !.list = pods, !.connected = connected,
                                  !.running = running, !.prepared = prepared]
          /\ Goto("setLabel")
          /\ UNCHANGED <<statusVars, queued>>
    /\ UNCHANGED <<serverVars, stsVars, podVars, txnVars, resourcesGeneration>>

-----------------------------------------------------------------------------
(* Scale down: the pods that go are taken off the load balancer, then      *)
(* their transactions are recovered.                                       *)

\* Negative when the deployment is scaled up.
NumberOfPodsToScaleDown == sts.replicas - pass.spec.replicas

\* The last k of the listed pods, which are sorted by ordinal.
TailOfList(k) == {p \in pass.list : Cardinality({q \in pass.list : q > p}) < k}

ScaleDownPods == TailOfList(NumberOfPodsToScaleDown)

\* Faulty variant: the loop over the pods stops one short.
LabelsToDisableOneShort == TailOfList(NumberOfPodsToScaleDown - 1) \cap pass.connected

LabelsToDisable == ScaleDownPods \cap pass.connected

\* setLabelAsDisabled: one patch per pod that still has the label; any patch,
\* accepted or failed, ends the pass.
SetLabelAsDisabled ==
    /\ pc = "setLabel"
    /\ \/ /\ LabelsToDisable = {} /\ NoFault
          /\ pass' = [pass EXCEPT !.connected = {}]
          /\ Goto("processRecovery")
          /\ UNCHANGED <<queued, connected>>
       \/ /\ LabelsToDisable # {} /\ NoFault
          /\ connected' = connected \ LabelsToDisable
          /\ Return(TRUE)
       \/ \E failed \in SUBSET LabelsToDisable :
             /\ failed # {} /\ Fail("api")
             /\ connected' = connected \ (LabelsToDisable \ failed)
             /\ Return(TRUE)
    /\ UNCHANGED <<serverVars, statusVars, stsVars, pods, terminating, running,
                   prepared, image, txnVars, resourcesGeneration>>

\* Faulty variant: the status is taken to be up to date.
StatusTrusted == TRUE

\* processTransactionRecoveryScaleDown, up to its goroutines.
StatusHasEveryPod ==
    Cardinality({p \in Ordinals : pass.pods[p] # NoEntry}) = Cardinality(pass.list)

\* The JBoss CLI answers on the first listed pod.
FirstPodAnswers == \E p \in pass.list \cap running : \A q \in pass.list : p <= q

\* Only pods that were listed as Running are worked on.
PodsToRecover == ScaleDownPods \cap pass.running

\* Nothing to scale down, or not yet: the pass goes on to the StatefulSet.
SkipProcessing(requeue) ==
    /\ pass' = [pass EXCEPT !.again = requeue, !.prepared = {}]
    /\ Goto("checkStatefulSet")
    /\ UNCHANGED <<queued, statusVars>>

NothingToRecover ==
    /\ pass.list = {} \/ NumberOfPodsToScaleDown = 0
    /\ NoFault
    /\ SkipProcessing(FALSE)

RecoveryMustWait ==
    /\ pass.list # {} /\ NumberOfPodsToScaleDown # 0
    /\ \/ ~StatusHasEveryPod /\ NoFault
       \/ /\ StatusHasEveryPod /\ pass.spec.recovery # "deactivated"
          /\ \/ ~FirstPodAnswers /\ NoFault
             \/ Fail("exec")
             \/ /\ FirstPodAnswers /\ NoFault
                /\ pass.spec.recovery = "supported" /\ PodsToRecover = {}
    /\ SkipProcessing(TRUE)

RecoveryBegins ==
    /\ pass.list # {} /\ NumberOfPodsToScaleDown # 0 /\ StatusHasEveryPod
    /\ pass.spec.recovery # "deactivated" => FirstPodAnswers

\* skipRecoveryAndForceScaleDown: a refused status update is only logged.
ForcedEntries ==
    [p \in Ordinals |-> IF p \in ScaleDownPods /\ pass.pods[p] # NoEntry
                        THEN "CLEAN" ELSE pass.pods[p]]

SkipRecoveryAndForceScaleDown ==
    /\ RecoveryBegins /\ pass.spec.recovery # "supported"
    /\ pass' = [pass EXCEPT !.pods = ForcedEntries, !.scaling = NumberOfPodsToScaleDown,
                            !.prepared = {}]
    /\ Goto("checkStatefulSet")
    /\ \/ /\ WriteStatus(ForcedEntries, NumberOfPodsToScaleDown, statusReplicas, FALSE)
          /\ NoFault
       \/ StatusRejected /\ UNCHANGED <<statusVars, queued>>

\* The pods' entries move from ACTIVE to INVESTIGATION, which is written before
\* the goroutines start.  A pod without an entry ends the operator.
InvestigatedEntries ==
    [p \in Ordinals |-> IF p \in PodsToRecover /\ pass.pods[p] = "ACTIVE"
                        THEN "INVESTIGATION" ELSE pass.pods[p]]

StartRecovery ==
    /\ RecoveryBegins /\ pass.spec.recovery = "supported" /\ PodsToRecover # {}
    /\ LET started == [pass EXCEPT !.pods = InvestigatedEntries,
                                   !.setup = {p \in PodsToRecover : pass.pods[p] # "CLEAN"}]
       IN
       \/ /\ \E p \in PodsToRecover : pass.pods[p] = NoEntry
          /\ Return(TRUE) /\ NoFault /\ UNCHANGED statusVars
       \/ /\ \A p \in PodsToRecover : pass.pods[p] # NoEntry
          /\ InvestigatedEntries = pass.pods
          /\ pass' = started
          /\ Goto("workers") /\ NoFault /\ UNCHANGED <<statusVars, queued>>
       \/ /\ \A p \in PodsToRecover : pass.pods[p] # NoEntry
          /\ InvestigatedEntries # pass.pods
          /\ \/ /\ WriteStatus(InvestigatedEntries, NumberOfPodsToScaleDown, statusReplicas, FALSE)
                /\ pass' = [started EXCEPT !.scaling = NumberOfPodsToScaleDown]
                /\ Goto("workers") /\ NoFault
             \/ StatusRejected /\ Return(TRUE) /\ UNCHANGED statusVars

ProcessTransactionRecoveryScaleDown ==
    /\ pc = "processRecovery"
    /\ \/ NothingToRecover
       \/ RecoveryMustWait
       \/ SkipRecoveryAndForceScaleDown
       \/ StartRecovery
    /\ UNCHANGED <<serverVars, stsVars, podVars, txnVars, resourcesGeneration>>

-----------------------------------------------------------------------------
(* The goroutines: one per pod, all on the pass's WildFlyServer.           *)

\* The goroutines raise the shared mustReconcile with an unsynchronised test
\* and set: one of them may act on a value another has already replaced.
RaiseMustReconcile(needs) == {Larger(pass.must, needs), needs}

\* The goroutine returns from setupRecoveryPropertiesAndRestart with an error,
\* or with a request to reconcile.
SetupEnds(p, needs) ==
    \E m \in RaiseMustReconcile(needs) :
        pass' = [pass EXCEPT !.setup = @ \ {p}, !.must = m]

\* Faulty variant: the pod is restarted without the properties.
PreparedWithoutProperties(p) == prepared

\* The pods that have been restarted with the recovery properties, among them the
\* disabled transaction manager, and annotated; once is enough.
PreparedBy(p) == IF p \in pass.prepared THEN prepared ELSE prepared \cup {p}

SetupRecoveryPropertiesAndRestart(p) ==
    /\ pc = "workers" /\ p \in pass.setup
    /\ \/ /\ \/ p \notin running /\ NoFault      \* the CLI does not answer
             \/ Fail("exec")                     \* ... or refuses the properties
          /\ SetupEnds(p, requeueLater)
          /\ UNCHANGED <<terminating, prepared>>
       \/ /\ p \in running /\ p \notin pass.prepared
          /\ Fail("restart")                     \* no restart: the pod is deleted
          /\ \E deleted \in SUBSET {p} :         \* ... which may fail unnoticed
                /\ deleted = {} => "api" \in FaultKinds
                /\ terminating' = terminating \cup deleted
          /\ SetupEnds(p, requeueNow)
          /\ UNCHANGED prepared
       \/ /\ p \in running /\ p \notin pass.prepared
          /\ Fail("api")                         \* restarted but not annotated
          /\ SetupEnds(p, requeueNow)
          /\ UNCHANGED <<terminating, prepared>>
       \/ /\ p \in running /\ NoFault
          /\ prepared' = PreparedBy(p)
          /\ pass' = [pass EXCEPT !.setup = @ \ {p}, !.check = @ \cup {p}]
          /\ UNCHANGED terminating
    /\ UNCHANGED <<serverVars, statusVars, stsVars, pods, connected, running, image, txnVars,
                   resourcesGeneration, pc, queued>>

\* What the second checkRecovery of the pod's transaction log finds.
CheckRecovery(p) == IF p \in heuristics THEN "HEURISTICS"
                    ELSE IF p \in indoubt THEN "PROCESSING"
                    ELSE "CLEAN"

\* An error leaves the entry as it is.  PROCESSING counts the attempt, so that
\* the status is written even when the state is not new.
RecoverPod(p) ==
    /\ pc = "workers" /\ p \in pass.check
    /\ \/ /\ \/ p \notin running /\ NoFault
             \/ Fail("exec")
          /\ pass' = [pass EXCEPT !.check = @ \ {p}]
       \/ /\ p \in running /\ NoFault
          /\ pass' = [pass EXCEPT !.check = @ \ {p},
                                  !.pods[p] = CheckRecovery(p),
                                  !.update = \/ @
                                             \/ CheckRecovery(p) = "PROCESSING"
                                             \/ CheckRecovery(p) # pass.pods[p]]
    /\ UNCHANGED <<serverVars, statusVars, stsVars, podVars, txnVars,
                   resourcesGeneration, pc, queued>>

\* wg.Wait, the status update and the result of the processing.
RecoveryEnds ==
    \/ /\ pass.must = requeueNow
       /\ pc' = "idle" /\ pass' = NoPass
    \/ /\ pass.must # requeueNow
       /\ pass' = [pass EXCEPT !.again = (pass.must = requeueLater), !.must = requeueOff,
                               !.scaling = IF pass.update THEN NumberOfPodsToScaleDown ELSE @,
                               !.update = FALSE, !.prepared = {}]
       /\ Goto("checkStatefulSet")

JoinWorkers ==
    /\ pc = "workers" /\ pass.setup = {} /\ pass.check = {}
    /\ \/ /\ ~pass.update /\ NoFault
          /\ RecoveryEnds
          /\ queued' = (queued \/ pass.must = requeueNow)
          /\ UNCHANGED statusVars
       \/ /\ pass.update
          /\ WriteStatus(pass.pods, NumberOfPodsToScaleDown, statusReplicas,
                         pass.must = requeueNow)
          /\ RecoveryEnds /\ NoFault
       \/ /\ pass.update /\ StatusRejected
          /\ Return(TRUE)
          /\ UNCHANGED statusVars
    /\ UNCHANGED <<serverVars, stsVars, podVars, txnVars, resourcesGeneration>>

-----------------------------------------------------------------------------
(* checkStatefulSet.                                                       *)

\* Faulty variant: the search does not end at an unclean pod.
ShutdownAnyClean == {p \in pass.list : pass.pods[p] = "CLEAN"}

\* Searching the listed pods from the top: CLEAN pods are counted, a pod
\* without an entry is passed over, any other pod ends the search.
ShutdownPods ==
    {p \in pass.list :
        /\ pass.pods[p] = "CLEAN"
        /\ \A q \in pass.list : q > p => pass.pods[q] \in {"CLEAN", NoEntry}}

\* Faulty variant: the index of the last pod is taken for the number of pods.
CalculatedReplicaSizeOffByOne == Cardinality(pass.list) - 1 - Cardinality(ShutdownPods)

CalculatedReplicaSize == Cardinality(pass.list) - Cardinality(ShutdownPods)

ScalesUp   == pass.spec.replicas > sts.replicas
ScalesDown == pass.spec.replicas < sts.replicas

\* Faulty variant: the size is the spec's, recovered or not.
DesiredReplicaSizeOfSpec == pass.spec.replicas

DesiredReplicaSize == IF ScalesDown THEN CalculatedReplicaSize ELSE pass.spec.replicas

MayShrink == /\ ScalesDown
             /\ pass.spec.replicas <= CalculatedReplicaSize
             /\ sts.replicas > CalculatedReplicaSize

\* Faulty variant: an unfinished scale down asks for no further pass.
UncleanPodsForgotten == FALSE

UncleanPodsRemain == ScalesDown /\ pass.spec.replicas < CalculatedReplicaSize

IsCurrentGeneration == sts.generation = pass.generation

\* VolumeClaimTemplates cannot be updated: the StatefulSet is deleted, and its
\* pods with it.
DeleteStatefulSet ==
    /\ ~IsCurrentGeneration /\ sts.volume # pass.spec.volume
    /\ \/ /\ NoFault
          /\ sts' = NoStatefulSet
          /\ stsStatus' = 0
          /\ terminating' = pods
       \/ Fail("api") /\ UNCHANGED <<stsVars, terminating>>
    /\ Return(TRUE)

\* The new template and the new size in one update when the generation has
\* changed, the new size alone otherwise.
UpdateStatefulSet ==
    /\ \/ ~IsCurrentGeneration /\ sts.volume = pass.spec.volume
       \/ IsCurrentGeneration /\ (ScalesUp \/ MayShrink)
    /\ \/ /\ pass.fresh /\ NoFault
          /\ sts' = [sts EXCEPT !.replicas = DesiredReplicaSize,
                                !.generation = pass.generation,
                                !.image = IF IsCurrentGeneration THEN @ ELSE pass.spec.image]
       \/ StatefulSetRejected /\ UNCHANGED sts
    /\ Return(TRUE)
    /\ UNCHANGED <<stsStatus, terminating>>

StatefulSetUpToDate ==
    /\ IsCurrentGeneration /\ ~ScalesUp /\ ~MayShrink
    /\ pass' = [pass EXCEPT !.again = @ \/ UncleanPodsRemain]
    /\ Goto("resources") /\ NoFault
    /\ UNCHANGED <<stsVars, terminating, queued>>

CheckStatefulSet ==
    /\ pc = "checkStatefulSet"
    /\ DeleteStatefulSet \/ UpdateStatefulSet \/ StatefulSetUpToDate
    /\ UNCHANGED <<serverVars, statusVars, pods, connected, running, prepared, image,
                   txnVars, resourcesGeneration>>

\* The services, the route and the ServiceMonitor are created or brought up to
\* the generation of the WildFlyServer; each change ends the pass.
CreateOrUpdateResources ==
    /\ pc = "resources"
    /\ \/ /\ resourcesGeneration # pass.generation /\ NoFault
          /\ resourcesGeneration' = pass.generation
          /\ Return(TRUE)
       \/ /\ Fail("api")
          /\ Return(TRUE)
          /\ UNCHANGED resourcesGeneration
       \/ /\ resourcesGeneration = pass.generation /\ NoFault
          /\ Goto("updateStatus")
          /\ UNCHANGED <<pass, queued, resourcesGeneration>>
    /\ UNCHANGED <<serverVars, statusVars, stsVars, podVars, txnVars>>

-----------------------------------------------------------------------------
(* The end of Reconcile: the status.                                       *)

\* Entries that scale down has left behind once nothing is scaled down.
EntriesToReset ==
    {p \in Ordinals : NumberOfPodsToScaleDown <= 0 /\ pass.pods[p] \notin {"ACTIVE", NoEntry}}

\* getPodStatus: an entry for each listed pod and for no other.
GetPodStatus ==
    [p \in Ordinals |->
        IF p \notin pass.list THEN NoEntry
        ELSE IF p \in EntriesToReset \/ pass.pods[p] = NoEntry THEN "ACTIVE"
        ELSE pass.pods[p]]

\* Faulty variant: the number of replicas is not compared.
StatusChangesButReplicas == \/ pass.scaling # NumberOfPodsToScaleDown
                            \/ pass.pods # GetPodStatus

StatusChanges == \/ pass.scaling # NumberOfPodsToScaleDown
                 \/ pass.pods # GetPodStatus
                 \/ pass.replicas # pass.observed

\* The pods of the reset entries are deleted; whether they were is not looked at.
PodsToReset == EntriesToReset \cap pass.list \cap pods

DeletePods(refused) == terminating' = terminating \cup (PodsToReset \ refused)

DeletionFails(refused) == IF refused = {} THEN NoFault ELSE Fail("api")

\* The deletions come first, whether or not the status can then be written.  A pod
\* that is not running may have no IP address yet.
UpdateStatus ==
    /\ pc = "updateStatus"
    /\ \/ /\ StatusChanges
          /\ WriteStatus(GetPodStatus, NumberOfPodsToScaleDown, pass.observed, TRUE)
          /\ \E refused \in SUBSET PodsToReset : DeletePods(refused) /\ DeletionFails(refused)
          /\ pc' = "idle" /\ pass' = NoPass
       \/ /\ StatusChanges
          /\ \E refused \in SUBSET PodsToReset :
                /\ DeletePods(refused)
                /\ (~StatusIsCurrent /\ DeletionFails(refused)) \/ Fail("api")
          /\ Return(TRUE)
          /\ UNCHANGED statusVars
       \/ /\ ~StatusChanges /\ NoFault
          /\ DeletePods({})
          /\ \E noIP \in BOOLEAN :
                /\ noIP => pass.list \ pass.running # {}
                /\ Return(pass.again \/ noIP)
          /\ UNCHANGED statusVars
    /\ UNCHANGED <<serverVars, stsVars, pods, connected, running, prepared, image,
                   txnVars, resourcesGeneration>>

\* The operator's process ends anywhere in a pass; the next one finds every
\* WildFlyServer in its queue, as it is stored.
Crash ==
    /\ pc # "idle" /\ Fail("crash")
    /\ Return(TRUE)
    /\ behind' = FALSE /\ copy' = NoCopy
    /\ UNCHANGED <<serverVars, statusPods, scalingdownPods, statusReplicas, stsVars,
                   podVars, txnVars, resourcesGeneration>>

-----------------------------------------------------------------------------
(* The cluster around the operator.                                        *)

\* The user edits the spec: the generation moves and the edit is an event.
EditSpec ==
    /\ generation < MaxGeneration
    /\ \E e \in Edits : e[1] = spec /\ spec' = e[2]
    /\ generation' = generation + 1
    /\ Written
    /\ queued' = (queued \/ ~LaggingCache)
    /\ UNCHANGED <<statusPods, scalingdownPods, statusReplicas, stsVars, podVars, txnVars,
                   resourcesGeneration, pc, pass, faults>>

\* The informer catches up, and hands out the event.
SyncServer ==
    /\ behind
    /\ behind' = FALSE /\ copy' = NoCopy
    /\ queued' = TRUE
    /\ UNCHANGED <<serverVars, statusPods, scalingdownPods, statusReplicas, stsVars, podVars,
                   txnVars, resourcesGeneration, pc, pass, faults>>

\* The StatefulSet controller, with the Parallel pod management policy.
CreatePod(p) ==
    /\ sts.exists /\ p < sts.replicas /\ p \notin pods
    /\ pods' = pods \cup {p}
    /\ connected' = connected \cup {p}
    /\ image' = [image EXCEPT ![p] = sts.image]
    /\ UNCHANGED <<serverVars, statusVars, stsVars, terminating, running, prepared,
                   txnVars, resourcesGeneration, passVars, faults>>

TerminatePod(p) ==
    /\ sts.exists /\ p >= sts.replicas /\ p \in pods \ terminating
    /\ terminating' = terminating \cup {p}
    /\ UNCHANGED <<serverVars, statusVars, stsVars, pods, connected, running, prepared, image,
                   txnVars, resourcesGeneration, passVars, faults>>

\* A new template reaches the pods one by one, from the top, each when those above
\* it are up again.
RollPod(p) ==
    /\ sts.exists /\ p < sts.replicas /\ p \in pods \ terminating
    /\ image[p] # sts.image
    /\ \A q \in Ordinals : q > p /\ q < sts.replicas =>
          q \in running \ terminating /\ image[q] = sts.image
    /\ terminating' = terminating \cup {p}
    /\ UNCHANGED <<serverVars, statusVars, stsVars, pods, connected, running, prepared, image,
                   txnVars, resourcesGeneration, passVars, faults>>

\* Its status is an event on the StatefulSet, and moves its resourceVersion.
StatefulSetEvent == /\ queued' = TRUE
                    /\ pass' = [pass EXCEPT !.fresh = FALSE]

SyncStatefulSetStatus ==
    /\ sts.exists /\ stsStatus # Cardinality(pods)
    /\ stsStatus' = Cardinality(pods)
    /\ StatefulSetEvent
    /\ UNCHANGED <<serverVars, statusVars, sts, podVars, txnVars, resourcesGeneration,
                   pc, faults>>

\* The kubelets.  A pod that gets ready is counted in the StatefulSet's status,
\* which is an event; the transaction log outlives the pod.
StartPod(p) ==
    /\ p \in pods \ (running \cup terminating)
    /\ running' = running \cup {p}
    /\ StatefulSetEvent
    /\ UNCHANGED <<serverVars, statusVars, stsVars, pods, terminating, connected, prepared, image,
                   txnVars, resourcesGeneration, pc, faults>>

RemovePod(p) ==
    /\ p \in terminating
    /\ pods' = pods \ {p}
    /\ terminating' = terminating \ {p}
    /\ connected' = connected \ {p}
    /\ running' = running \ {p}
    /\ prepared' = prepared \ {p}
    /\ image' = [image EXCEPT ![p] = InitialSpec.image]
    /\ UNCHANGED <<serverVars, statusVars, stsVars, txnVars, resourcesGeneration,
                   passVars, faults>>

\* A pod is evicted, drained or deleted by hand.
LosePod(p) ==
    /\ p \in pods \ terminating /\ Fail("podLoss")
    /\ terminating' = terminating \cup {p}
    /\ UNCHANGED <<serverVars, statusVars, stsVars, pods, connected, running, prepared, image,
                   txnVars, resourcesGeneration, passVars>>

\* The applications.  A pod prepared for recovery has its transaction manager
\* disabled and begins no transaction.
BeginTransaction(p) ==
    /\ p \in (running \cap TransactionalPods) \ (prepared \cup indoubt)
    /\ indoubt' = indoubt \cup {p}
    /\ UNCHANGED <<serverVars, statusVars, stsVars, podVars, heuristics,
                   resourcesGeneration, passVars, faults>>

FinishTransaction(p) ==
    /\ p \in running \cap indoubt
    /\ indoubt' = indoubt \ {p}
    /\ UNCHANGED <<serverVars, statusVars, stsVars, podVars, heuristics,
                   resourcesGeneration, passVars, faults>>

TurnHeuristic(p) ==
    /\ p \in running \cap indoubt \cap HeuristicPods
    /\ indoubt' = indoubt \ {p}
    /\ heuristics' = heuristics \cup {p}
    /\ UNCHANGED <<serverVars, statusVars, stsVars, podVars,
                   resourcesGeneration, passVars, faults>>

\* The administrator resolves what only an administrator can.
ResolveHeuristic(p) ==
    /\ p \in running \cap heuristics
    /\ heuristics' = heuristics \ {p}
    /\ UNCHANGED <<serverVars, statusVars, stsVars, podVars, indoubt,
                   resourcesGeneration, passVars, faults>>

-----------------------------------------------------------------------------
Reconcile ==
    \/ FetchWildFlyServer
    \/ GetOrCreateNewStatefulSet
    \/ ListPods
    \/ SetLabelAsDisabled
    \/ ProcessTransactionRecoveryScaleDown
    \/ \E p \in Ordinals : SetupRecoveryPropertiesAndRestart(p)
    \/ \E p \in Ordinals : RecoverPod(p)
    \/ JoinWorkers
    \/ CheckStatefulSet
    \/ CreateOrUpdateResources
    \/ UpdateStatus

StatefulSetController ==
    SyncStatefulSetStatus \/ \E p \in Ordinals : CreatePod(p) \/ TerminatePod(p) \/ RollPod(p)

Kubelets == \E p \in Ordinals : StartPod(p) \/ RemovePod(p)

Recovers(p) == FinishTransaction(p) \/ ResolveHeuristic(p)

Next ==
    \/ Reconcile \/ Crash
    \/ EditSpec \/ SyncServer
    \/ StatefulSetController
    \/ Kubelets
    \/ \E p \in Ordinals : LosePod(p)
    \/ \E p \in Ordinals : BeginTransaction(p) \/ TurnHeuristic(p) \/ Recovers(p)

Spec == Init /\ [][Next]_vars

\* The operator takes its requests, the controllers and the kubelets do their
\* work, and what is recoverable is recovered in the end.  Nobody has to edit,
\* to fail or to begin a transaction.
Fairness ==
    /\ WF_vars(Reconcile)
    /\ WF_vars(SyncServer)
    /\ WF_vars(StatefulSetController)
    /\ WF_vars(Kubelets)
    /\ \A p \in Ordinals : WF_vars(Recovers(p))

FairSpec == Spec /\ Fairness

-----------------------------------------------------------------------------
(* Correctness.                                                            *)

\* "It must be ensured that all transactions are finished before the number of
\* replicas is really decreased": a pod with an unfinished transaction keeps its
\* place in the StatefulSet.
NoOrphanedTransactions ==
    sts.exists => \A p \in indoubt \cup heuristics : p < sts.replicas

\* SCALING_DOWN_CLEAN is a verdict on the log as it is now, however long ago the
\* goroutine read it: nothing has been put into the log since.
CleanIsDrained ==
    \A p \in Ordinals : statusPods[p] = "CLEAN" => p \notin indoubt \cup heuristics

\* "Even the pod is in state SCALING_DOWN_CLEAN the pod is not receiving any new
\* requests": the load balancer has no pod that the status shows as CLEAN.
CleanIsOffBalancer ==
    \A p \in pods : statusPods[p] = "CLEAN" => p \notin connected

\* "If the pod with the highest number is clean then the statefulset replica size
\* can be decreased by 1": every ordinal that checkStatefulSet cuts off is that of
\* a listed pod that the pass holds to be CLEAN.
ShrinkRemovesOnlyClean ==
    [][sts.exists /\ sts'.exists =>
         \A p \in Ordinals : p >= sts'.replicas /\ p < sts.replicas
                               => p \in pass.list /\ pass.pods[p] = "CLEAN"]_vars

\* Whatever the edits and the failures, the StatefulSet never loses more
\* replicas in one update than there are listed pods marked CLEAN.
ShrinkCovered ==
    [][sts.exists /\ sts'.exists =>
         sts.replicas - sts'.replicas
            <= Cardinality({p \in pass.list : pass.pods[p] = "CLEAN"})]_vars

\* A pass that has got past the pod list holds, until it ends, at least as many
\* pods as the StatefulSet has replicas, although pods come and go and the spec is
\* edited meanwhile: checkStatefulSet may count listed pods instead of replicas.
ListCoversStatefulSet ==
    /\ pc \notin {"idle", "getStatefulSet"} => sts.exists
    /\ pc \notin {"idle", "getStatefulSet", "listPods"} =>
          sts.replicas <= Cardinality(pass.list)

\* The deployment is what the spec asks for, and the status says so.
Settled ==
    /\ sts.exists /\ sts.replicas = spec.replicas /\ sts.generation = generation
    /\ pods = 0 .. spec.replicas - 1 /\ running = pods /\ terminating = {}
    /\ connected = pods
    /\ \A p \in pods : image[p] = spec.image
    /\ \A p \in Ordinals : statusPods[p] = IF p \in pods THEN "ACTIVE" ELSE NoEntry
    /\ statusReplicas = spec.replicas /\ scalingdownPods = 0
    /\ resourcesGeneration = generation

\* When the operator has nothing queued and no event is to come, the StatefulSet has the size of the
\* spec: a scale down that is not finished always leaves a reason to run again.
QuietOnlyWhenScaled ==
    pc = "idle" /\ ~queued /\ ~behind => /\ sts.exists /\ sts.replicas = spec.replicas
                              /\ sts.generation = generation
                              /\ resourcesGeneration = generation

\* The goroutines find the status entry of the pod they work on.
RecoveredPodsHaveEntries ==
    pc = "processRecovery" /\ RecoveryBegins /\ pass.spec.recovery = "supported"
        => \A p \in PodsToRecover : pass.pods[p] # NoEntry

\* The status does not go on calling a pod ACTIVE that the load balancer has
\* been told to leave out.
ActivePodsServe ==
    \A p \in Ordinals :
        (p \in pods \ connected /\ statusPods[p] = "ACTIVE")
            ~> (p \notin pods \ connected \/ statusPods[p] # "ACTIVE")

\* Once the user stops editing and the failures end, the deployment settles: every
\* pod runs what the spec asks for, and the status says so.
Converges == <>[](spec.valid => Settled)
=============================================================================
