------------------- MODULE WildFlyServerControllerProofs -------------------
(***************************************************************************)
(* Theorems about WildFlyServerController for every number of pods, every  *)
(* set of edits and every kind and number of failures.                     *)
(***************************************************************************)
EXTENDS WildFlyServerController, FiniteSetTheorems, TLAPS

-----------------------------------------------------------------------------
(* Sizes of sets of ordinals.                                              *)

\* The ordinals are finitely many, and there are MaxPods of them.
LEMMA OrdinalsFinite ==
    IsFiniteSet(Ordinals) /\ Cardinality(Ordinals) = MaxPods
BY MaxPodsAssumption, FS_Interval DEF Ordinals

\* A set of ordinals has between none and MaxPods members.
LEMMA OrdinalsBound ==
    ASSUME NEW S, S \subseteq Ordinals
    PROVE  /\ IsFiniteSet(S)
           /\ Cardinality(S) \in Nat
           /\ Cardinality(S) \in 0 .. MaxPods
<1>1. IsFiniteSet(S) /\ Cardinality(S) <= Cardinality(Ordinals)
  BY OrdinalsFinite, FS_Subset
<1> QED
  BY <1>1, OrdinalsFinite, FS_CardinalityType, MaxPodsAssumption

\* The size calculated from the listed pods is one that the cluster has room for.
LEMMA CalculatedReplicaSizeBound ==
    ASSUME TypeOK
    PROVE  CalculatedReplicaSize \in 0 .. MaxPods
<1>1. pass.list \subseteq Ordinals /\ ShutdownPods \subseteq pass.list
  BY DEF TypeOK, PassType, ShutdownPods
<1>2. /\ Cardinality(pass.list) \in 0 .. MaxPods
      /\ Cardinality(ShutdownPods) \in Nat
      /\ Cardinality(ShutdownPods) <= Cardinality(pass.list)
  BY <1>1, OrdinalsBound, FS_Subset
<1> QED
  BY <1>2, MaxPodsAssumption DEF CalculatedReplicaSize

-----------------------------------------------------------------------------
(* Type correctness.                                                       *)

\* The values that a pass starts from, and goes back to.
LEMMA NoPassType ==
    /\ NoPass \in PassType /\ NoCopy \in ServerType
    /\ NoStatefulSet.volume \in Volumes /\ NoStatefulSet.image \in Images
BY MaxPodsAssumption, InitialSpecAssumption, MaxGenerationAssumption
   DEF NoPass, PassType, NoCopy, ServerType, NoStatefulSet, Specs, Entries, NoEntry,
       requeueOff, requeueLater, requeueNow

\* Every state of the program is well-formed at the start.
LEMMA InitTypeOK == Init => TypeOK
<1> SUFFICES ASSUME Init PROVE TypeOK
  OBVIOUS
<1>1. InitialSpec.image \in Images
  BY InitialSpecAssumption DEF Specs
<1>2. /\ sts \in [exists : BOOLEAN, replicas : 0 .. MaxPods,
                  generation : 0 .. MaxGeneration, volume : Volumes, image : Images]
      /\ image \in [Ordinals -> Images]
  BY <1>1, NoPassType, MaxPodsAssumption, MaxGenerationAssumption DEF Init, NoStatefulSet
<1>3. pass \in PassType /\ copy \in ServerType /\ behind \in BOOLEAN
  BY NoPassType DEF Init
<1>4. statusPods \in [Ordinals -> Entries]
  BY DEF Init, Entries
<1>5. pc \in Steps /\ queued \in BOOLEAN
  BY DEF Init, Steps
<1>6. /\ spec \in Specs /\ generation \in 1 .. MaxGeneration
      /\ scalingdownPods \in Int /\ statusReplicas \in 0 .. MaxPods /\ stsStatus \in 0 .. MaxPods
      /\ resourcesGeneration \in 0 .. MaxGeneration /\ faults \in 0 .. MaxFaults
  BY MaxPodsAssumption, InitialSpecAssumption, MaxGenerationAssumption, FaultsAssumption DEF Init
<1>7. /\ pods \subseteq Ordinals /\ terminating \subseteq pods /\ connected \subseteq pods
      /\ running \subseteq pods /\ prepared \subseteq pods
      /\ indoubt \subseteq TransactionalPods /\ heuristics \subseteq HeuristicPods
  BY DEF Init
<1> QED
  BY <1>2, <1>3, <1>4, <1>5, <1>6, <1>7 DEF TypeOK

\* A step that fails or does not keeps the count of failures in its bounds.
LEMMA FaultsType ==
    ASSUME TypeOK, NEW kind
    PROVE  /\ Fail(kind) => faults' \in 0 .. MaxFaults
           /\ NoFault => faults' \in 0 .. MaxFaults
BY FaultsAssumption DEF TypeOK, Fail, NoFault

\* Returning ends the pass.
LEMMA ReturnType ==
    ASSUME TypeOK, NEW b \in BOOLEAN, Return(b)
    PROVE  pc' \in Steps /\ pass' \in PassType /\ queued' \in BOOLEAN
BY NoPassType DEF TypeOK, Return, Steps

\* What the informer shows is a WildFlyServer.
LEMMA ShownType ==
    ASSUME TypeOK
    PROVE  Shown \in ServerType
BY MaxGenerationAssumption DEF TypeOK, Shown, ServerType

\* A write that the informer has not seen yet leaves it showing a WildFlyServer.
LEMMA WrittenType ==
    ASSUME TypeOK, Written
    PROVE  behind' \in BOOLEAN /\ copy' \in ServerType
BY ShownType, LaggingCacheAssumption DEF TypeOK, Written

\* The steps that read the WildFlyServer, the StatefulSet and the pods.
LEMMA ReadingTypeOK ==
    ASSUME TypeOK, FetchWildFlyServer \/ GetOrCreateNewStatefulSet \/ ListPods
    PROVE  TypeOK'
<1>1. CASE FetchWildFlyServer
  <2>1. faults' \in 0 .. MaxFaults
    BY <1>1, FaultsType DEF FetchWildFlyServer
  <2>2. pass' \in PassType /\ pc' \in Steps /\ queued' \in BOOLEAN
    <3>1. CASE UNCHANGED passVars
      BY <3>1 DEF TypeOK, passVars
    <3>2. CASE /\ queued' = FALSE
               /\ pass' = [NoPass EXCEPT !.spec = Shown.spec, !.generation = Shown.generation,
                                         !.pods = Shown.pods, !.scaling = Shown.scaling,
                                         !.replicas = Shown.replicas, !.current = ~behind]
               /\ Goto("getStatefulSet")
      <4>1. /\ Shown.spec \in Specs /\ Shown.generation \in 0 .. MaxGeneration
            /\ Shown.pods \in [Ordinals -> Entries] /\ Shown.scaling \in Int
            /\ Shown.replicas \in 0 .. MaxPods
        BY ShownType DEF ServerType
      <4> QED
        BY <3>2, <4>1, NoPassType DEF PassType, Goto, Steps
    <3> QED
      BY <1>1, <3>1, <3>2 DEF FetchWildFlyServer
  <2> QED
    BY <1>1, <2>1, <2>2
       DEF FetchWildFlyServer, TypeOK, serverVars, statusVars, stsVars, podVars, txnVars
<1>2. CASE GetOrCreateNewStatefulSet
  <2>1. faults' \in 0 .. MaxFaults
    BY <1>2, FaultsType DEF GetOrCreateNewStatefulSet
  <2>2. pass' \in PassType /\ pc' \in Steps /\ queued' \in BOOLEAN
    <3>1. CASE Return(TRUE)
      BY <3>1, ReturnType
    <3>2. CASE /\ pass' = [pass EXCEPT !.observed = stsStatus, !.fresh = TRUE]
               /\ Goto("listPods") /\ UNCHANGED queued
      BY <3>2 DEF TypeOK, PassType, Goto, Steps
    <3> QED
      BY <1>2, <3>1, <3>2 DEF GetOrCreateNewStatefulSet, stsVars
  <2>3. /\ sts' \in [exists : BOOLEAN, replicas : 0 .. MaxPods,
                     generation : 0 .. MaxGeneration, volume : Volumes, image : Images]
        /\ stsStatus' \in 0 .. MaxPods
    <3>1. CASE UNCHANGED stsVars
      BY <3>1 DEF TypeOK, stsVars
    <3>2. CASE /\ DesiredReplicaSizeForNewStatefulSet \in 0 .. MaxPods
               /\ sts' = NewStatefulSet(pass.spec, pass.generation,
                                        DesiredReplicaSizeForNewStatefulSet)
               /\ UNCHANGED stsStatus
      BY <3>2 DEF TypeOK, PassType, Specs, NewStatefulSet
    <3>3. CASE sts.exists /\ UNCHANGED <<stsVars, queued>>
      BY <3>3 DEF TypeOK, stsVars
    <3> QED
      BY <1>2, <3>1, <3>2, <3>3 DEF GetOrCreateNewStatefulSet
  <2> QED
    BY <1>2, <2>1, <2>2, <2>3
       DEF GetOrCreateNewStatefulSet, TypeOK, serverVars, statusVars, podVars, txnVars
<1>3. CASE ListPods
  <2>1. faults' \in 0 .. MaxFaults
    BY <1>3, FaultsType DEF ListPods
  <2>2. pass' \in PassType /\ pc' \in Steps /\ queued' \in BOOLEAN
    <3>1. CASE Return(TRUE)
      BY <3>1, ReturnType
    <3>2. CASE /\ pass' = [pass EXCEPT !.list = pods, !.connected = connected,
                                       !.running = running, !.prepared = prepared]
               /\ Goto("setLabel") /\ UNCHANGED queued
      BY <3>2 DEF TypeOK, PassType, Goto, Steps
    <3> QED
      BY <1>3, <3>1, <3>2 DEF ListPods, statusVars
  <2>3. /\ statusPods' \in [Ordinals -> Entries]
        /\ scalingdownPods' \in Int
        /\ statusReplicas' \in 0 .. MaxPods
        /\ behind' \in BOOLEAN /\ copy' \in ServerType
    <3>1. RemovedEntries \subseteq Ordinals
      BY DEF RemovedEntries
    <3>2. Cardinality(RemovedEntries) \in Nat
      BY <3>1, OrdinalsBound
    <3>3. CASE UNCHANGED statusVars
      BY <3>3 DEF TypeOK, statusVars
    <3>4. CASE /\ statusPods' = [p \in Ordinals |->
                                    IF p \in RemovedEntries THEN NoEntry ELSE pass.pods[p]]
               /\ statusReplicas' = Patched(statusReplicas, pass.replicas)
               /\ scalingdownPods' = Patched(scalingdownPods, pass.scaling)
               /\ Written
      BY <3>2, <3>4, WrittenType, MaxPodsAssumption DEF TypeOK, PassType, Patched, Larger, Entries
    <3> QED
      BY <1>3, <3>3, <3>4 DEF ListPods
  <2> QED
    BY <1>3, <2>1, <2>2, <2>3
       DEF ListPods, TypeOK, serverVars, stsVars, podVars, txnVars
<1> QED
  BY <1>1, <1>2, <1>3

\* Taking pods off the load balancer.
LEMMA SetLabelTypeOK ==
    ASSUME TypeOK, SetLabelAsDisabled
    PROVE  TypeOK'
<1>1. faults' \in 0 .. MaxFaults
  BY FaultsType DEF SetLabelAsDisabled
<1>2. CASE /\ pass' = [pass EXCEPT !.connected = {}]
           /\ Goto("processRecovery")
           /\ UNCHANGED <<queued, connected>>
  <2>1. pass' \in PassType /\ pc' \in Steps /\ queued' \in BOOLEAN
    BY <1>2 DEF TypeOK, PassType, Goto, Steps
  <2> QED
    BY <1>1, <1>2, <2>1
       DEF SetLabelAsDisabled, TypeOK, serverVars, statusVars, stsVars, txnVars
<1>3. CASE /\ \E kept : connected' = connected \ kept
           /\ Return(TRUE)
  <2>1. pass' \in PassType /\ pc' \in Steps /\ queued' \in BOOLEAN
    BY <1>3, ReturnType
  <2> QED
    BY <1>1, <1>3, <2>1
       DEF SetLabelAsDisabled, TypeOK, serverVars, statusVars, stsVars, txnVars
<1> QED
  BY <1>2, <1>3 DEF SetLabelAsDisabled

\* The number of pods to scale down is a number, positive or negative.
LEMMA NumberOfPodsType ==
    ASSUME TypeOK
    PROVE  NumberOfPodsToScaleDown \in Int
BY MaxPodsAssumption DEF TypeOK, PassType, Specs, NumberOfPodsToScaleDown

\* An accepted status write keeps the status well-formed.
LEMMA WriteStatusType ==
    ASSUME TypeOK, NEW e \in [Ordinals -> Entries], NEW n \in Int, NEW r \in 0 .. MaxPods,
           NEW b \in BOOLEAN, WriteStatus(e, n, r, b)
    PROVE  /\ statusPods' \in [Ordinals -> Entries]
           /\ scalingdownPods' \in Int
           /\ statusReplicas' \in 0 .. MaxPods
           /\ behind' \in BOOLEAN /\ copy' \in ServerType
           /\ queued' \in BOOLEAN
BY WrittenType DEF TypeOK, WriteStatus

\* A refused status write leaves the count of failures in its bounds.
LEMMA StatusRejectedType ==
    ASSUME TypeOK, StatusRejected
    PROVE  faults' \in 0 .. MaxFaults
BY FaultsType DEF StatusRejected

\* What a step of the processing leaves well-formed, apart from what it leaves alone.
ProcessingType ==
    /\ pass' \in PassType /\ pc' \in Steps /\ queued' \in BOOLEAN
    /\ statusPods' \in [Ordinals -> Entries]
    /\ scalingdownPods' \in Int
    /\ statusReplicas' \in 0 .. MaxPods
    /\ behind' \in BOOLEAN /\ copy' \in ServerType
    /\ faults' \in 0 .. MaxFaults

\* Going on to the StatefulSet without any recovery.
LEMMA SkipProcessingType ==
    ASSUME TypeOK, NEW b \in BOOLEAN, SkipProcessing(b), faults' \in 0 .. MaxFaults
    PROVE  ProcessingType
<1>1. pass' \in PassType
  BY DEF TypeOK, PassType, SkipProcessing
<1>2. queued' = queued /\ UNCHANGED statusVars /\ pc' \in Steps
  BY DEF SkipProcessing, Goto, Steps
<1> QED
  BY <1>1, <1>2 DEF TypeOK, ProcessingType, statusVars

\* The entries that the processing writes are entries.
LEMMA EntriesType ==
    ASSUME TypeOK
    PROVE  /\ ForcedEntries \in [Ordinals -> Entries]
           /\ InvestigatedEntries \in [Ordinals -> Entries]
           /\ GetPodStatus \in [Ordinals -> Entries]
<1>1. pass.pods \in [Ordinals -> Entries]
  BY DEF TypeOK, PassType
<1>2. {"CLEAN", "INVESTIGATION", "ACTIVE", NoEntry} \subseteq Entries
  BY DEF Entries, PodStates
<1>3. ForcedEntries \in [Ordinals -> Entries]
  BY <1>1, <1>2 DEF ForcedEntries
<1>4. InvestigatedEntries \in [Ordinals -> Entries]
  BY <1>1, <1>2 DEF InvestigatedEntries
<1>5. GetPodStatus \in [Ordinals -> Entries]
  BY <1>1, <1>2 DEF GetPodStatus
<1> QED
  BY <1>3, <1>4, <1>5

\* A scale down without recovery.
LEMMA ForceScaleDownType ==
    ASSUME TypeOK, SkipRecoveryAndForceScaleDown
    PROVE  ProcessingType
<1>1. pass' \in PassType /\ pc' \in Steps
  <2>1. /\ pass' = [pass EXCEPT !.pods = ForcedEntries, !.scaling = NumberOfPodsToScaleDown,
                                !.prepared = {}]
        /\ Goto("checkStatefulSet")
    BY DEF SkipRecoveryAndForceScaleDown
  <2>2. pass' \in PassType
    BY <2>1, EntriesType, NumberOfPodsType DEF TypeOK, PassType
  <2> QED
    BY <2>1, <2>2 DEF Goto, Steps
<1>2. CASE WriteStatus(ForcedEntries, NumberOfPodsToScaleDown, statusReplicas, FALSE) /\ NoFault
  <2>1. statusReplicas \in 0 .. MaxPods /\ faults' \in 0 .. MaxFaults
    BY <1>2, FaultsType DEF TypeOK
  <2> QED
    BY <1>1, <1>2, <2>1, EntriesType, NumberOfPodsType, WriteStatusType DEF ProcessingType
<1>3. CASE StatusRejected /\ UNCHANGED <<statusVars, queued>>
  BY <1>1, <1>3, StatusRejectedType DEF ProcessingType, TypeOK, statusVars
<1> QED
  BY <1>2, <1>3 DEF SkipRecoveryAndForceScaleDown

\* The pods that the goroutines work on are listed pods.
LEMMA PodsToRecoverType ==
    ASSUME TypeOK
    PROVE  /\ PodsToRecover \subseteq pass.list
           /\ pass.list \subseteq Ordinals
BY DEF TypeOK, PassType, PodsToRecover, ScaleDownPods, TailOfList

\* The start of the goroutines.
LEMMA StartRecoveryType ==
    ASSUME TypeOK, StartRecovery
    PROVE  ProcessingType
<1> DEFINE started == [pass EXCEPT !.pods = InvestigatedEntries,
                                   !.setup = {p \in PodsToRecover : pass.pods[p] # "CLEAN"}]
<1>1. started \in PassType
  <2>1. {p \in PodsToRecover : pass.pods[p] # "CLEAN"} \subseteq Ordinals
    BY PodsToRecoverType
  <2> QED
    BY <2>1, EntriesType DEF TypeOK, PassType
<1>2. [started EXCEPT !.scaling = NumberOfPodsToScaleDown] \in PassType
  <2> HIDE DEF started
  <2> QED
    BY <1>1, NumberOfPodsType DEF PassType
<1>3. CASE Return(TRUE) /\ (NoFault \/ StatusRejected) /\ UNCHANGED statusVars
  <2>1. faults' \in 0 .. MaxFaults
    BY <1>3, FaultsType, StatusRejectedType
  <2> QED
    BY <1>3, <2>1, ReturnType DEF ProcessingType, TypeOK, statusVars
<1>4. CASE pass' = started /\ Goto("workers") /\ NoFault /\ UNCHANGED <<statusVars, queued>>
  <2>1. faults' \in 0 .. MaxFaults
    BY <1>4, FaultsType
  <2> HIDE DEF started
  <2> QED
    BY <1>1, <1>4, <2>1 DEF ProcessingType, TypeOK, statusVars, Goto, Steps
<1>5. CASE /\ WriteStatus(InvestigatedEntries, NumberOfPodsToScaleDown, statusReplicas, FALSE)
           /\ pass' = [started EXCEPT !.scaling = NumberOfPodsToScaleDown]
           /\ Goto("workers") /\ NoFault
  <2>1. statusReplicas \in 0 .. MaxPods /\ faults' \in 0 .. MaxFaults
    BY <1>5, FaultsType DEF TypeOK
  <2>2. pass' \in PassType /\ pc' \in Steps
    BY <1>2, <1>5 DEF Goto, Steps
  <2> QED
    BY <1>5, <2>1, <2>2, EntriesType, NumberOfPodsType, WriteStatusType DEF ProcessingType
<1> QED
  BY <1>3, <1>4, <1>5 DEF StartRecovery

\* processTransactionRecoveryScaleDown up to its goroutines.
LEMMA ProcessTypeOK ==
    ASSUME TypeOK, ProcessTransactionRecoveryScaleDown
    PROVE  TypeOK'
<1> SUFFICES ProcessingType
  BY DEF ProcessTransactionRecoveryScaleDown, ProcessingType, TypeOK,
         serverVars, stsVars, podVars, txnVars
<1>1. CASE NothingToRecover
  BY <1>1, FaultsType, SkipProcessingType DEF NothingToRecover
<1>2. CASE RecoveryMustWait
  <2>1. faults' \in 0 .. MaxFaults
    BY <1>2, FaultsType DEF RecoveryMustWait
  <2> QED
    BY <1>2, <2>1, SkipProcessingType DEF RecoveryMustWait
<1> QED
  BY <1>1, <1>2, ForceScaleDownType, StartRecoveryType DEF ProcessTransactionRecoveryScaleDown

\* What the goroutines ask for is one of the three kinds of requeue.
LEMMA RaiseType ==
    ASSUME TypeOK, NEW needs \in {requeueLater, requeueNow}, NEW m \in RaiseMustReconcile(needs)
    PROVE  m \in {requeueOff, requeueLater, requeueNow}
BY DEF TypeOK, PassType, RaiseMustReconcile, Larger, requeueOff, requeueLater, requeueNow

\* The end of a goroutine that could not prepare its pod.
LEMMA SetupEndsType ==
    ASSUME TypeOK, NEW p \in Ordinals, NEW needs \in {requeueLater, requeueNow}, SetupEnds(p, needs)
    PROVE  pass' \in PassType
<1>1. PICK m \in RaiseMustReconcile(needs) :
           pass' = [pass EXCEPT !.setup = @ \ {p}, !.must = m]
  BY DEF SetupEnds
<1>2. m \in {requeueOff, requeueLater, requeueNow}
  BY RaiseType
<1> QED
  BY <1>1, <1>2 DEF TypeOK, PassType

\* A goroutine prepares its pod, or fails to.
LEMMA SetupTypeOK ==
    ASSUME TypeOK, NEW p \in Ordinals, SetupRecoveryPropertiesAndRestart(p)
    PROVE  TypeOK'
<1>1. faults' \in 0 .. MaxFaults
  BY FaultsType DEF SetupRecoveryPropertiesAndRestart
<1>2. pass' \in PassType
  <2>1. CASE SetupEnds(p, requeueLater) \/ SetupEnds(p, requeueNow)
    BY <2>1, SetupEndsType
  <2>2. CASE pass' = [pass EXCEPT !.setup = @ \ {p}, !.check = @ \cup {p}]
    BY <2>2 DEF TypeOK, PassType
  <2> QED
    BY <2>1, <2>2 DEF SetupRecoveryPropertiesAndRestart
<1>3. terminating' \subseteq pods /\ prepared' \subseteq pods
  <2>1. p \in running => p \in pods
    BY DEF TypeOK
  <2>2. terminating' = terminating \/ (p \in running /\ terminating' = terminating \cup {p})
    BY DEF SetupRecoveryPropertiesAndRestart
  <2>3. prepared' = prepared \/ (p \in running /\ prepared' = PreparedBy(p))
    BY DEF SetupRecoveryPropertiesAndRestart
  <2> QED
    BY <2>1, <2>2, <2>3 DEF TypeOK, PreparedBy
<1> QED
  BY <1>1, <1>2, <1>3
     DEF SetupRecoveryPropertiesAndRestart, TypeOK, serverVars, statusVars, stsVars, txnVars

\* A goroutine reports on its pod.
LEMMA RecoverPodTypeOK ==
    ASSUME TypeOK, NEW p \in Ordinals, RecoverPod(p)
    PROVE  TypeOK'
<1>1. faults' \in 0 .. MaxFaults
  BY FaultsType DEF RecoverPod
<1>2. CheckRecovery(p) \in Entries
  BY DEF CheckRecovery, Entries, PodStates
<1>3. CASE pass' = [pass EXCEPT !.check = @ \ {p}]
  <2>1. pass' \in PassType
    BY <1>3 DEF TypeOK, PassType
  <2> QED
    BY <1>1, <2>1 DEF RecoverPod, TypeOK, serverVars, statusVars, stsVars, podVars, txnVars
<1>4. CASE pass' = [pass EXCEPT !.check = @ \ {p},
                                !.pods[p] = CheckRecovery(p),
                                !.update = \/ @
                                           \/ CheckRecovery(p) = "PROCESSING"
                                           \/ CheckRecovery(p) # pass.pods[p]]
  <2>1. pass' \in PassType
    BY <1>2, <1>4 DEF TypeOK, PassType
  <2> QED
    BY <1>1, <2>1 DEF RecoverPod, TypeOK, serverVars, statusVars, stsVars, podVars, txnVars
<1> QED
  BY <1>3, <1>4 DEF RecoverPod

\* The goroutines are done.
LEMMA JoinWorkersTypeOK ==
    ASSUME TypeOK, JoinWorkers
    PROVE  TypeOK'
<1> SUFFICES ProcessingType
  BY DEF JoinWorkers, ProcessingType, TypeOK, serverVars, stsVars, podVars, txnVars
<1>1. RecoveryEnds => pass' \in PassType /\ pc' \in Steps
  <2>1. CASE pc' = "idle" /\ pass' = NoPass
    BY <2>1, NoPassType DEF Steps
  <2>2. CASE /\ pass' = [pass EXCEPT !.again = (pass.must = requeueLater), !.must = requeueOff,
                                     !.scaling = IF pass.update THEN NumberOfPodsToScaleDown ELSE @,
                                     !.update = FALSE, !.prepared = {}]
             /\ Goto("checkStatefulSet")
    <3>1. pass' \in PassType
      BY <2>2, NumberOfPodsType DEF TypeOK, PassType
    <3> QED
      BY <2>2, <3>1 DEF Goto, Steps
  <2> QED
    BY <2>1, <2>2 DEF RecoveryEnds
<1>2. CASE /\ NoFault /\ RecoveryEnds
           /\ queued' = (queued \/ pass.must = requeueNow)
           /\ UNCHANGED statusVars
  <2>1. queued' \in BOOLEAN
    BY <1>2 DEF TypeOK
  <2> QED
    BY <1>1, <1>2, <2>1, FaultsType DEF ProcessingType, TypeOK, statusVars
<1>3. CASE /\ WriteStatus(pass.pods, NumberOfPodsToScaleDown, statusReplicas,
                          pass.must = requeueNow)
           /\ RecoveryEnds /\ NoFault
  <2>1. /\ statusReplicas \in 0 .. MaxPods /\ pass.pods \in [Ordinals -> Entries]
        /\ (pass.must = requeueNow) \in BOOLEAN
    BY DEF TypeOK, PassType
  <2>2. faults' \in 0 .. MaxFaults
    BY <1>3, FaultsType
  <2> QED
    BY <1>1, <1>3, <2>1, <2>2, NumberOfPodsType, WriteStatusType DEF ProcessingType
<1>4. CASE StatusRejected /\ Return(TRUE) /\ UNCHANGED statusVars
  BY <1>4, ReturnType, StatusRejectedType DEF ProcessingType, TypeOK, statusVars
<1> QED
  BY <1>2, <1>3, <1>4 DEF JoinWorkers

\* The StatefulSet is deleted, updated or left alone.
LEMMA CheckStatefulSetTypeOK ==
    ASSUME TypeOK, CheckStatefulSet
    PROVE  TypeOK'
<1> DEFINE StatefulSets == [exists : BOOLEAN, replicas : 0 .. MaxPods,
                            generation : 0 .. MaxGeneration, volume : Volumes, image : Images]
<1> SUFFICES /\ pass' \in PassType /\ pc' \in Steps /\ queued' \in BOOLEAN
             /\ sts' \in StatefulSets /\ stsStatus' \in 0 .. MaxPods
             /\ terminating' \subseteq pods
             /\ faults' \in 0 .. MaxFaults
  BY DEF CheckStatefulSet, TypeOK, serverVars, statusVars, txnVars
<1>1. CASE DeleteStatefulSet
  <2>1. faults' \in 0 .. MaxFaults
    BY <1>1, FaultsType DEF DeleteStatefulSet
  <2>2. pass' \in PassType /\ pc' \in Steps /\ queued' \in BOOLEAN
    BY <1>1, ReturnType DEF DeleteStatefulSet
  <2>3. NoStatefulSet \in StatefulSets /\ 0 \in 0 .. MaxPods
    BY NoPassType, MaxPodsAssumption, MaxGenerationAssumption DEF NoStatefulSet
  <2> QED
    BY <1>1, <2>1, <2>2, <2>3 DEF DeleteStatefulSet, TypeOK, stsVars
<1>2. CASE UpdateStatefulSet
  <2>1. faults' \in 0 .. MaxFaults
    BY <1>2, FaultsType DEF UpdateStatefulSet, StatefulSetRejected
  <2>2. pass' \in PassType /\ pc' \in Steps /\ queued' \in BOOLEAN
    BY <1>2, ReturnType DEF UpdateStatefulSet
  <2>3. DesiredReplicaSize \in 0 .. MaxPods
    BY CalculatedReplicaSizeBound DEF TypeOK, PassType, Specs, DesiredReplicaSize
  <2>4. CASE sts' = [sts EXCEPT !.replicas = DesiredReplicaSize,
                                !.generation = pass.generation,
                                !.image = IF IsCurrentGeneration THEN @ ELSE pass.spec.image]
    BY <1>2, <2>1, <2>2, <2>3, <2>4 DEF UpdateStatefulSet, TypeOK, PassType, Specs
  <2>5. CASE UNCHANGED sts
    BY <1>2, <2>1, <2>2, <2>5 DEF UpdateStatefulSet, TypeOK
  <2> QED
    BY <1>2, <2>4, <2>5 DEF UpdateStatefulSet
<1>3. CASE StatefulSetUpToDate
  <2>1. /\ pass' = [pass EXCEPT !.again = @ \/ UncleanPodsRemain]
        /\ Goto("resources") /\ NoFault
        /\ UNCHANGED stsVars /\ UNCHANGED <<terminating, queued>>
    BY <1>3 DEF StatefulSetUpToDate, stsVars
  <2>2. pass' \in PassType
    BY <2>1 DEF TypeOK, PassType
  <2> QED
    BY <2>1, <2>2, FaultsType DEF TypeOK, stsVars, Goto, Steps
<1> QED
  BY <1>1, <1>2, <1>3 DEF CheckStatefulSet

\* The services and the route.
LEMMA ResourcesTypeOK ==
    ASSUME TypeOK, CreateOrUpdateResources
    PROVE  TypeOK'
<1>1. faults' \in 0 .. MaxFaults
  BY FaultsType DEF CreateOrUpdateResources
<1>2. pass' \in PassType /\ pc' \in Steps /\ queued' \in BOOLEAN
  <2>1. CASE Return(TRUE)
    BY <2>1, ReturnType
  <2>2. CASE Goto("updateStatus") /\ UNCHANGED <<pass, queued>>
    BY <2>2 DEF TypeOK, Goto, Steps
  <2> QED
    BY <2>1, <2>2 DEF CreateOrUpdateResources
<1>3. resourcesGeneration' \in 0 .. MaxGeneration
  BY DEF CreateOrUpdateResources, TypeOK, PassType
<1> QED
  BY <1>1, <1>2, <1>3
     DEF CreateOrUpdateResources, TypeOK, serverVars, statusVars, stsVars, podVars, txnVars

\* The end of the pass.
LEMMA UpdateStatusTypeOK ==
    ASSUME TypeOK, UpdateStatus
    PROVE  TypeOK'
<1> SUFFICES ProcessingType
  <2>1. \E refused : DeletePods(refused)
    BY DEF UpdateStatus
  <2>2. terminating' \subseteq pods
    BY <2>1 DEF DeletePods, PodsToReset, TypeOK
  <2> QED
    BY <2>2 DEF UpdateStatus, ProcessingType, TypeOK, serverVars, stsVars, txnVars
<1>1. faults' \in 0 .. MaxFaults
  BY FaultsType DEF UpdateStatus, DeletionFails
<1>2. CASE WriteStatus(GetPodStatus, NumberOfPodsToScaleDown, pass.observed, TRUE)
           /\ pc' = "idle" /\ pass' = NoPass
  <2>1. pass.observed \in 0 .. MaxPods
    BY DEF TypeOK, PassType
  <2> QED
    BY <1>2, <1>1, <2>1, EntriesType, NumberOfPodsType, WriteStatusType, NoPassType
       DEF ProcessingType, Steps
<1>3. CASE Return(TRUE) /\ UNCHANGED statusVars
  BY <1>3, <1>1, ReturnType DEF ProcessingType, TypeOK, statusVars
<1>4. CASE /\ UNCHANGED statusVars
           /\ \E noIP \in BOOLEAN : Return(pass.again \/ noIP)
  <2>1. \A noIP \in BOOLEAN : (pass.again \/ noIP) \in BOOLEAN
    OBVIOUS
  <2>2. pass' \in PassType /\ pc' \in Steps /\ queued' \in BOOLEAN
    BY <1>4, <2>1, ReturnType
  <2> QED
    BY <1>4, <1>1, <2>2 DEF ProcessingType, TypeOK, statusVars
<1> QED
  BY <1>2, <1>3, <1>4 DEF UpdateStatus

\* The number of pods fits into the StatefulSet's status.
LEMMA PodsBound ==
    ASSUME TypeOK
    PROVE  Cardinality(pods) \in 0 .. MaxPods
BY OrdinalsBound DEF TypeOK

\* An event on the StatefulSet makes the held one stale.
LEMMA StatefulSetEventType ==
    ASSUME TypeOK, StatefulSetEvent
    PROVE  pass' \in PassType /\ queued' \in BOOLEAN
BY DEF TypeOK, PassType, StatefulSetEvent

\* The user, the StatefulSet controller, the kubelets, a crash of the operator.
LEMMA ClusterTypeOK ==
    ASSUME TypeOK,
           Crash \/ EditSpec \/ SyncServer \/ StatefulSetController \/ Kubelets
             \/ \E p \in Ordinals : LosePod(p)
    PROVE  TypeOK'
<1>1. CASE Crash
  <2>1. faults' \in 0 .. MaxFaults /\ pass' \in PassType /\ pc' \in Steps /\ queued' \in BOOLEAN
    BY <1>1, FaultsType, ReturnType DEF Crash
  <2> QED
    BY <1>1, <2>1, NoPassType DEF Crash, TypeOK, serverVars, stsVars, podVars, txnVars
<1>2. CASE EditSpec
  <2>1. spec' \in Specs
    BY <1>2, EditsAssumption DEF EditSpec
  <2>2. generation' \in 1 .. MaxGeneration
    BY <1>2, MaxGenerationAssumption DEF EditSpec, TypeOK
  <2> QED
    BY <1>2, <2>1, <2>2, WrittenType DEF EditSpec, TypeOK, stsVars, podVars, txnVars
<1>3. CASE SyncStatefulSetStatus
  BY <1>3, PodsBound, StatefulSetEventType
     DEF SyncStatefulSetStatus, TypeOK, serverVars, statusVars, podVars, txnVars
<1>4. ASSUME NEW p \in Ordinals, CreatePod(p) \/ TerminatePod(p) \/ RollPod(p)
      PROVE  TypeOK'
  BY <1>4 DEF CreatePod, TerminatePod, RollPod, TypeOK,
              serverVars, statusVars, stsVars, txnVars, passVars
<1>5. ASSUME NEW p \in Ordinals, StartPod(p)
      PROVE  TypeOK'
  BY <1>5, StatefulSetEventType
     DEF StartPod, TypeOK, serverVars, statusVars, stsVars, txnVars
<1>6. ASSUME NEW p \in Ordinals, RemovePod(p)
      PROVE  TypeOK'
  BY <1>6, InitialSpecAssumption DEF RemovePod, Specs, TypeOK, serverVars, statusVars, stsVars, txnVars, passVars
<1>7. ASSUME NEW p \in Ordinals, LosePod(p)
      PROVE  TypeOK'
  <2>1. faults' \in 0 .. MaxFaults
    BY <1>7, FaultsType DEF LosePod
  <2> QED
    BY <1>7, <2>1 DEF LosePod, TypeOK, serverVars, statusVars, stsVars, txnVars, passVars
<1>8. CASE SyncServer
  BY <1>8, NoPassType DEF SyncServer, TypeOK, serverVars, stsVars, podVars, txnVars
<1> QED
  BY <1>1, <1>2, <1>3, <1>4, <1>5, <1>6, <1>7, <1>8 DEF StatefulSetController, Kubelets

\* The applications and the administrator.
LEMMA ApplicationTypeOK ==
    ASSUME TypeOK, NEW p \in Ordinals,
           BeginTransaction(p) \/ TurnHeuristic(p) \/ Recovers(p)
    PROVE  TypeOK'
BY DEF BeginTransaction, TurnHeuristic, Recovers, FinishTransaction, ResolveHeuristic, TypeOK,
       serverVars, statusVars, stsVars, podVars, passVars

\* A step of a pass keeps the state well-formed.
LEMMA ReconcileTypeOK ==
    ASSUME TypeOK, Reconcile
    PROVE  TypeOK'
BY ReadingTypeOK, SetLabelTypeOK, ProcessTypeOK, SetupTypeOK, RecoverPodTypeOK,
   JoinWorkersTypeOK, CheckStatefulSetTypeOK, ResourcesTypeOK, UpdateStatusTypeOK
   DEF Reconcile

\* Every step does.
LEMMA NextTypeOK == TypeOK /\ [Next]_vars => TypeOK'
<1> SUFFICES ASSUME TypeOK, [Next]_vars PROVE TypeOK'
  OBVIOUS
<1>1. CASE UNCHANGED vars
  BY <1>1 DEF vars, TypeOK, serverVars, statusVars, stsVars, podVars, txnVars, passVars
<1> QED
  BY <1>1, ReconcileTypeOK, ClusterTypeOK, ApplicationTypeOK DEF Next

\* The state is well-formed in every behaviour: whatever the edits, the failures
\* and the interleavings, the size that checkStatefulSet writes is one that the
\* cluster has room for, and no pod is marked, prepared or connected that does
\* not exist.
THEOREM TypeCorrect == Spec => []TypeOK
<1>1. Init => TypeOK
  BY InitTypeOK
<1>2. TypeOK /\ [Next]_vars => TypeOK'
  BY NextTypeOK
<1> QED
  BY <1>1, <1>2, PTL DEF Spec

-----------------------------------------------------------------------------
(* The StatefulSet never shrinks by more than has been cleaned.            *)

\* The StatefulSet's existence and size, the pass's place and list: what
\* ListCoversStatefulSet speaks of.
listVars == <<sts, pc, pass.list>>

\* Steps outside the pass leave the list alone.
LEMMA ClusterKeepsList ==
    ASSUME TypeOK, ListCoversStatefulSet,
           EditSpec \/ SyncServer \/ StatefulSetController \/ Kubelets
             \/ (\E p \in Ordinals : LosePod(p))
             \/ (\E p \in Ordinals : BeginTransaction(p) \/ TurnHeuristic(p) \/ Recovers(p))
    PROVE  UNCHANGED listVars
<1>1. StatefulSetEvent => pass'.list = pass.list
  BY DEF StatefulSetEvent, TypeOK, PassType
<1> QED
  BY <1>1 DEF listVars, EditSpec, SyncServer, StatefulSetController, SyncStatefulSetStatus,
     CreatePod, TerminatePod, RollPod, Kubelets, StartPod, RemovePod, LosePod, BeginTransaction, TurnHeuristic,
     Recovers, FinishTransaction, ResolveHeuristic, stsVars, passVars

\* What the steps of a pass do to the list once they have it: the pass ends, or
\* the list and the StatefulSet stay what they are.
ListKept == pc' = "idle" \/ (UNCHANGED sts /\ pass'.list = pass.list)

\* Every step of the pass that comes after the pod list keeps it.
LEMMA PassKeepsList ==
    ASSUME TypeOK,
           \/ SetLabelAsDisabled \/ ProcessTransactionRecoveryScaleDown
           \/ (\E p \in Ordinals : SetupRecoveryPropertiesAndRestart(p) \/ RecoverPod(p))
           \/ JoinWorkers \/ CheckStatefulSet \/ CreateOrUpdateResources \/ UpdateStatus
    PROVE  ListKept
<1> USE DEF Goto
<1>1. \A b : Return(b) => pc' = "idle"
  BY DEF Return
<1>2. CASE SetLabelAsDisabled
  <2>1. pass' = [pass EXCEPT !.connected = {}] => pass'.list = pass.list
    BY DEF TypeOK, PassType
  <2> QED
    BY <1>1, <1>2, <2>1 DEF SetLabelAsDisabled, ListKept, stsVars
<1>3. CASE ProcessTransactionRecoveryScaleDown
  <2>1. UNCHANGED sts
    BY <1>3 DEF ProcessTransactionRecoveryScaleDown, stsVars
  <2>2. CASE NothingToRecover \/ RecoveryMustWait
    <3>1. \A b : SkipProcessing(b) => pass'.list = pass.list
      BY DEF SkipProcessing, TypeOK, PassType
    <3> QED
      BY <2>1, <2>2, <3>1 DEF NothingToRecover, RecoveryMustWait, ListKept
  <2>3. CASE SkipRecoveryAndForceScaleDown
    <3>1. pass' = [pass EXCEPT !.pods = ForcedEntries, !.scaling = NumberOfPodsToScaleDown,
                               !.prepared = {}]
      BY <2>3 DEF SkipRecoveryAndForceScaleDown
    <3> QED
      BY <2>1, <3>1 DEF ListKept, TypeOK, PassType
  <2>4. CASE StartRecovery
    <3> DEFINE started == [pass EXCEPT !.pods = InvestigatedEntries,
                                       !.setup = {p \in PodsToRecover : pass.pods[p] # "CLEAN"}]
    <3>1. started.list = pass.list
      BY DEF TypeOK, PassType
    <3>2. [started EXCEPT !.scaling = NumberOfPodsToScaleDown].list = pass.list
      BY DEF TypeOK, PassType
    <3> QED
      BY <1>1, <2>1, <2>4, <3>1, <3>2 DEF StartRecovery, ListKept
  <2> QED
    BY <1>3, <2>2, <2>3, <2>4 DEF ProcessTransactionRecoveryScaleDown
<1>4. ASSUME NEW p \in Ordinals, SetupRecoveryPropertiesAndRestart(p) \/ RecoverPod(p)
      PROVE  ListKept
  <2>1. UNCHANGED sts
    BY <1>4 DEF SetupRecoveryPropertiesAndRestart, RecoverPod, stsVars
  <2>2. pass'.list = pass.list
    BY <1>4 DEF SetupRecoveryPropertiesAndRestart, RecoverPod, SetupEnds, TypeOK, PassType
  <2> QED
    BY <2>1, <2>2 DEF ListKept
<1>5. CASE JoinWorkers
  <2>1. UNCHANGED sts
    BY <1>5 DEF JoinWorkers, stsVars
  <2>2. RecoveryEnds => pc' = "idle" \/ pass'.list = pass.list
    BY DEF RecoveryEnds, TypeOK, PassType
  <2> QED
    BY <1>1, <1>5, <2>1, <2>2 DEF JoinWorkers, ListKept
<1>6. CASE CheckStatefulSet
  <2>1. CASE DeleteStatefulSet \/ UpdateStatefulSet
    BY <1>1, <2>1 DEF DeleteStatefulSet, UpdateStatefulSet, ListKept
  <2>2. CASE StatefulSetUpToDate
    <3>1. pass' = [pass EXCEPT !.again = @ \/ UncleanPodsRemain] /\ UNCHANGED sts
      BY <2>2 DEF StatefulSetUpToDate, stsVars
    <3> QED
      BY <3>1 DEF ListKept, TypeOK, PassType
  <2> QED
    BY <1>6, <2>1, <2>2 DEF CheckStatefulSet
<1>7. CASE CreateOrUpdateResources
  BY <1>1, <1>7 DEF CreateOrUpdateResources, ListKept, stsVars
<1>8. CASE UpdateStatus
  BY <1>1, <1>8 DEF UpdateStatus, ListKept
<1> QED
  BY <1>2, <1>3, <1>4, <1>5, <1>6, <1>7, <1>8

\* The pass gets its list only when the list is long enough, and only for a
\* StatefulSet that exists.
LEMMA NextListCovers ==
    TypeOK /\ ListCoversStatefulSet /\ [Next]_vars => ListCoversStatefulSet'
<1> SUFFICES ASSUME TypeOK, ListCoversStatefulSet, [Next]_vars
             PROVE  ListCoversStatefulSet'
  OBVIOUS
<1>1. \A b : Return(b) => pc' = "idle"
  BY DEF Return
<1>2. CASE UNCHANGED listVars
  BY <1>2 DEF listVars, ListCoversStatefulSet
<1>3. CASE pc' = "idle"
  BY <1>3 DEF ListCoversStatefulSet
<1>4. CASE FetchWildFlyServer
  BY <1>4 DEF FetchWildFlyServer, Goto, ListCoversStatefulSet, passVars
<1>5. CASE GetOrCreateNewStatefulSet
  BY <1>1, <1>3, <1>5 DEF GetOrCreateNewStatefulSet, Goto, ListCoversStatefulSet, stsVars
<1>6. CASE ListPods
  <2>1. CASE /\ ~PodsOutOfSync
             /\ pass' = [pass EXCEPT !.list = pods, !.connected = connected,
                                     !.running = running, !.prepared = prepared]
    <3>1. pass'.list = pods
      BY <2>1 DEF TypeOK, PassType
    <3>2. sts.replicas <= Cardinality(pods)
      BY <2>1, PodsBound, MaxPodsAssumption DEF PodsOutOfSync, TypeOK
    <3>3. sts.exists /\ UNCHANGED sts
      BY <1>6 DEF ListPods, ListCoversStatefulSet, stsVars
    <3> QED
      BY <3>1, <3>2, <3>3 DEF ListCoversStatefulSet
  <2> QED
    BY <1>1, <1>3, <1>6, <2>1 DEF ListPods
<1>7. CASE /\ pc \notin {"idle", "getStatefulSet", "listPods"}
           /\ ListKept
  BY <1>3, <1>7 DEF ListKept, ListCoversStatefulSet
<1>8. CASE Reconcile
  <2>1. CASE \/ SetLabelAsDisabled \/ ProcessTransactionRecoveryScaleDown
             \/ (\E p \in Ordinals : SetupRecoveryPropertiesAndRestart(p) \/ RecoverPod(p))
             \/ JoinWorkers \/ CheckStatefulSet \/ CreateOrUpdateResources \/ UpdateStatus
    <3>1. ListKept
      BY <2>1, PassKeepsList
    <3>2. pc \notin {"idle", "getStatefulSet", "listPods"}
      BY <2>1 DEF SetLabelAsDisabled, ProcessTransactionRecoveryScaleDown, RecoverPod,
         SetupRecoveryPropertiesAndRestart, JoinWorkers, CheckStatefulSet,
         CreateOrUpdateResources, UpdateStatus
    <3> QED
      BY <1>7, <3>1, <3>2
  <2> QED
    BY <1>4, <1>5, <1>6, <1>8, <2>1 DEF Reconcile
<1>9. CASE Crash
  BY <1>1, <1>3, <1>9 DEF Crash
<1>10. CASE UNCHANGED vars
  BY <1>2, <1>10 DEF vars, listVars, stsVars, passVars
<1> QED
  BY <1>2, <1>8, <1>9, <1>10, ClusterKeepsList DEF Next

\* A pass that has got past the pod list holds at least as many pods as the
\* StatefulSet has replicas, whatever happens to the pods meanwhile.
THEOREM ListCovers == Spec => []ListCoversStatefulSet
<1>1. Init => ListCoversStatefulSet
  BY DEF Init, ListCoversStatefulSet
<1> QED
  BY <1>1, TypeCorrect, NextListCovers, PTL DEF Spec

\* The pods that checkStatefulSet counts are listed pods marked CLEAN.
LEMMA ShutdownPodsClean ==
    ASSUME TypeOK
    PROVE  /\ Cardinality(ShutdownPods) \in Nat
           /\ Cardinality({p \in pass.list : pass.pods[p] = "CLEAN"}) \in Nat
           /\ Cardinality(ShutdownPods) <= Cardinality({p \in pass.list : pass.pods[p] = "CLEAN"})
           /\ Cardinality(pass.list) \in Nat
<1> DEFINE Clean == {p \in pass.list : pass.pods[p] = "CLEAN"}
<1>1. pass.list \subseteq Ordinals /\ Clean \subseteq Ordinals /\ ShutdownPods \subseteq Clean
  BY DEF TypeOK, PassType, ShutdownPods
<1>2. IsFiniteSet(Clean) /\ Cardinality(Clean) \in Nat /\ Cardinality(pass.list) \in Nat
  BY <1>1, OrdinalsBound
<1>3. Cardinality(ShutdownPods) <= Cardinality(Clean)
  BY <1>1, <1>2, FS_Subset
<1>4. ShutdownPods \subseteq Ordinals
  BY <1>1
<1> QED
  BY <1>2, <1>3, <1>4, OrdinalsBound

\* One update of the StatefulSet takes away no more replicas than there are
\* listed pods marked CLEAN.
LEMMA NextShrinkCovered ==
    ASSUME TypeOK, ListCoversStatefulSet, [Next]_vars, sts.exists, sts'.exists
    PROVE  sts.replicas - sts'.replicas
             <= Cardinality({p \in pass.list : pass.pods[p] = "CLEAN"})
<1>1. sts.replicas \in Nat /\ pass.spec.replicas \in Nat
  BY MaxPodsAssumption DEF TypeOK, PassType, Specs
<1>2. CASE UNCHANGED sts
  BY <1>1, <1>2, ShutdownPodsClean
<1>3. CASE pc = "checkStatefulSet" /\ UpdateStatefulSet
  <2>1. CASE sts' = [sts EXCEPT !.replicas = DesiredReplicaSize, !.generation = pass.generation,
                                !.image = IF IsCurrentGeneration THEN @ ELSE pass.spec.image]
    <3>1. sts'.replicas = DesiredReplicaSize
      BY <2>1 DEF TypeOK
    <3>2. CASE ScalesDown
      <4>1. sts.replicas <= Cardinality(pass.list)
        BY <1>3 DEF ListCoversStatefulSet
      <4>2. sts'.replicas = Cardinality(pass.list) - Cardinality(ShutdownPods)
        BY <3>1, <3>2 DEF DesiredReplicaSize, CalculatedReplicaSize
      <4> QED
        BY <1>1, <4>1, <4>2, ShutdownPodsClean
    <3>3. CASE ~ScalesDown
      BY <1>1, <3>1, <3>3, ShutdownPodsClean DEF ScalesDown, DesiredReplicaSize
    <3> QED
      BY <3>2, <3>3
  <2> QED
    BY <1>2, <1>3, <2>1 DEF UpdateStatefulSet
<1>4. CASE CheckStatefulSet
  <2>1. ~NoStatefulSet.exists
    BY DEF NoStatefulSet
  <2> QED
    BY <1>2, <1>3, <1>4, <2>1
       DEF CheckStatefulSet, DeleteStatefulSet, StatefulSetUpToDate, stsVars
<1>5. CASE Reconcile /\ ~CheckStatefulSet
  BY <1>2, <1>5 DEF Reconcile, FetchWildFlyServer, GetOrCreateNewStatefulSet, ListPods,
     SetLabelAsDisabled, ProcessTransactionRecoveryScaleDown, SetupRecoveryPropertiesAndRestart,
     RecoverPod, JoinWorkers, CreateOrUpdateResources, UpdateStatus, stsVars
<1>6. CASE Crash
  BY <1>2, <1>6 DEF Crash, stsVars
<1>7. CASE UNCHANGED vars
  BY <1>2, <1>7 DEF vars, stsVars
<1> QED
  BY <1>2, <1>4, <1>5, <1>6, <1>7, ClusterKeepsList DEF Next, listVars

\* Whatever the edits, the failures and the interleavings, no step takes more
\* replicas off the StatefulSet than the pass holds CLEAN pods.
THEOREM ShrinkIsCovered == Spec => ShrinkCovered
<1>1. TypeOK /\ ListCoversStatefulSet /\ [Next]_vars
        => [sts.exists /\ sts'.exists =>
              sts.replicas - sts'.replicas
                <= Cardinality({p \in pass.list : pass.pods[p] = "CLEAN"})]_vars
  BY NextShrinkCovered
<1> QED
  BY <1>1, TypeCorrect, ListCovers, PTL DEF Spec, ShrinkCovered
=============================================================================
