-------------------- MODULE WildFlyServerScaleDownProofs --------------------
(***************************************************************************)
(* Scale down is safe, for every number of pods, of transactions and of    *)
(* failures: ScaleDownInv is inductive, the properties of the run          *)
(* scale_down follow, and the loop implements ScaleDownContract.           *)
(***************************************************************************)
EXTENDS WildFlyServerControllerProofs, MCWildFlyServerScaleDown

-----------------------------------------------------------------------------
(* Numbers, and counting the listed pods.                                  *)

\* The sizes, the generations and the ordinals are natural numbers.
Numbers ==
    /\ MaxPods \in Nat /\ Ordinals \subseteq Nat
    /\ sts.replicas \in Nat /\ sts.generation \in Nat
    /\ spec.replicas \in Nat /\ generation \in Nat
    /\ Shown.spec.replicas \in Nat /\ Shown.generation \in Nat
    /\ pass.spec.replicas \in Nat /\ pass.generation \in Nat

\* They are, in a well-formed state.
LEMMA TypeNumbers == TypeOK => Numbers
<1> SUFFICES ASSUME TypeOK PROVE Numbers
  OBVIOUS
<1>1. MaxPods \in Nat /\ Ordinals \subseteq Nat /\ MaxGeneration \in Nat
  BY MaxPodsAssumption, MaxGenerationAssumption DEF Ordinals
<1>2. Shown.spec.replicas \in 0 .. MaxPods /\ Shown.generation \in 0 .. MaxGeneration
  BY ShownType DEF ServerType, Specs
<1>3. pass.spec.replicas \in 0 .. MaxPods /\ pass.generation \in 0 .. MaxGeneration
  BY DEF TypeOK, PassType, Specs
<1>4. /\ sts.replicas \in 0 .. MaxPods /\ sts.generation \in 0 .. MaxGeneration
      /\ spec.replicas \in 0 .. MaxPods /\ generation \in 1 .. MaxGeneration
  BY DEF TypeOK, Specs
<1> QED
  BY <1>1, <1>2, <1>3, <1>4 DEF Numbers

\* ... and in the next state.
LEMMA TypeNumbersNext == TypeOK' => Numbers'
BY TypeNumbers, PTL

\* The fields of a pass.
LEMMA PassFields ==
    ASSUME TypeOK
    PROVE  /\ pass.list \subseteq Ordinals /\ pass.setup \subseteq Ordinals
           /\ pass.check \subseteq Ordinals /\ pass.pods \in [Ordinals -> Entries]
           /\ pass.spec \in Specs
BY DEF TypeOK, PassType

\* A set with the first n ordinals has at least n members.
LEMMA AtLeast ==
    ASSUME NEW n \in Nat, NEW m \in Nat, NEW S, S \subseteq Ordinals, m .. n - 1 \subseteq S
    PROVE  n - m <= Cardinality(S)
<1>1. IsFiniteSet(S) /\ Cardinality(S) \in Nat
  BY OrdinalsBound
<1>2. Cardinality(m .. n - 1) = IF m > n - 1 THEN 0 ELSE n - m
  BY FS_Interval
<1>3. Cardinality(m .. n - 1) <= Cardinality(S)
  BY <1>1, FS_Subset
<1> QED
  BY <1>1, <1>2, <1>3

\* A set of some of the first n ordinals has at most n members, and when it has
\* n members it has them all.
LEMMA AtMost ==
    ASSUME NEW n \in Nat, NEW S, S \subseteq 0 .. n - 1
    PROVE  Cardinality(S) \in Nat /\ Cardinality(S) <= n /\ (n <= Cardinality(S) => S = 0 .. n - 1)
<1>1. IsFiniteSet(0 .. n - 1) /\ Cardinality(0 .. n - 1) = n
  BY FS_Interval
<1>2. IsFiniteSet(S) /\ Cardinality(S) <= n /\ (n = Cardinality(S) => S = 0 .. n - 1)
  BY <1>1, FS_Subset
<1>3. Cardinality(S) \in Nat
  BY <1>2, FS_CardinalityType
<1> QED
  BY <1>2, <1>3

\* As many pods as the StatefulSet has replicas: then all that it keeps are there, and
\* no other when there are not more.
LEMMA EnoughPods ==
    ASSUME NEW n \in Nat, NEW S, S \subseteq Ordinals, n <= Cardinality(S),
           S \subseteq 0 .. n - 1 \/ 0 .. n - 1 \subseteq S
    PROVE  0 .. n - 1 \subseteq S /\ (Cardinality(S) = n => S = 0 .. n - 1)
<1>1. CASE S \subseteq 0 .. n - 1
  BY <1>1, AtMost
<1>2. CASE 0 .. n - 1 \subseteq S
  <2>1. IsFiniteSet(S) /\ Cardinality(0 .. n - 1) = n
    BY OrdinalsBound, FS_Interval
  <2> QED
    BY <1>2, <2>1, FS_Subset
<1> QED
  BY <1>1, <1>2

\* setLabelAsDisabled and the goroutines take the last listed pods: with every kept pod
\* in the list these are pods that the spec does not ask for.
LEMMA TailIsAbove ==
    ASSUME TypeOK, Kept \subseteq pass.list, pass.spec.replicas <= sts.replicas,
           NEW p \in ScaleDownPods
    PROVE  p \in pass.list /\ p \in Ordinals /\ p >= pass.spec.replicas
<1> DEFINE above == {q \in pass.list : q > p}
           n == sts.replicas
<1>1. p \in pass.list /\ p \in Ordinals /\ p \in Nat
  BY TypeNumbers, PassFields DEF Numbers, ScaleDownPods, TailOfList
<1>2. Cardinality(above) < n - pass.spec.replicas
  BY DEF ScaleDownPods, TailOfList, NumberOfPodsToScaleDown
<1>3. n \in Nat /\ pass.spec.replicas \in Nat /\ above \subseteq Ordinals
  BY TypeNumbers, PassFields DEF Numbers
<1>4. SUFFICES ASSUME p < pass.spec.replicas PROVE FALSE
  BY <1>1, <1>3
<1>5. p + 1 .. n - 1 \subseteq above
  BY <1>1, <1>3 DEF Kept
<1>6. n - (p + 1) <= Cardinality(above)
  <2>1. p + 1 \in Nat
    BY <1>1
  <2> HIDE DEF above, n
  <2> QED
    BY <1>3, <1>5, <2>1, AtLeast
<1>7. Cardinality(above) \in Nat
  BY <1>3, OrdinalsBound
<1> QED
  BY <1>1, <1>2, <1>3, <1>4, <1>6, <1>7

\* The size that checkStatefulSet calculates is the number of listed pods that the
\* search does not pass.
LEMMA CalculatedIsRest ==
    ASSUME TypeOK
    PROVE  /\ CalculatedReplicaSize = Cardinality(pass.list \ ShutdownPods)
           /\ CalculatedReplicaSize \in Nat
<1>1. ShutdownPods \subseteq pass.list /\ pass.list \subseteq Ordinals
  BY PassFields DEF ShutdownPods
<1>2. IsFiniteSet(pass.list) /\ IsFiniteSet(ShutdownPods)
  BY <1>1, OrdinalsBound
<1>3. Cardinality(pass.list \ ShutdownPods)
         = Cardinality(pass.list) - Cardinality(pass.list \cap ShutdownPods)
  BY <1>2, FS_Difference
<1>4. pass.list \cap ShutdownPods = ShutdownPods
  BY <1>1
<1>5. Cardinality(pass.list \ ShutdownPods) \in Nat
  <2>1. pass.list \ ShutdownPods \subseteq Ordinals
    BY <1>1
  <2> QED
    BY <2>1, OrdinalsBound
<1> QED
  BY <1>3, <1>4, <1>5 DEF CalculatedReplicaSize

\* The size calculated by checkStatefulSet is not below the spec's, and the pods of
\* the ordinals that it cuts off are CLEAN.
LEMMA CalculatedCovers ==
    ASSUME TypeOK, Kept \subseteq pass.list, pass.spec.replicas <= sts.replicas,
           Empty(pass.pods) \/ \A p \in pass.list : pass.pods[p] # NoEntry,
           EntriesTrue(pass.pods, pass.spec.replicas, Drained)
    PROVE  /\ pass.spec.replicas <= CalculatedReplicaSize
           /\ \A p \in Kept : p >= CalculatedReplicaSize
                                => p \in pass.list /\ pass.pods[p] = "CLEAN"
<1> DEFINE rest == pass.list \ ShutdownPods
<1>1. /\ rest \subseteq Ordinals /\ pass.list \subseteq Ordinals
      /\ Ordinals \subseteq Nat /\ pass.spec.replicas \in Nat /\ sts.replicas \in Nat
  BY TypeNumbers, PassFields DEF Numbers
<1>2. pass.spec.replicas <= CalculatedReplicaSize
  <2>1. ASSUME NEW p \in ShutdownPods PROVE p >= pass.spec.replicas
    BY <1>1 DEF ShutdownPods, EntriesTrue, NoEntry
  <2>2. 0 .. pass.spec.replicas - 1 \subseteq rest
    BY <1>1, <2>1 DEF Kept
  <2>3. pass.spec.replicas - 0 <= Cardinality(rest)
    <3> HIDE DEF rest
    <3> QED
      BY <1>1, <2>2, AtLeast
  <2> QED
    BY <1>1, <2>3, CalculatedIsRest
<1>3. ASSUME NEW p \in Kept, p >= CalculatedReplicaSize
      PROVE  p \in pass.list /\ pass.pods[p] = "CLEAN"
  <2>1. p \in pass.list /\ p \in Nat /\ p < sts.replicas
    BY <1>1 DEF Kept
  <2>2. CASE p \in ShutdownPods
    BY <2>1, <2>2 DEF ShutdownPods
  <2>3. CASE p \notin ShutdownPods
    <3>1. ASSUME NEW q \in 0 .. p PROVE q \in rest
      <4>1. q \in pass.list /\ q \in Nat
        BY <1>1, <2>1 DEF Kept
      <4>2. SUFFICES ASSUME q \in ShutdownPods PROVE FALSE
        BY <4>1
      <4>3. pass.pods[q] = "CLEAN" /\ q < p
        BY <2>1, <2>3, <4>2 DEF ShutdownPods
      <4>4. pass.pods[p] # NoEntry
        BY <1>1, <2>1, <4>1, <4>3 DEF Empty, NoEntry
      <4>5. \A r \in pass.list : r > q => pass.pods[r] \in {"CLEAN", NoEntry}
        BY <4>2 DEF ShutdownPods
      <4>6. \A r \in pass.list : r > p => r > q
        <5> SUFFICES ASSUME NEW r \in pass.list, r > p PROVE r > q
          OBVIOUS
        <5>1. r \in Nat
          BY <1>1
        <5> QED
          BY <2>1, <4>1, <4>3, <5>1
      <4> QED
        BY <2>1, <2>3, <4>3, <4>4, <4>5, <4>6 DEF ShutdownPods
    <3>2. (p + 1) - 0 <= Cardinality(rest)
      <4>1. 0 .. (p + 1) - 1 \subseteq rest /\ p + 1 \in Nat /\ 0 \in Nat
        BY <2>1, <3>1
      <4> HIDE DEF rest
      <4> QED
        BY <1>1, <4>1, AtLeast
    <3> QED
      BY <1>3, <2>1, <3>2, CalculatedIsRest
  <2> QED
    BY <2>2, <2>3
<1> QED
  BY <1>2, <1>3

\* When the listed pods that have been cut off are CLEAN, the calculated size is not
\* larger than the StatefulSet: it does not grow again.
LEMMA CalculatedWithin ==
    ASSUME TypeOK, \A p \in pass.list \ Kept : pass.pods[p] = "CLEAN"
    PROVE  CalculatedReplicaSize <= sts.replicas
<1>1. pass.list \subseteq Ordinals /\ Ordinals \subseteq Nat /\ sts.replicas \in Nat
  BY TypeNumbers, PassFields DEF Numbers
<1>2. pass.list \ ShutdownPods \subseteq 0 .. sts.replicas - 1
  <2> SUFFICES ASSUME NEW p \in pass.list, p \notin Kept PROVE p \in ShutdownPods
    BY DEF Kept
  <2>1. p \in Nat /\ p >= sts.replicas
    <3>1. p \in Nat
      BY <1>1
    <3> QED
      BY <1>1, <3>1 DEF Kept
  <2>2. ASSUME NEW q \in pass.list, q > p PROVE q \notin Kept
    <3>1. q \in Nat
      BY <1>1
    <3> QED
      BY <1>1, <2>1, <2>2, <3>1 DEF Kept
  <2> QED
    BY <2>2 DEF ShutdownPods
<1> QED
  BY <1>1, <1>2, AtMost, CalculatedIsRest

-----------------------------------------------------------------------------
(* What the informer shows after a step.                                   *)

\* An informer that does not lag shows what is stored.
LEMMA ShownWhenCurrent == ~behind => Shown = Stored
BY DEF Shown, Stored

\* ... in the next state too.
LEMMA ShownWhenCurrentNext == ~behind' => Shown' = Stored'
BY DEF Shown, Stored

\* It shows the same when nothing is written.
LEMMA ShownStays ==
    ASSUME UNCHANGED <<serverVars, statusVars>>
    PROVE  Shown' = Shown
BY DEF Shown, serverVars, statusVars

\* After a write it shows what it showed, or what is stored now.
LEMMA ShownWritten ==
    ASSUME Written
    PROVE  /\ LaggingCache => Shown' = Shown
           /\ ~LaggingCache => Shown' = Stored' /\ ~behind'
BY LaggingCacheAssumption DEF Shown, Stored, Written

\* The fields of what is stored.
LEMMA StoredFields ==
    /\ Stored.spec = spec /\ Stored.generation = generation
    /\ Stored.pods = statusPods /\ Stored.scaling = scalingdownPods
BY DEF Stored

\* ... and of what will be.
LEMMA StoredFieldsNext ==
    /\ Stored'.spec = spec' /\ Stored'.generation = generation'
    /\ Stored'.pods = statusPods' /\ Stored'.scaling = scalingdownPods'
BY DEF Stored

-----------------------------------------------------------------------------
(* Entries somebody holds, while the cluster moves.                        *)

\* What is true of the entries for a size is true for a smaller one, and stays true
\* while more pods are drained.
LEMMA TrueEntriesStay ==
    ASSUME NEW e, NEW n \in Nat, NEW m \in Nat, m <= n, NEW d1, NEW d2, d1 \subseteq d2,
           Ordinals \subseteq Nat, EntriesTrue(e, n, d1)
    PROVE  EntriesTrue(e, m, d2)
BY DEF EntriesTrue

\* No entry is untrue when there is none.
LEMMA NoEntriesTrue ==
    ASSUME NEW e, NEW n, NEW d, Empty(e)
    PROVE  EntriesTrue(e, n, d)
BY DEF EntriesTrue, Empty, NoEntry

\* The entries stay complete while pods go that are not kept.
LEMMA CompleteEntriesStay ==
    ASSUME NEW e, NEW s1, NEW s2, NEW k, s2 \subseteq s1, s1 \cap k \subseteq s2,
           EntriesComplete(e, s1, k)
    PROVE  EntriesComplete(e, s2, k)
BY DEF EntriesComplete

-----------------------------------------------------------------------------
(* The cluster part of the invariant.                                      *)

\* The cluster moves without getting larger: of the pods only some go that are not kept,
\* none is taken back into service, and no kept pod is deleted.
Thins ==
    /\ UNCHANGED <<sts, image>>
    /\ pods' \subseteq pods /\ pods \cap Kept \subseteq pods'
    /\ connected' \subseteq connected
    /\ prepared \cap pods' \subseteq prepared'
    /\ terminating' \cap Kept = {}
    /\ indoubt' \cup heuristics' \subseteq Kept
    /\ Drained \subseteq Drained'

\* A step that leaves the pods and their logs alone is one of these.
LEMMA StillThins ==
    ASSUME ClusterInv, UNCHANGED <<sts, podVars, txnVars>>
    PROVE  Thins
BY DEF Thins, podVars, txnVars, Drained, ClusterInv, PodsInPlace, NoOrphans

\* Such a step keeps the cluster part of the invariant when nothing is written.
LEMMA ThinsKeepsCluster ==
    ASSUME TypeOK, ClusterInv, Thins, UNCHANGED <<serverVars, statusVars>>
    PROVE  ClusterInv'
<1>1. /\ Kept' = Kept /\ Shown' = Shown /\ sts' = sts
      /\ spec' = spec /\ generation' = generation /\ behind' = behind
      /\ statusPods' = statusPods /\ scalingdownPods' = scalingdownPods
  BY ShownStays DEF Thins, Kept, serverVars, statusVars
<1>2. Numbers
  BY TypeNumbers
<1>3. SpecsFall' /\ CurrentEntries'
  BY <1>1 DEF ClusterInv, SpecsFall, CurrentEntries
<1>4. SizeCovers'
  BY <1>1 DEF ClusterInv, SizeCovers, Thins
<1>5. NoOrphans'
  BY <1>1 DEF NoOrphans, Thins
<1>6. NothingBefore'
  <2>1. ~sts.exists => Kept = {}
    BY <1>2 DEF ClusterInv, NothingBefore, Kept, Numbers
  <2> QED
    BY <1>1, <2>1 DEF ClusterInv, NothingBefore, Thins
<1>7. PodsInPlace'
  BY <1>1 DEF ClusterInv, PodsInPlace, Thins
<1>8. EntriesGood'
  <2>1. /\ EntriesTrue(statusPods, spec.replicas, Drained')
        /\ EntriesTrue(Shown.pods, Shown.spec.replicas, Drained')
    BY <1>2, TrueEntriesStay DEF ClusterInv, EntriesGood, Thins, Numbers
  <2>2. /\ EntriesComplete(statusPods, pods', Kept)
        /\ EntriesComplete(Shown.pods, pods', Kept)
    BY CompleteEntriesStay DEF ClusterInv, EntriesGood, Thins
  <2>3. EntriesStay(statusPods, Shown.pods, pods')
    BY DEF ClusterInv, EntriesGood, EntriesStay, Thins
  <2> QED
    BY <1>1, <2>1, <2>2, <2>3 DEF EntriesGood
<1> QED
  BY <1>3, <1>4, <1>5, <1>6, <1>7, <1>8 DEF ClusterInv

\* A write of the status keeps it, when the entries are true for a size that was asked for,
\* when there is one for every pod, and when those of the pods cut off say CLEAN.
LEMMA WriteKeepsCluster ==
    ASSUME TypeOK, ClusterInv, Written, sts.exists,
           UNCHANGED <<serverVars, sts, pods, connected, prepared, image, txnVars>>,
           terminating' \cap Kept = {},
           NEW n \in Nat, spec.replicas <= n,
           EntriesTrue(statusPods', n, Drained),
           Kept \subseteq pods, \A p \in pods : statusPods'[p] # NoEntry,
           ~LaggingCache => CutAreClean(statusPods', Kept)
    PROVE  ClusterInv'
<1>1. /\ Kept' = Kept /\ Drained' = Drained /\ sts' = sts /\ pods' = pods
      /\ spec' = spec /\ generation' = generation
      /\ indoubt' = indoubt /\ heuristics' = heuristics
  BY DEF Kept, Drained, serverVars, txnVars
<1>2. Numbers
  BY TypeNumbers
<1>3. pods \subseteq Ordinals
  BY DEF TypeOK
<1>4. \/ Shown' = Shown
      \/ Shown'.spec = spec /\ Shown'.generation = generation /\ Shown'.pods = statusPods'
  BY <1>1, ShownWritten, StoredFieldsNext
<1>5. SpecsFall'
  BY <1>1, <1>2, <1>4 DEF ClusterInv, SpecsFall, Before, Numbers
<1>6. CurrentEntries'
  BY <1>1, ShownWritten DEF CurrentEntries
<1>7. SizeCovers'
  BY <1>1, <1>2, <1>4 DEF ClusterInv, SizeCovers, SpecsFall, Before, Numbers
<1>8. NoOrphans' /\ NothingBefore'
  BY <1>1 DEF ClusterInv, NoOrphans, NothingBefore
<1>9. PodsInPlace'
  BY <1>1 DEF ClusterInv, PodsInPlace
<1>10. EntriesTrue(statusPods', spec.replicas, Drained)
  BY <1>2, TrueEntriesStay DEF Numbers
<1>11. EntriesComplete(statusPods', pods, Kept) /\ (Empty(statusPods') => pods = {})
  <2>1. Empty(statusPods') => pods = {}
    BY <1>3 DEF Empty
  <2> QED
    BY <2>1 DEF EntriesComplete
<1>12. EntriesGood'
  BY <1>1, <1>4, <1>10, <1>11 DEF ClusterInv, EntriesGood, EntriesStay
<1> QED
  BY <1>5, <1>6, <1>7, <1>8, <1>9, <1>12 DEF ClusterInv

-----------------------------------------------------------------------------
(* The pass part of the invariant, while the cluster moves.                *)

\* The pass, if it goes on, holds the same WildFlyServer; the queue is not emptied.
HeldStays ==
    /\ pc' # "idle" => /\ pc # "idle"
                       /\ pass'.spec = pass.spec /\ pass'.generation = pass.generation
                       /\ pass'.pods = pass.pods /\ pass'.scaling = pass.scaling
    /\ queued => queued'

\* What the pass holds of the WildFlyServer stays good while nothing is written.
LEMMA ThinsKeepsHeld ==
    ASSUME TypeOK, ClusterInv, PassHolds, Thins, UNCHANGED <<serverVars, statusVars>>, HeldStays
    PROVE  PassHolds'
<1> SUFFICES ASSUME Fetched' PROVE PassHolds'
  BY DEF PassHolds
<1>1. /\ Kept' = Kept /\ Shown' = Shown /\ sts' = sts
      /\ generation' = generation /\ behind' = behind
  BY ShownStays DEF Thins, Kept, serverVars, statusVars
<1>2. Numbers
  BY TypeNumbers
<1>3. /\ Fetched /\ (queued => queued')
      /\ pass'.spec = pass.spec /\ pass'.generation = pass.generation
      /\ pass'.pods = pass.pods /\ pass'.scaling = pass.scaling
  BY DEF HeldStays, Fetched
<1>4. EntriesTrue(pass.pods, pass.spec.replicas, Drained')
  BY <1>2, <1>3, TrueEntriesStay DEF PassHolds, Thins, Numbers
<1>5. EntriesComplete(pass.pods, pods', Kept)
  BY <1>3, CompleteEntriesStay DEF PassHolds, Thins
<1>6. EntriesStay(Shown.pods, pass.pods, pods')
  BY <1>3 DEF PassHolds, EntriesStay, Thins
<1> QED
  BY <1>1, <1>3, <1>4, <1>5, <1>6 DEF PassHolds

\* ... and stays what the status says.
LEMMA HeldKeepsCurrent ==
    ASSUME PassCurrent, sts' = sts, statusPods' = statusPods, HeldStays,
           pc' # "idle" /\ pc = "workers" /\ pass.update => pc' = "workers" /\ pass'.update
    PROVE  PassCurrent'
<1>1. Kept' = Kept
  BY DEF Kept
<1> QED
  BY <1>1 DEF PassCurrent, HeldStays, Fetched

\* The pods to scale down are the last ones of the list.
LEMMA ScaleDownPodsStay ==
    ASSUME sts' = sts, pass'.list = pass.list, pass'.spec = pass.spec
    PROVE  ScaleDownPods' = ScaleDownPods
BY DEF ScaleDownPods, TailOfList, NumberOfPodsToScaleDown

\* The pass, if it goes on, holds the same list.
ListStays ==
    Listed' => /\ Listed
               /\ pass'.list = pass.list /\ pass'.spec = pass.spec /\ pass'.pods = pass.pods
               /\ pass'.prepared \subseteq pass.prepared
               /\ pc' = "setLabel" => pc = "setLabel" /\ pass'.connected = pass.connected
               /\ pc' = "processRecovery" => ScaleDownPods \cap connected' = {}

\* What the pass holds of the pods stays good.
LEMMA ThinsKeepsList ==
    ASSUME ListHolds, Thins, ListStays
    PROVE  ListHolds'
<1> SUFFICES ASSUME Listed' PROVE ListHolds'
  BY DEF ListHolds
<1>1. /\ Listed /\ sts' = sts /\ Kept' = Kept
      /\ pass'.list = pass.list /\ pass'.spec = pass.spec /\ pass'.pods = pass.pods
      /\ pass'.prepared \subseteq pass.prepared
  BY DEF ListStays, Thins, Kept
<1>2. ScaleDownPods' = ScaleDownPods
  BY <1>1, ScaleDownPodsStay
<1>3. Kept' \subseteq pods' /\ pods' \subseteq pass'.list
  BY <1>1 DEF ListHolds, Thins
<1>4. /\ Empty(pass'.pods) => pass'.list \subseteq Kept'
      /\ ~Empty(pass'.pods) => \A p \in pass'.list : pass'.pods[p] # NoEntry
      /\ sts'.generation = 1 => pass'.list \subseteq Kept'
      /\ sts'.replicas = pass'.spec.replicas => pass'.list \subseteq Kept'
  BY <1>1 DEF ListHolds
<1>5. pass'.prepared \cap pods' \subseteq prepared'
  BY <1>1 DEF ListHolds, Thins
<1>6. /\ pc' = "setLabel" => connected' \subseteq pass'.connected
      /\ pc' = "processRecovery" => ScaleDownPods' \cap connected' = {}
  BY <1>1, <1>2 DEF ListHolds, ListStays, Thins
<1> QED
  BY <1>3, <1>4, <1>5, <1>6 DEF ListHolds

\* The pass does not move, and holds what it held but for the freshness of its StatefulSet.
PassStays ==
    /\ pc' = pc /\ UNCHANGED resourcesGeneration
    /\ pass' = pass \/ pass' = [pass EXCEPT !.fresh = FALSE]
    /\ queued => queued'

\* A pass that does not move keeps its part of the invariant in a cluster that thins.
LEMMA ThinsKeepsPass ==
    ASSUME TypeOK, ClusterInv, PassInv, Thins, UNCHANGED <<serverVars, statusVars>>, PassStays
    PROVE  PassInv'
<1>1. /\ pass'.spec = pass.spec /\ pass'.generation = pass.generation
      /\ pass'.pods = pass.pods /\ pass'.scaling = pass.scaling
      /\ pass'.list = pass.list /\ pass'.prepared = pass.prepared
      /\ pass'.connected = pass.connected
      /\ pass'.setup = pass.setup /\ pass'.check = pass.check
      /\ pass'.update = pass.update /\ pass'.again = pass.again
  BY DEF PassStays, TypeOK, PassType
<1>2. /\ Fetched' = Fetched /\ Listed' = Listed /\ pc' = pc
      /\ resourcesGeneration' = resourcesGeneration
  BY DEF PassStays, Fetched, Listed
<1>3. HeldStays /\ sts' = sts /\ statusPods' = statusPods
  BY <1>1, <1>2 DEF PassStays, HeldStays, Fetched, Thins, statusVars
<1>4. PassHolds' /\ PassCurrent'
  BY <1>1, <1>2, <1>3, ThinsKeepsHeld, HeldKeepsCurrent DEF PassInv
<1>5. ListStays
  BY <1>1, <1>2 DEF ListStays, PassInv, ListHolds, Thins
<1>6. ListHolds'
  BY <1>5, ThinsKeepsList DEF PassInv
<1>7. WorkersHold'
  BY <1>1, <1>2 DEF PassInv, WorkersHold, Thins
<1>8. PassProgress'
  BY <1>1, <1>2, <1>3 DEF PassInv, PassProgress
<1> QED
  BY <1>4, <1>6, <1>7, <1>8 DEF PassInv

\* The queue is not emptied by a cluster that thins, so a quiet operator has nothing
\* to do before and after.
LEMMA ThinsKeepsQuiet ==
    ASSUME QuietOnlyWhenScaled, sts' = sts, UNCHANGED <<serverVars, statusVars>>, PassStays
    PROVE  QuietOnlyWhenScaled'
BY DEF QuietOnlyWhenScaled, PassStays, serverVars, statusVars

-----------------------------------------------------------------------------
(* The steps of the cluster.                                               *)

\* What a step of the cluster leaves alone.
LEMMA EventKeepsPass ==
    ASSUME StatefulSetEvent \/ UNCHANGED <<pass, queued>>, pc' = pc, UNCHANGED resourcesGeneration
    PROVE  PassStays
BY DEF StatefulSetEvent, PassStays

\* The StatefulSet controller deletes only pods that are not kept, one by one; none of the
\* pods runs an older template, so none is rolled.
LEMMA ControllerThins ==
    ASSUME TypeOK, ClusterInv,
           SyncStatefulSetStatus \/ \E p \in Ordinals : TerminatePod(p) \/ RollPod(p)
    PROVE  Thins /\ PassStays /\ UNCHANGED <<serverVars, statusVars>>
<1>1. CASE SyncStatefulSetStatus
  BY <1>1, StillThins, EventKeepsPass DEF SyncStatefulSetStatus
<1>2. ASSUME NEW p \in Ordinals, TerminatePod(p)
      PROVE  Thins /\ PassStays /\ UNCHANGED <<serverVars, statusVars>>
  <2>1. p \notin Kept
    BY <1>2, TypeNumbers DEF TerminatePod, Kept, Numbers
  <2>2. Drained' = Drained
    BY <1>2 DEF TerminatePod, Drained, txnVars
  <2>3. Thins
    BY <1>2, <2>1, <2>2
       DEF TerminatePod, Thins, stsVars, txnVars, ClusterInv, PodsInPlace, NoOrphans
  <2> QED
    BY <1>2, <2>3, EventKeepsPass DEF TerminatePod, passVars
<1>3. ASSUME NEW p \in Ordinals, RollPod(p)
      PROVE  FALSE
  BY <1>3 DEF RollPod, ClusterInv, PodsInPlace, SizeCovers
<1> QED
  BY <1>1, <1>2, <1>3

\* The kubelets start pods, and remove the ones that are being deleted.
LEMMA KubeletsThin ==
    ASSUME TypeOK, ClusterInv, Kubelets
    PROVE  Thins /\ PassStays /\ UNCHANGED <<serverVars, statusVars>>
<1>1. ASSUME NEW p \in Ordinals, StartPod(p)
      PROVE  Thins /\ PassStays /\ UNCHANGED <<serverVars, statusVars>>
  <2>1. Drained' = Drained
    BY <1>1 DEF StartPod, Drained, txnVars
  <2>2. Thins
    BY <1>1, <2>1 DEF StartPod, Thins, stsVars, txnVars, ClusterInv, PodsInPlace, NoOrphans
  <2> QED
    BY <1>1, <2>2, EventKeepsPass DEF StartPod
<1>2. ASSUME NEW p \in Ordinals, RemovePod(p)
      PROVE  Thins /\ PassStays /\ UNCHANGED <<serverVars, statusVars>>
  <2>1. p \notin Kept
    BY <1>2 DEF RemovePod, ClusterInv, PodsInPlace
  <2>2. Drained \subseteq Drained'
    BY <1>2 DEF RemovePod, Drained, txnVars
  <2>3. image' = image
    BY <1>2 DEF RemovePod, ClusterInv, PodsInPlace, TypeOK
  <2>4. Thins
    BY <1>2, <2>1, <2>2, <2>3
       DEF RemovePod, Thins, stsVars, txnVars, ClusterInv, PodsInPlace, NoOrphans
  <2> QED
    BY <1>2, <2>4, EventKeepsPass DEF RemovePod, passVars
<1> QED
  BY <1>1, <1>2 DEF Kubelets

\* A pod that begins a transaction has not been prepared for recovery, and so is kept; the
\* other steps of the applications end a transaction.
LEMMA ApplicationsThin ==
    ASSUME TypeOK, ClusterInv, NEW p \in Ordinals,
           BeginTransaction(p) \/ TurnHeuristic(p) \/ Recovers(p)
    PROVE  Thins /\ PassStays /\ UNCHANGED <<serverVars, statusVars>>
<1> USE DEF Recovers
<1>1. /\ PassStays /\ UNCHANGED <<serverVars, statusVars>>
      /\ UNCHANGED <<sts, podVars>>
  BY EventKeepsPass
     DEF BeginTransaction, TurnHeuristic, FinishTransaction, ResolveHeuristic, passVars, stsVars
<1>2. indoubt' \cup heuristics' \subseteq indoubt \cup heuristics \cup (Kept \ Drained)
  <2>1. CASE BeginTransaction(p)
    <3>1. p \in pods /\ p \notin prepared
      BY <2>1 DEF BeginTransaction, TypeOK
    <3>2. p \in Kept /\ p \notin Drained
      BY <3>1 DEF ClusterInv, PodsInPlace, Drained
    <3> QED
      BY <2>1, <3>2 DEF BeginTransaction
  <2>2. CASE TurnHeuristic(p) \/ Recovers(p)
    BY <2>2 DEF TurnHeuristic, FinishTransaction, ResolveHeuristic
  <2> QED
    BY <2>1, <2>2
<1>3. Drained \subseteq Drained'
  BY <1>1, <1>2 DEF Drained, podVars
<1>4. Thins
  BY <1>1, <1>2, <1>3 DEF Thins, podVars, ClusterInv, PodsInPlace, NoOrphans
<1> QED
  BY <1>1, <1>4

\* No pod is lost.
LEMMA NoPodLost ==
    ASSUME PodsAreNotLost, NEW p \in Ordinals, LosePod(p)
    PROVE  FALSE
BY DEF PodsAreNotLost, LosePod, Fail

\* A pod is created only before the first one goes, while nobody holds an entry and no
\* pass has listed the pods.
LEMMA CreatePodKeepsInv ==
    ASSUME TypeOK, ScaleDownInv, NEW p \in Ordinals, CreatePod(p)
    PROVE  ScaleDownInv'
<1> USE DEF ScaleDownInv, CreatePod
<1>1. /\ p \in Kept /\ p \notin pods /\ sts.exists /\ pods' = pods \cup {p}
  BY TypeNumbers DEF Kept, Numbers
<1>2. /\ Kept' = Kept /\ Shown' = Shown /\ sts' = sts /\ terminating' = terminating
      /\ spec' = spec /\ generation' = generation /\ behind' = behind /\ queued' = queued
      /\ statusPods' = statusPods /\ scalingdownPods' = scalingdownPods
      /\ pc' = pc /\ pass' = pass /\ resourcesGeneration' = resourcesGeneration
      /\ indoubt' = indoubt /\ heuristics' = heuristics /\ prepared' = prepared
      /\ connected' = connected \cup {p}
  BY ShownStays DEF Kept, serverVars, statusVars, stsVars, passVars, txnVars
<1>3. Fetched' = Fetched /\ Listed' = Listed
  BY <1>2 DEF Fetched, Listed
<1>4. pods \subseteq Kept /\ ~Listed
  BY <1>1 DEF ClusterInv, PodsInPlace, PassInv, ListHolds
<1>5. \A e : EntriesComplete(e, pods, Kept) =>
         /\ Empty(e) /\ EntriesComplete(e, pods', Kept) /\ EntriesTrue(e, 0, Drained')
  BY <1>1, <1>4, NoEntriesTrue DEF EntriesComplete
<1>6. /\ Empty(statusPods) /\ Empty(Shown.pods)
      /\ EntriesComplete(statusPods, pods', Kept) /\ EntriesComplete(Shown.pods, pods', Kept)
      /\ Fetched => Empty(pass.pods) /\ EntriesComplete(pass.pods, pods', Kept)
  BY <1>5 DEF ClusterInv, EntriesGood, PassInv, PassHolds
<1>7. ClusterInv'
  <2>1. SpecsFall' /\ CurrentEntries' /\ NoOrphans' /\ NothingBefore'
    BY <1>1, <1>2 DEF ClusterInv, SpecsFall, CurrentEntries, NoOrphans, NothingBefore
  <2>2. SizeCovers'
    BY <1>1, <1>2 DEF ClusterInv, SizeCovers
  <2>3. PodsInPlace'
    <3>1. \A q \in Ordinals : image'[q] = InitialSpec.image
      BY <1>1 DEF ClusterInv, PodsInPlace, SizeCovers, TypeOK
    <3> QED
      BY <1>1, <1>2, <1>4, <3>1 DEF ClusterInv, PodsInPlace
  <2>4. EntriesGood'
    BY <1>2, <1>6, NoEntriesTrue DEF EntriesGood, EntriesStay
  <2> QED
    BY <2>1, <2>2, <2>3, <2>4 DEF ClusterInv
<1>8. PassInv'
  <2>1. PassHolds'
    BY <1>2, <1>3, <1>6, NoEntriesTrue DEF PassInv, PassHolds, EntriesStay
  <2>2. PassCurrent' /\ PassProgress'
    BY <1>2, <1>3 DEF PassInv, PassCurrent, PassProgress
  <2>3. ListHolds'
    BY <1>3, <1>4 DEF ListHolds
  <2>4. pc # "workers"
    BY <1>4 DEF Listed
  <2>5. WorkersHold'
    BY <1>2, <2>4 DEF PassInv, WorkersHold
  <2> QED
    BY <2>1, <2>2, <2>3, <2>5 DEF PassInv
<1>9. QuietOnlyWhenScaled'
  BY <1>2 DEF QuietOnlyWhenScaled
<1> QED
  BY <1>7, <1>8, <1>9

\* The StatefulSet controller, the kubelets and the applications keep the invariant.
LEMMA ClusterKeepsInv ==
    ASSUME OnlyScalesDown, TypeOK, ScaleDownInv,
           \/ StatefulSetController \/ Kubelets \/ (\E p \in Ordinals : LosePod(p))
           \/ (\E p \in Ordinals : BeginTransaction(p) \/ TurnHeuristic(p) \/ Recovers(p))
    PROVE  ScaleDownInv'
<1>1. CASE Thins /\ PassStays /\ UNCHANGED <<serverVars, statusVars>>
  <2>1. ClusterInv'
    BY <1>1, ThinsKeepsCluster DEF ScaleDownInv
  <2>2. PassInv'
    BY <1>1, ThinsKeepsPass DEF ScaleDownInv
  <2>3. QuietOnlyWhenScaled'
    BY <1>1, ThinsKeepsQuiet DEF ScaleDownInv, Thins
  <2> QED
    BY <2>1, <2>2, <2>3 DEF ScaleDownInv
<1>2. CASE StatefulSetController
  BY <1>1, <1>2, ControllerThins, CreatePodKeepsInv DEF StatefulSetController, ScaleDownInv
<1>3. CASE Kubelets
  BY <1>1, <1>3, KubeletsThin DEF ScaleDownInv
<1> QED
  BY <1>1, <1>2, <1>3, ApplicationsThin, NoPodLost DEF ScaleDownInv, OnlyScalesDown

-----------------------------------------------------------------------------
(* The user, the informer and a crash of the operator.                     *)

\* Without a pass there is nothing to hold.
LEMMA NoPassInv ==
    ASSUME pc' = "idle", pass' = NoPass
    PROVE  PassInv'
<1>1. pass'.setup = {} /\ pass'.check = {}
  BY DEF NoPass
<1> QED
  BY <1>1 DEF PassInv, PassHolds, PassCurrent, ListHolds, WorkersHold, PassProgress, Fetched, Listed

\* The pass ends with a reason to come back, having written nothing.
LEMMA ReturnKeepsInv ==
    ASSUME TypeOK, ScaleDownInv, Return(TRUE), Thins, UNCHANGED <<serverVars, statusVars>>
    PROVE  ScaleDownInv'
<1>1. ClusterInv'
  BY ThinsKeepsCluster DEF ScaleDownInv
<1>2. PassInv'
  BY NoPassInv DEF Return
<1>3. QuietOnlyWhenScaled'
  BY DEF Return, QuietOnlyWhenScaled
<1> QED
  BY <1>1, <1>2, <1>3 DEF ScaleDownInv

\* The user asks for less.
LEMMA EditKeepsInv ==
    ASSUME OnlyScalesDown, TypeOK, TypeOK', ScaleDownInv, EditSpec
    PROVE  ScaleDownInv'
<1>1. /\ Kept' = Kept /\ Drained' = Drained /\ sts' = sts /\ pods' = pods
      /\ terminating' = terminating /\ prepared' = prepared /\ image' = image
      /\ connected' = connected /\ indoubt' = indoubt /\ heuristics' = heuristics
      /\ statusPods' = statusPods /\ scalingdownPods' = scalingdownPods
      /\ pc' = pc /\ pass' = pass /\ resourcesGeneration' = resourcesGeneration
  BY DEF EditSpec, Kept, Drained, stsVars, podVars, txnVars
<1>2. /\ generation' = generation + 1 /\ spec'.replicas <= spec.replicas
      /\ spec'.recovery = spec.recovery /\ spec'.volume = spec.volume /\ spec'.image = spec.image
  BY DEF EditSpec, OnlyScalesDown, OnlyLowersSize
<1>3. Numbers /\ Numbers'
  BY TypeNumbers, TypeNumbersNext
<1>4. \/ Shown' = Shown
      \/ /\ Shown'.spec = spec' /\ Shown'.generation = generation'
         /\ Shown'.pods = statusPods /\ Shown'.scaling = scalingdownPods
  BY <1>1, ShownWritten, StoredFieldsNext DEF EditSpec
<1>5. UsersSpec(spec', generation') /\ Before(spec, generation, spec', generation')
  BY <1>2, <1>3 DEF ScaleDownInv, ClusterInv, SpecsFall, UsersSpec, Before, Numbers
<1>6. Before(Shown.spec, Shown.generation, spec', generation')
  BY <1>2, <1>3 DEF ScaleDownInv, ClusterInv, SpecsFall, Before, Numbers
<1>7. ClusterInv'
  <2>1. SpecsFall'
    BY <1>3, <1>4, <1>5, <1>6 DEF ScaleDownInv, ClusterInv, SpecsFall, Before, Numbers
  <2>2. SizeCovers'
    BY <1>1, <1>3, <1>4, <1>6 DEF ScaleDownInv, ClusterInv, SizeCovers, Before, Numbers
  <2>3. NothingBefore' /\ PodsInPlace' /\ NoOrphans'
    BY <1>1, <1>4 DEF ScaleDownInv, ClusterInv, NothingBefore, PodsInPlace, NoOrphans
  <2>4. CurrentEntries'
    BY <1>1, ShownWritten DEF EditSpec, ScaleDownInv, ClusterInv, CurrentEntries
  <2>5. EntriesTrue(statusPods, spec'.replicas, Drained)
    BY <1>2, <1>3, TrueEntriesStay DEF ScaleDownInv, ClusterInv, EntriesGood, Numbers
  <2>6. EntriesGood'
    BY <1>1, <1>4, <2>5 DEF ScaleDownInv, ClusterInv, EntriesGood, EntriesStay
  <2> QED
    BY <2>1, <2>2, <2>3, <2>4, <2>6 DEF ClusterInv
<1>8. PassInv'
  <2>1. Fetched' = Fetched /\ Listed' = Listed
    BY <1>1 DEF Fetched, Listed
  <2>2. ~queued' => behind'
    BY LaggingCacheAssumption DEF EditSpec, Written
  <2>3. Fetched => /\ Before(pass.spec, pass.generation, Shown'.spec, Shown'.generation)
                   /\ EntriesStay(Shown'.pods, pass.pods, pods)
    BY <1>2, <1>3, <1>4 DEF ScaleDownInv, ClusterInv, SpecsFall, EntriesGood, EntriesStay,
       PassInv, PassHolds, Before, Numbers
  <2>4. PassHolds'
    BY <1>1, <2>1, <2>2, <2>3 DEF ScaleDownInv, PassInv, PassHolds
  <2>5. ScaleDownPods' = ScaleDownPods
    BY <1>1, ScaleDownPodsStay
  <2>6. ListHolds'
    BY <1>1, <2>1, <2>5 DEF ScaleDownInv, PassInv, ListHolds
  <2>7. PassCurrent' /\ WorkersHold' /\ PassProgress'
    BY <1>1, <2>1 DEF ScaleDownInv, PassInv, PassCurrent, WorkersHold, PassProgress
  <2> QED
    BY <2>4, <2>6, <2>7 DEF PassInv
<1>9. QuietOnlyWhenScaled'
  BY LaggingCacheAssumption DEF EditSpec, Written, QuietOnlyWhenScaled
<1> QED
  BY <1>7, <1>8, <1>9 DEF ScaleDownInv

\* The informer has caught up: it shows what is stored.
LEMMA CaughtUpCluster ==
    ASSUME TypeOK, ClusterInv, ~behind',
           UNCHANGED <<serverVars, statusPods, scalingdownPods, statusReplicas, stsVars,
                       podVars, txnVars>>
    PROVE  /\ ClusterInv'
           /\ Shown'.spec = spec /\ Shown'.generation = generation /\ Shown'.pods = statusPods
<1>1. /\ Kept' = Kept /\ Drained' = Drained /\ sts' = sts /\ pods' = pods
      /\ terminating' = terminating /\ prepared' = prepared /\ image' = image
      /\ indoubt' = indoubt /\ heuristics' = heuristics
      /\ spec' = spec /\ generation' = generation
      /\ statusPods' = statusPods /\ scalingdownPods' = scalingdownPods
  BY DEF Kept, Drained, serverVars, stsVars, podVars, txnVars
<1>2. /\ Shown'.spec = spec /\ Shown'.generation = generation
      /\ Shown'.pods = statusPods /\ Shown'.scaling = scalingdownPods
  BY <1>1, ShownWhenCurrentNext, StoredFieldsNext
<1>3. Numbers
  BY TypeNumbers
<1>4. SpecsFall' /\ NothingBefore' /\ PodsInPlace' /\ NoOrphans' /\ CurrentEntries'
  BY <1>1, <1>2, <1>3 DEF ClusterInv, SpecsFall, Before, NothingBefore, PodsInPlace, NoOrphans,
     CurrentEntries, Numbers
<1>5. SizeCovers'
  BY <1>1, <1>2, <1>3 DEF ClusterInv, SpecsFall, SizeCovers, Before, Numbers
<1>6. EntriesGood'
  BY <1>1, <1>2 DEF ClusterInv, EntriesGood, EntriesStay
<1> QED
  BY <1>2, <1>4, <1>5, <1>6 DEF ClusterInv

\* The informer catches up while the pass goes on.
LEMMA SyncKeepsInv ==
    ASSUME TypeOK, ScaleDownInv, SyncServer
    PROVE  ScaleDownInv'
<1>1. /\ ~behind' /\ queued'
      /\ UNCHANGED <<serverVars, statusPods, scalingdownPods, statusReplicas, stsVars,
                     podVars, txnVars>>
  BY DEF SyncServer
<1>2. /\ ClusterInv'
      /\ Shown'.spec = spec /\ Shown'.generation = generation /\ Shown'.pods = statusPods
  BY <1>1, CaughtUpCluster DEF ScaleDownInv
<1>3. /\ Kept' = Kept /\ Drained' = Drained /\ sts' = sts /\ pods' = pods
      /\ prepared' = prepared /\ connected' = connected /\ statusPods' = statusPods
      /\ pc' = pc /\ pass' = pass /\ resourcesGeneration' = resourcesGeneration
  BY <1>1 DEF SyncServer, Kept, Drained, stsVars, podVars, txnVars
<1>4. Fetched' = Fetched /\ Listed' = Listed /\ ScaleDownPods' = ScaleDownPods
  BY <1>3, ScaleDownPodsStay DEF Fetched, Listed
<1>5. Fetched => /\ Before(pass.spec, pass.generation, spec, generation)
                 /\ EntriesStay(statusPods, pass.pods, pods)
  BY TypeNumbers DEF ScaleDownInv, ClusterInv, SpecsFall, EntriesGood, EntriesStay,
     PassInv, PassHolds, Before, Numbers
<1>6. PassHolds'
  BY <1>1, <1>2, <1>3, <1>4, <1>5 DEF ScaleDownInv, PassInv, PassHolds
<1>7. ListHolds'
  BY <1>3, <1>4 DEF ScaleDownInv, PassInv, ListHolds
<1>8. PassCurrent' /\ WorkersHold' /\ PassProgress'
  BY <1>3, <1>4 DEF ScaleDownInv, PassInv, PassCurrent, WorkersHold, PassProgress
<1>9. QuietOnlyWhenScaled'
  BY <1>1 DEF QuietOnlyWhenScaled
<1> QED
  BY <1>2, <1>6, <1>7, <1>8, <1>9 DEF ScaleDownInv, PassInv

\* The operator ends: the pass is forgotten, what is stored is not.
LEMMA CrashKeepsInv ==
    ASSUME TypeOK, ScaleDownInv, Crash
    PROVE  ScaleDownInv'
<1>1. /\ ~behind' /\ Return(TRUE)
      /\ UNCHANGED <<serverVars, statusPods, scalingdownPods, statusReplicas, stsVars,
                     podVars, txnVars>>
  BY DEF Crash
<1>2. ClusterInv'
  BY <1>1, CaughtUpCluster DEF ScaleDownInv
<1>3. PassInv' /\ QuietOnlyWhenScaled'
  BY <1>1, NoPassInv DEF Return, QuietOnlyWhenScaled
<1> QED
  BY <1>2, <1>3 DEF ScaleDownInv

-----------------------------------------------------------------------------
(* The steps of a pass that read.                                          *)

\* The pass takes what the informer shows.
LEMMA FetchKeepsInv ==
    ASSUME TypeOK, ScaleDownInv, FetchWildFlyServer
    PROVE  ScaleDownInv'
<1>1. UNCHANGED <<serverVars, statusVars, stsVars, podVars, txnVars, resourcesGeneration>>
  BY DEF FetchWildFlyServer
<1>2. Thins
  BY <1>1, StillThins DEF ScaleDownInv, stsVars
<1>3. ClusterInv'
  BY <1>1, <1>2, ThinsKeepsCluster DEF ScaleDownInv
<1>4. CASE UNCHANGED passVars
  <2>1. PassStays
    BY <1>1, <1>4, EventKeepsPass DEF passVars
  <2> QED
    BY <1>1, <1>2, <1>3, <2>1, ThinsKeepsPass, ThinsKeepsQuiet DEF ScaleDownInv, stsVars
<1>5. CASE /\ queued' = FALSE
           /\ pass' = [NoPass EXCEPT !.spec = Shown.spec, !.generation = Shown.generation,
                                     !.pods = Shown.pods, !.scaling = Shown.scaling,
                                     !.replicas = Shown.replicas, !.current = ~behind]
           /\ pc' = "getStatefulSet"
  <2>1. /\ pass'.spec = Shown.spec /\ pass'.generation = Shown.generation
        /\ pass'.pods = Shown.pods /\ pass'.scaling = Shown.scaling
        /\ pass'.setup = {} /\ pass'.check = {}
    BY <1>5 DEF NoPass
  <2>2. /\ Kept' = Kept /\ Drained' = Drained /\ Shown' = Shown /\ sts' = sts /\ pods' = pods
        /\ generation' = generation /\ behind' = behind /\ statusPods' = statusPods
    BY <1>1, ShownStays DEF Kept, Drained, serverVars, statusVars, stsVars, podVars, txnVars
  <2>3. Fetched' /\ ~Listed' /\ pc' = "getStatefulSet"
    BY <1>5 DEF Fetched, Listed
  <2>4. ~behind => Shown.generation = generation /\ Shown.pods = statusPods
    BY ShownWhenCurrent, StoredFields
  <2>5. Numbers
    BY TypeNumbers
  <2>6. Before(Shown.spec, Shown.generation, Shown.spec, Shown.generation)
    BY <2>5 DEF Before, Numbers
  <2>7. EntriesStay(Shown.pods, Shown.pods, pods)
    BY DEF EntriesStay
  <2>8. PassHolds'
    BY <2>1, <2>2, <2>3, <2>4, <2>6, <2>7
       DEF ScaleDownInv, ClusterInv, SpecsFall, SizeCovers, NothingBefore, EntriesGood, PassHolds
  <2>9. PassCurrent'
    BY <2>1, <2>2, <2>3, <2>4 DEF ScaleDownInv, ClusterInv, CurrentEntries, PassCurrent
  <2>10. ListHolds' /\ WorkersHold' /\ PassProgress' /\ QuietOnlyWhenScaled'
    BY <2>1, <2>3 DEF ListHolds, WorkersHold, PassProgress, QuietOnlyWhenScaled
  <2> QED
    BY <1>3, <2>8, <2>9, <2>10 DEF ScaleDownInv, PassInv
<1> QED
  BY <1>4, <1>5 DEF FetchWildFlyServer, Goto

\* The StatefulSet is created with the size of a spec that the user has written.
LEMMA CreateKeepsInv ==
    ASSUME TypeOK, ScaleDownInv, pc = "getStatefulSet", ~sts.exists,
           sts' = NewStatefulSet(pass.spec, pass.generation, DesiredReplicaSizeForNewStatefulSet),
           UNCHANGED <<serverVars, statusVars, podVars, txnVars>>
    PROVE  /\ ClusterInv'
           /\ sts'.exists /\ sts'.replicas = pass.spec.replicas
<1> USE DEF ScaleDownInv
<1>1. Fetched
  BY DEF Fetched
<1>2. Numbers
  BY TypeNumbers
<1>3. pass.scaling = 0
  BY <1>1 DEF PassInv, PassHolds
<1>4. /\ sts'.exists /\ sts'.replicas = pass.spec.replicas /\ sts'.generation = pass.generation
      /\ sts'.volume = InitialSpec.volume /\ sts'.image = InitialSpec.image
  BY <1>1, <1>2, <1>3
     DEF NewStatefulSet, DesiredReplicaSizeForNewStatefulSet, PassInv, PassHolds, UsersSpec, Numbers
<1>5. /\ Drained' = Drained /\ Shown' = Shown /\ pods' = pods /\ terminating' = terminating
      /\ generation' = generation /\ behind' = behind /\ spec' = spec
      /\ statusPods' = statusPods /\ image' = image /\ prepared' = prepared
      /\ indoubt' = indoubt /\ heuristics' = heuristics
  BY ShownStays DEF Drained, serverVars, statusVars, podVars, txnVars
<1>6. /\ pods = {} /\ terminating = {} /\ indoubt = {} /\ heuristics = {}
      /\ Empty(statusPods) /\ Empty(Shown.pods)
  BY DEF ClusterInv, NothingBefore, TypeOK
<1>7. SpecsFall' /\ NothingBefore' /\ PodsInPlace' /\ NoOrphans'
  BY <1>4, <1>5, <1>6 DEF ClusterInv, SpecsFall, NothingBefore, PodsInPlace, NoOrphans
<1>8. SizeCovers'
  BY <1>1, <1>2, <1>4, <1>5, <1>6
     DEF SizeCovers, PassInv, PassHolds, UsersSpec, Before, Numbers
<1>9. EntriesGood'
  BY <1>5, <1>6 DEF ClusterInv, EntriesGood, EntriesComplete
<1>10. CurrentEntries'
  BY <1>5, <1>6 DEF ClusterInv, CurrentEntries, CutAreClean, Empty
<1> QED
  BY <1>4, <1>7, <1>8, <1>9, <1>10 DEF ClusterInv

\* GetOrCreateNewStatefulSet keeps the invariant.
LEMMA GetKeepsInv ==
    ASSUME TypeOK, ScaleDownInv, GetOrCreateNewStatefulSet
    PROVE  ScaleDownInv'
<1> USE DEF ScaleDownInv
<1>1. /\ UNCHANGED <<serverVars, statusVars, podVars, txnVars, resourcesGeneration>>
      /\ pc = "getStatefulSet"
  BY DEF GetOrCreateNewStatefulSet
<1>2. sts' = sts => Thins
  BY <1>1, StillThins
<1>3. CASE Return(TRUE) /\ UNCHANGED stsVars
  BY <1>1, <1>2, <1>3, ReturnKeepsInv DEF stsVars
<1>4. CASE /\ ~sts.exists /\ Return(TRUE)
           /\ sts' = NewStatefulSet(pass.spec, pass.generation,
                                    DesiredReplicaSizeForNewStatefulSet)
  <2>1. ClusterInv'
    BY <1>1, <1>4, CreateKeepsInv
  <2>2. PassInv' /\ QuietOnlyWhenScaled'
    BY <1>4, NoPassInv DEF Return, QuietOnlyWhenScaled
  <2> QED
    BY <2>1, <2>2
<1>5. CASE /\ pass' = [pass EXCEPT !.observed = stsStatus, !.fresh = TRUE]
           /\ pc' = "listPods" /\ UNCHANGED <<stsVars, queued>>
  <2>1. /\ pass'.spec = pass.spec /\ pass'.generation = pass.generation
        /\ pass'.pods = pass.pods /\ pass'.scaling = pass.scaling
        /\ pass'.setup = pass.setup /\ pass'.check = pass.check
    BY <1>5 DEF TypeOK, PassType
  <2>2. Thins /\ HeldStays /\ sts' = sts /\ statusPods' = statusPods
    BY <1>1, <1>2, <1>5, <2>1 DEF HeldStays, stsVars, statusVars
  <2>3. ClusterInv'
    BY <1>1, <2>2, ThinsKeepsCluster
  <2>4. PassHolds' /\ PassCurrent'
    BY <1>1, <2>2, ThinsKeepsHeld, HeldKeepsCurrent DEF PassInv
  <2>5. ListHolds' /\ WorkersHold' /\ PassProgress' /\ QuietOnlyWhenScaled'
    BY <1>1, <1>5, <2>1
       DEF ListHolds, Listed, PassInv, WorkersHold, PassProgress, QuietOnlyWhenScaled
  <2> QED
    BY <2>3, <2>4, <2>5 DEF PassInv
<1> QED
  BY <1>3, <1>4, <1>5 DEF GetOrCreateNewStatefulSet, Goto

\* cleanUpPodStatus writes the entries that the pass holds, but for those of pods that
\* are gone: they are as true and as complete.
LEMMA CleanUpKeepsInv ==
    ASSUME TypeOK, ScaleDownInv, sts.exists, pc = "listPods", RemovedEntries # {},
           statusPods' = [p \in Ordinals |->
                             IF p \in RemovedEntries THEN NoEntry ELSE pass.pods[p]],
           Written, Return(TRUE),
           UNCHANGED <<serverVars, stsVars, podVars, txnVars>>
    PROVE  ScaleDownInv'
<1> USE DEF ScaleDownInv
<1>1. Fetched /\ Numbers
  BY TypeNumbers DEF Fetched
<1>2. pods \subseteq Ordinals
  BY DEF TypeOK
<1>3. ~Empty(pass.pods)
  BY DEF Empty, RemovedEntries, NoEntry
<1>4. Kept \subseteq pods /\ \A p \in pods : pass.pods[p] # NoEntry
  BY <1>1, <1>3 DEF PassInv, PassHolds, EntriesComplete
<1>5. \A p \in pods : statusPods'[p] # NoEntry
  BY <1>2, <1>4 DEF RemovedEntries
<1>6. EntriesTrue(statusPods', pass.spec.replicas, Drained)
  BY <1>1 DEF PassInv, PassHolds, EntriesTrue, NoEntry
<1>7. spec.replicas <= pass.spec.replicas /\ pass.spec.replicas \in Nat
  BY <1>1 DEF PassInv, PassHolds, ClusterInv, SpecsFall, Before, Numbers
<1>8. ~LaggingCache => CutAreClean(statusPods', Kept)
  BY <1>1 DEF PassInv, PassCurrent, CutAreClean
<1>9. /\ terminating' \cap Kept = {}
      /\ UNCHANGED <<sts, pods, connected, prepared, image>>
  BY DEF ClusterInv, PodsInPlace, stsVars, podVars
<1>10. ClusterInv'
  BY <1>4, <1>5, <1>6, <1>7, <1>8, <1>9, WriteKeepsCluster
<1>11. PassInv' /\ QuietOnlyWhenScaled'
  BY NoPassInv DEF Return, QuietOnlyWhenScaled
<1> QED
  BY <1>10, <1>11

\* A pass goes on from the pod list only when all pods that are kept are there.
LEMMA ListKeepsInv ==
    ASSUME TypeOK, ListCoversStatefulSet, ScaleDownInv, ListPods
    PROVE  ScaleDownInv'
<1> USE DEF ScaleDownInv
<1>1. /\ UNCHANGED <<serverVars, stsVars, podVars, txnVars, resourcesGeneration>>
      /\ pc = "listPods" /\ sts.exists /\ Fetched
  BY DEF ListPods, ListCoversStatefulSet, Fetched
<1>2. Thins
  BY <1>1, StillThins DEF stsVars
<1>3. CASE Return(TRUE) /\ UNCHANGED statusVars
  BY <1>1, <1>2, <1>3, ReturnKeepsInv
<1>4. CASE /\ RemovedEntries # {}
           /\ statusPods' = [p \in Ordinals |->
                                IF p \in RemovedEntries THEN NoEntry ELSE pass.pods[p]]
           /\ Written /\ Return(TRUE)
  BY <1>1, <1>4, CleanUpKeepsInv
<1>5. CASE /\ ~PodsOutOfSync
           /\ pass' = [pass EXCEPT !.list = pods, !.connected = connected,
                                   !.running = running, !.prepared = prepared]
           /\ pc' = "setLabel" /\ UNCHANGED <<statusVars, queued>>
  <2>1. /\ pass'.spec = pass.spec /\ pass'.generation = pass.generation
        /\ pass'.pods = pass.pods /\ pass'.scaling = pass.scaling
        /\ pass'.setup = pass.setup /\ pass'.check = pass.check
        /\ pass'.list = pods /\ pass'.connected = connected /\ pass'.prepared = prepared
    BY <1>5 DEF TypeOK, PassType
  <2>2. HeldStays /\ sts' = sts /\ statusPods' = statusPods
    BY <1>1, <1>5, <2>1 DEF HeldStays, stsVars, statusVars
  <2>3. ClusterInv'
    BY <1>1, <1>2, <1>5, ThinsKeepsCluster
  <2>4. PassHolds' /\ PassCurrent'
    BY <1>1, <1>2, <1>5, <2>2, ThinsKeepsHeld, HeldKeepsCurrent DEF PassInv
  <2>5. /\ pods' = pods /\ prepared' = prepared /\ connected' = connected /\ Kept' = Kept
    BY <1>1 DEF podVars, stsVars, Kept
  <2>6. sts.replicas \in Nat /\ pods \subseteq Ordinals /\ Cardinality(pods) \in Nat
    BY TypeNumbers, PodsBound, MaxPodsAssumption DEF Numbers, TypeOK
  <2>7. /\ sts.replicas <= Cardinality(pods)
        /\ sts.replicas = pass.spec.replicas => Cardinality(pods) = sts.replicas
    BY <1>5, <2>6 DEF PodsOutOfSync
  <2>8. Kept \subseteq pods /\ (sts.replicas = pass.spec.replicas => pods = Kept)
    BY <2>6, <2>7, EnoughPods DEF ClusterInv, PodsInPlace, Kept
  <2>9. /\ Empty(pass.pods) => pods \subseteq Kept
        /\ ~Empty(pass.pods) => \A p \in pods : pass.pods[p] # NoEntry
        /\ sts.generation = 1 => pods \subseteq Kept
    BY <1>1 DEF PassInv, PassHolds, EntriesComplete, ClusterInv, SizeCovers
  <2>10. ListHolds'
    BY <1>5, <2>1, <2>2, <2>5, <2>8, <2>9 DEF ListHolds
  <2>11. WorkersHold' /\ PassProgress' /\ QuietOnlyWhenScaled'
    BY <1>1, <1>5, <2>1 DEF PassInv, WorkersHold, PassProgress, QuietOnlyWhenScaled
  <2> QED
    BY <2>3, <2>4, <2>10, <2>11 DEF PassInv
<1> QED
  BY <1>3, <1>4, <1>5 DEF ListPods, Goto

-----------------------------------------------------------------------------
(* The steps of a pass that recover transactions.                          *)

\* The pass goes on, holding the same, in a cluster that thins.
LEMMA PassGoesOn ==
    ASSUME TypeOK, ScaleDownInv, Thins, UNCHANGED <<serverVars, statusVars>>,
           pc' # "idle", HeldStays, ListStays,
           pc = "workers" /\ pass.update => pc' = "workers" /\ pass'.update
    PROVE  ClusterInv' /\ PassHolds' /\ PassCurrent' /\ ListHolds' /\ QuietOnlyWhenScaled'
<1>1. ClusterInv'
  BY ThinsKeepsCluster DEF ScaleDownInv
<1>2. PassHolds'
  BY ThinsKeepsHeld DEF ScaleDownInv, PassInv
<1>3. PassCurrent'
  BY HeldKeepsCurrent DEF ScaleDownInv, PassInv, Thins, statusVars
<1>4. ListHolds'
  BY ThinsKeepsList DEF ScaleDownInv, PassInv
<1> QED
  BY <1>1, <1>2, <1>3, <1>4 DEF QuietOnlyWhenScaled

\* Pods are taken off the load balancer; the pass goes on only when those that go are off.
LEMMA SetLabelKeepsInv ==
    ASSUME TypeOK, ScaleDownInv, SetLabelAsDisabled
    PROVE  ScaleDownInv'
<1>1. /\ UNCHANGED <<serverVars, statusVars, stsVars, pods, terminating, running,
                     prepared, image, txnVars, resourcesGeneration>>
      /\ pc = "setLabel" /\ Listed
  BY DEF SetLabelAsDisabled, Listed
<1>2. ASSUME connected' \subseteq connected PROVE Thins
  <2>1. Drained \subseteq Drained'
    BY <1>1, <1>2 DEF Drained, txnVars
  <2> QED
    BY <1>1, <1>2, <2>1
       DEF Thins, stsVars, txnVars, ScaleDownInv, ClusterInv, PodsInPlace, NoOrphans
<1>3. CASE Return(TRUE) /\ \E off : connected' = connected \ off
  BY <1>1, <1>2, <1>3, ReturnKeepsInv
<1>4. CASE /\ LabelsToDisable = {} /\ pass' = [pass EXCEPT !.connected = {}]
           /\ pc' = "processRecovery" /\ UNCHANGED <<queued, connected>>
  <2>1. /\ pass'.spec = pass.spec /\ pass'.generation = pass.generation
        /\ pass'.pods = pass.pods /\ pass'.scaling = pass.scaling
        /\ pass'.list = pass.list /\ pass'.prepared = pass.prepared
        /\ pass'.setup = pass.setup /\ pass'.check = pass.check
    BY <1>4 DEF TypeOK, PassType
  <2>2. Thins
    BY <1>2, <1>4
  <2>3. ScaleDownPods \cap connected' = {}
    BY <1>1, <1>4 DEF LabelsToDisable, ScaleDownInv, PassInv, ListHolds
  <2>4. HeldStays /\ ListStays
    BY <1>1, <1>4, <2>1, <2>3 DEF HeldStays, ListStays
  <2>5. ClusterInv' /\ PassHolds' /\ PassCurrent' /\ ListHolds' /\ QuietOnlyWhenScaled'
    BY <1>1, <1>4, <2>2, <2>4, PassGoesOn
  <2>6. WorkersHold' /\ PassProgress'
    BY <1>1, <1>4, <2>1 DEF ScaleDownInv, PassInv, WorkersHold, PassProgress
  <2> QED
    BY <2>5, <2>6 DEF ScaleDownInv, PassInv
<1> QED
  BY <1>3, <1>4 DEF SetLabelAsDisabled, Goto

\* The pass goes on to the StatefulSet without any recovery.
LEMMA SkipKeepsInv ==
    ASSUME TypeOK, ScaleDownInv, pc = "processRecovery", NEW b, SkipProcessing(b),
           UNCHANGED <<serverVars, stsVars, podVars, txnVars, resourcesGeneration>>
    PROVE  ScaleDownInv'
<1>1. /\ pass' = [pass EXCEPT !.again = b, !.prepared = {}]
      /\ pc' = "checkStatefulSet" /\ UNCHANGED <<queued, statusVars>>
  BY DEF SkipProcessing, Goto
<1>2. /\ pass'.spec = pass.spec /\ pass'.generation = pass.generation
      /\ pass'.pods = pass.pods /\ pass'.scaling = pass.scaling
      /\ pass'.list = pass.list /\ pass'.prepared = {}
      /\ pass'.setup = pass.setup /\ pass'.check = pass.check
  BY <1>1 DEF TypeOK, PassType
<1>3. Thins
  BY StillThins DEF ScaleDownInv, stsVars
<1>4. HeldStays /\ ListStays
  BY <1>1, <1>2 DEF HeldStays, ListStays, Listed
<1>5. ClusterInv' /\ PassHolds' /\ PassCurrent' /\ ListHolds' /\ QuietOnlyWhenScaled'
  BY <1>1, <1>3, <1>4, PassGoesOn
<1>6. WorkersHold' /\ PassProgress'
  BY <1>1, <1>2 DEF ScaleDownInv, PassInv, WorkersHold, PassProgress
<1> QED
  BY <1>5, <1>6 DEF ScaleDownInv, PassInv

\* What holds of a pass that goes on while it changes its entries: they are still good ones.
LEMMA NewEntriesKeepPass ==
    ASSUME TypeOK, ScaleDownInv, Listed, pc' = "workers" \/ pc' = "checkStatefulSet",
           UNCHANGED <<serverVars, sts, pods, connected, prepared, txnVars>>,
           pass'.spec = pass.spec, pass'.generation = pass.generation,
           pass'.list = pass.list, pass'.prepared \subseteq pass.prepared,
           Shown' = Shown \/ (Shown'.spec = spec /\ Shown'.generation = generation
                                /\ Shown'.pods = pass'.pods),
           ~Empty(pass.pods), EntriesTrue(pass'.pods, pass.spec.replicas, Drained),
           \A p \in Ordinals : pass.pods[p] # NoEntry => pass'.pods[p] # NoEntry,
           ~queued' /\ ~behind' => pass.generation = generation
    PROVE  PassHolds' /\ ListHolds' /\ ~Empty(pass'.pods)
<1> USE DEF ScaleDownInv
<1>1. /\ Kept' = Kept /\ Drained' = Drained /\ sts' = sts /\ pods' = pods
      /\ generation' = generation /\ Fetched' /\ Listed' /\ Fetched
      /\ connected' = connected /\ prepared' = prepared
  BY DEF Kept, Drained, Fetched, Listed, serverVars, txnVars
<1>2. Numbers /\ pods \subseteq Ordinals /\ pass.list \subseteq Ordinals
  BY TypeNumbers, PassFields DEF TypeOK
<1>3. sts.exists
  BY <1>1 DEF PassInv, PassHolds
<1>4. ~Empty(pass'.pods)
  BY DEF Empty
<1>5. Kept \subseteq pods /\ pods \subseteq pass.list
  BY DEF PassInv, ListHolds
<1>6. \A p \in pass.list : pass'.pods[p] # NoEntry
  BY <1>2 DEF PassInv, ListHolds
<1>7. EntriesComplete(pass'.pods, pods, Kept)
  BY <1>4, <1>5, <1>6 DEF EntriesComplete
<1>8. EntriesStay(Shown'.pods, pass'.pods, pods)
  BY <1>1, <1>4 DEF PassInv, PassHolds, EntriesStay
<1>9. Before(pass.spec, pass.generation, Shown'.spec, Shown'.generation)
  BY <1>1, <1>2 DEF PassInv, PassHolds, ClusterInv, SpecsFall, Before, Numbers
<1>10. PassHolds'
  BY <1>1, <1>3, <1>7, <1>8, <1>9 DEF PassInv, PassHolds
<1>11. ListHolds'
  <2>1. /\ pass'.prepared \cap pods \subseteq prepared
        /\ sts.generation = 1 => pass.list \subseteq Kept
        /\ sts.replicas = pass.spec.replicas => pass.list \subseteq Kept
    BY DEF PassInv, ListHolds
  <2> QED
    BY <1>1, <1>4, <1>5, <1>6, <2>1 DEF ListHolds
<1> QED
  BY <1>4, <1>10, <1>11

\* An accepted write of entries that the pass goes on to hold, or held.
LEMMA WriteStatusCluster ==
    ASSUME TypeOK, ScaleDownInv, Listed, sts.exists, ~Empty(pass.pods),
           NEW e, NEW s, NEW r, NEW b, WriteStatus(e, s, r, b),
           UNCHANGED <<serverVars, stsVars, podVars, txnVars>>,
           EntriesTrue(e, pass.spec.replicas, Drained),
           \A p \in Ordinals : pass.pods[p] # NoEntry => e[p] # NoEntry,
           ~LaggingCache => CutAreClean(e, Kept)
    PROVE  /\ ClusterInv'
           /\ \/ Shown' = Shown
              \/ Shown'.spec = spec /\ Shown'.generation = generation /\ Shown'.pods = e
           /\ pass.generation = generation /\ statusPods' = e
<1> USE DEF ScaleDownInv
<1>1. statusPods' = e /\ Written /\ pass.generation = generation
  BY DEF WriteStatus, StatusIsCurrent
<1>2. Numbers /\ pods \subseteq Ordinals /\ pass.list \subseteq Ordinals /\ Fetched
  BY TypeNumbers, PassFields DEF TypeOK, Listed, Fetched
<1>3. spec.replicas <= pass.spec.replicas /\ pass.spec.replicas \in Nat
  BY <1>2 DEF PassInv, PassHolds, ClusterInv, SpecsFall, Before, Numbers
<1>4. Kept \subseteq pods /\ \A p \in pods : statusPods'[p] # NoEntry
  BY <1>1, <1>2 DEF PassInv, ListHolds
<1>5. /\ terminating' \cap Kept = {}
      /\ UNCHANGED <<sts, pods, connected, prepared, image>>
  BY DEF ClusterInv, PodsInPlace, stsVars, podVars
<1>6. ClusterInv'
  BY <1>1, <1>3, <1>4, <1>5, WriteKeepsCluster
<1>7. \/ Shown' = Shown
      \/ Shown'.spec = spec /\ Shown'.generation = generation /\ Shown'.pods = e
  BY <1>1, ShownWritten, StoredFieldsNext DEF serverVars
<1> QED
  BY <1>1, <1>6, <1>7

\* The entries with which the goroutines start: INVESTIGATION is said of pods that go.
LEMMA InvestigatedGood ==
    ASSUME TypeOK, ScaleDownInv, pc = "processRecovery", sts.exists
    PROVE  /\ EntriesTrue(InvestigatedEntries, pass.spec.replicas, Drained)
           /\ \A p \in Ordinals : pass.pods[p] # NoEntry => InvestigatedEntries[p] # NoEntry
           /\ ~LaggingCache => CutAreClean(InvestigatedEntries, Kept)
           /\ \A p \in PodsToRecover : /\ p \in Ordinals /\ p \in pass.list
                                       /\ p >= pass.spec.replicas /\ p \notin connected
<1> USE DEF ScaleDownInv
<1>1. Fetched /\ Listed
  BY DEF Fetched, Listed
<1>2. Kept \subseteq pass.list /\ pass.spec.replicas <= sts.replicas
  BY <1>1 DEF PassInv, PassHolds, ListHolds
<1>3. \A p \in ScaleDownPods : p \in pass.list /\ p \in Ordinals /\ p >= pass.spec.replicas
  BY <1>2, TailIsAbove
<1>4. ScaleDownPods \cap connected = {}
  BY <1>1 DEF PassInv, ListHolds
<1>5. \A p \in PodsToRecover : /\ p \in Ordinals /\ p \in pass.list
                               /\ p >= pass.spec.replicas /\ p \notin connected
  BY <1>3, <1>4 DEF PodsToRecover
<1>6. \A p \in Ordinals : \/ InvestigatedEntries[p] = pass.pods[p]
                          \/ /\ p \in PodsToRecover /\ pass.pods[p] = "ACTIVE"
                             /\ InvestigatedEntries[p] = "INVESTIGATION"
  BY DEF InvestigatedEntries
<1>7. EntriesTrue(pass.pods, pass.spec.replicas, Drained)
  BY <1>1 DEF PassInv, PassHolds
<1>8. EntriesTrue(InvestigatedEntries, pass.spec.replicas, Drained)
  BY <1>5, <1>6, <1>7 DEF EntriesTrue, NoEntry
<1>9. \A p \in Ordinals : pass.pods[p] # NoEntry => InvestigatedEntries[p] # NoEntry
  BY <1>6 DEF NoEntry
<1>10. ~LaggingCache => CutAreClean(InvestigatedEntries, Kept)
  <2> SUFFICES ASSUME ~LaggingCache, NEW p \in Ordinals \ Kept
               PROVE  InvestigatedEntries[p] \in {"CLEAN", NoEntry}
    BY DEF CutAreClean
  <2>1. pass.pods[p] \in {"CLEAN", NoEntry}
    BY <1>1 DEF PassInv, PassCurrent, CutAreClean
  <2> QED
    BY <1>6, <2>1 DEF NoEntry
<1> QED
  BY <1>5, <1>8, <1>9, <1>10

\* The goroutines start on pods that go, are off the load balancer and not yet CLEAN.
LEMMA StartKeepsInv ==
    ASSUME TypeOK, ScaleDownInv, sts.exists, pc = "processRecovery", StartRecovery,
           UNCHANGED <<serverVars, stsVars, podVars, txnVars, resourcesGeneration>>
    PROVE  ScaleDownInv'
<1> USE DEF ScaleDownInv
<1> DEFINE started == [pass EXCEPT !.pods = InvestigatedEntries,
                                   !.setup = {p \in PodsToRecover : pass.pods[p] # "CLEAN"}]
<1>1. Thins
  BY StillThins DEF stsVars
<1>2. CASE Return(TRUE) /\ UNCHANGED statusVars
  BY <1>1, <1>2, ReturnKeepsInv
<1>3. CASE /\ PodsToRecover # {} /\ \A p \in PodsToRecover : pass.pods[p] # NoEntry
           /\ pc' = "workers"
           /\ pass' = started \/ pass' = [started EXCEPT !.scaling = NumberOfPodsToScaleDown]
           /\ \/ UNCHANGED <<statusVars, queued>> /\ InvestigatedEntries = pass.pods
              \/ WriteStatus(InvestigatedEntries, NumberOfPodsToScaleDown, statusReplicas, FALSE)
  <2>1. /\ pass'.spec = pass.spec /\ pass'.generation = pass.generation
        /\ pass'.list = pass.list /\ pass'.prepared = pass.prepared
        /\ pass'.check = pass.check /\ pass'.pods = InvestigatedEntries
        /\ pass'.setup = {p \in PodsToRecover : pass.pods[p] # "CLEAN"}
    BY <1>3 DEF TypeOK, PassType
  <2>2. /\ EntriesTrue(InvestigatedEntries, pass.spec.replicas, Drained)
        /\ \A p \in Ordinals : pass.pods[p] # NoEntry => InvestigatedEntries[p] # NoEntry
        /\ ~LaggingCache => CutAreClean(InvestigatedEntries, Kept)
        /\ \A p \in PodsToRecover : /\ p \in Ordinals /\ p \in pass.list
                                    /\ p >= pass.spec.replicas /\ p \notin connected
    BY InvestigatedGood
  <2>3. ~Empty(pass.pods)
    BY <1>3, <2>2 DEF Empty
  <2>4. Listed /\ Fetched
    BY DEF Listed, Fetched
  <2>5. /\ ClusterInv'
        /\ \/ Shown' = Shown
           \/ Shown'.spec = spec /\ Shown'.generation = generation
                /\ Shown'.pods = InvestigatedEntries
        /\ statusPods' = InvestigatedEntries \/ UNCHANGED statusVars
        /\ ~queued' /\ ~behind' => pass.generation = generation
    <3>1. CASE WriteStatus(InvestigatedEntries, NumberOfPodsToScaleDown, statusReplicas, FALSE)
      BY <2>2, <2>3, <2>4, <3>1, WriteStatusCluster
    <3>2. CASE UNCHANGED <<statusVars, queued>>
      <4>1. ClusterInv' /\ Shown' = Shown
        BY <1>1, <3>2, ThinsKeepsCluster, ShownStays
      <4> QED
        BY <2>4, <3>2, <4>1 DEF PassInv, PassHolds, statusVars
    <3> QED
      BY <1>3, <3>1, <3>2
  <2>6. PassHolds' /\ ListHolds' /\ ~Empty(pass'.pods)
    <3>1. UNCHANGED <<sts, pods, connected, prepared>>
      BY DEF stsVars, podVars
    <3> QED
      BY <1>3, <2>1, <2>2, <2>3, <2>4, <2>5, <3>1, NewEntriesKeepPass
  <2>7. PassCurrent'
    <3>1. Kept' = Kept
      BY DEF Kept, stsVars
    <3>2. statusPods' = InvestigatedEntries \/ (~LaggingCache => statusPods' = pass.pods)
      BY <1>3, <2>4 DEF WriteStatus, PassInv, PassCurrent, statusVars
    <3>3. statusPods' = InvestigatedEntries \/ InvestigatedEntries = pass.pods
      BY <1>3 DEF WriteStatus
    <3> QED
      BY <2>1, <2>2, <3>1, <3>2, <3>3 DEF PassCurrent
  <2>8. WorkersHold'
    <3>1. pass'.check = {} /\ connected' = connected /\ pods' = pods
      BY <2>1 DEF PassInv, WorkersHold, podVars
    <3>2. \A p \in pass'.setup : /\ p >= pass.spec.replicas /\ p \notin connected
                                 /\ InvestigatedEntries[p] \notin {"CLEAN", NoEntry}
      <4>1. \A p \in Ordinals : InvestigatedEntries[p] \in {pass.pods[p], "INVESTIGATION"}
        BY DEF InvestigatedEntries
      <4> QED
        BY <1>3, <2>1, <2>2, <4>1 DEF NoEntry
    <3> QED
      BY <1>3, <2>1, <2>6, <3>1, <3>2 DEF WorkersHold
  <2>9. PassProgress' /\ QuietOnlyWhenScaled'
    BY <1>3 DEF PassProgress, QuietOnlyWhenScaled
  <2> QED
    BY <2>5, <2>6, <2>7, <2>8, <2>9 DEF PassInv
<1> QED
  <2> HIDE DEF started
  <2>1. \/ Return(TRUE) /\ UNCHANGED statusVars
        \/ /\ PodsToRecover # {} /\ \A p \in PodsToRecover : pass.pods[p] # NoEntry
           /\ pc' = "workers"
           /\ pass' = started \/ pass' = [started EXCEPT !.scaling = NumberOfPodsToScaleDown]
           /\ \/ UNCHANGED <<statusVars, queued>> /\ InvestigatedEntries = pass.pods
              \/ WriteStatus(InvestigatedEntries, NumberOfPodsToScaleDown, statusReplicas, FALSE)
    BY DEF StartRecovery, Goto, started
  <2> QED
    BY <1>2, <1>3, <2>1

\* processTransactionRecoveryScaleDown keeps the invariant; the user's spec has transactions
\* recovered, so no scale down is forced.
LEMMA ProcessKeepsInv ==
    ASSUME TypeOK, ListCoversStatefulSet, ScaleDownInv, ProcessTransactionRecoveryScaleDown
    PROVE  ScaleDownInv'
<1>1. /\ pc = "processRecovery" /\ sts.exists /\ Fetched
      /\ UNCHANGED <<serverVars, stsVars, podVars, txnVars, resourcesGeneration>>
  BY DEF ProcessTransactionRecoveryScaleDown, ListCoversStatefulSet, Fetched
<1>2. CASE NothingToRecover \/ RecoveryMustWait
  BY <1>1, <1>2, SkipKeepsInv DEF NothingToRecover, RecoveryMustWait
<1>3. ~SkipRecoveryAndForceScaleDown
  BY <1>1 DEF SkipRecoveryAndForceScaleDown, ScaleDownInv, PassInv, PassHolds, UsersSpec
<1>4. CASE StartRecovery
  BY <1>1, <1>4, StartKeepsInv
<1> QED
  BY <1>2, <1>3, <1>4 DEF ProcessTransactionRecoveryScaleDown

\* A goroutine prepares its pod, which then gets no transaction, or gives up.
LEMMA SetupKeepsInv ==
    ASSUME OnlyScalesDown, TypeOK, ScaleDownInv, NEW p \in Ordinals,
           SetupRecoveryPropertiesAndRestart(p)
    PROVE  ScaleDownInv'
<1> USE DEF ScaleDownInv
<1>1. /\ pc = "workers" /\ pc' = "workers" /\ Listed /\ p \in pass.setup
      /\ UNCHANGED <<serverVars, statusVars, stsVars, pods, connected, running, image, txnVars,
                     resourcesGeneration, pc, queued>>
  BY DEF SetupRecoveryPropertiesAndRestart, Listed
<1>2. ~Fail("restart")
  BY DEF OnlyScalesDown, PodsAreNotLost, Fail
<1>3. /\ terminating' = terminating
      /\ \/ prepared' = prepared /\ \E m : pass' = [pass EXCEPT !.setup = @ \ {p}, !.must = m]
         \/ /\ p \in running /\ prepared' = PreparedBy(p)
            /\ pass' = [pass EXCEPT !.setup = @ \ {p}, !.check = @ \cup {p}]
  BY <1>2 DEF SetupRecoveryPropertiesAndRestart, SetupEnds
<1>4. /\ pass'.spec = pass.spec /\ pass'.generation = pass.generation
      /\ pass'.pods = pass.pods /\ pass'.scaling = pass.scaling
      /\ pass'.list = pass.list /\ pass'.prepared = pass.prepared
      /\ pass'.connected = pass.connected /\ pass'.update = pass.update
      /\ pass'.setup = pass.setup \ {p}
      /\ \/ pass'.check = pass.check
         \/ pass'.check = pass.check \cup {p} /\ prepared' = PreparedBy(p)
  BY <1>3 DEF TypeOK, PassType
<1>5. prepared \subseteq prepared'
  BY <1>3 DEF PreparedBy
<1>6. Thins
  <2>1. Drained \subseteq Drained'
    BY <1>1, <1>5 DEF Drained, txnVars
  <2> QED
    BY <1>1, <1>3, <1>5, <2>1 DEF Thins, stsVars, txnVars, ClusterInv, PodsInPlace, NoOrphans
<1>7. HeldStays /\ ListStays
  BY <1>1, <1>4 DEF HeldStays, ListStays
<1>8. ClusterInv' /\ PassHolds' /\ PassCurrent' /\ ListHolds' /\ QuietOnlyWhenScaled'
  BY <1>1, <1>4, <1>6, <1>7, PassGoesOn
<1>9. WorkersHold'
  <2>1. p \in pods => p \in PreparedBy(p)
    BY <1>1 DEF PassInv, ListHolds, PreparedBy
  <2>2. pass.check \cap pods \subseteq prepared
    BY <1>1 DEF PassInv, WorkersHold
  <2>3. pass'.check \cap pods' \subseteq prepared'
    BY <1>1, <1>4, <1>5, <2>1, <2>2
  <2>4. /\ pass'.setup \cup pass'.check \subseteq pass.setup \cup pass.check
        /\ pass'.setup \cap pass'.check = {}
    BY <1>1, <1>4 DEF PassInv, WorkersHold
  <2> QED
    BY <1>1, <1>4, <2>3, <2>4 DEF PassInv, WorkersHold
<1>10. PassProgress'
  BY <1>1 DEF PassProgress
<1> QED
  BY <1>8, <1>9, <1>10 DEF PassInv

\* A goroutine says CLEAN only of a pod that is prepared, off the load balancer and has an
\* empty log: it is drained.
LEMMA VerdictGood ==
    ASSUME TypeOK, ScaleDownInv, NEW p \in Ordinals, RecoverPod(p), p \in running,
           NEW e, e = [pass.pods EXCEPT ![p] = CheckRecovery(p)]
    PROVE  /\ EntriesTrue(e, pass.spec.replicas, Drained)
           /\ \A q \in Ordinals : pass.pods[q] # NoEntry => e[q] # NoEntry
           /\ ~LaggingCache => CutAreClean(e, Kept)
           /\ \A q \in Ordinals : q # p => e[q] = pass.pods[q]
<1> USE DEF ScaleDownInv
<1>1. pc = "workers" /\ p \in pass.check /\ Fetched
  BY DEF RecoverPod, Fetched
<1>2. p \in pods /\ p >= pass.spec.replicas /\ p \notin connected /\ p \in prepared
  BY <1>1 DEF PassInv, WorkersHold, TypeOK
<1>3. pass.pods[p] \notin {"CLEAN", NoEntry}
  BY <1>1 DEF PassInv, WorkersHold
<1>4. e[p] = CheckRecovery(p) /\ \A q \in Ordinals : q # p => e[q] = pass.pods[q]
  BY PassFields
<1>5. CheckRecovery(p) # NoEntry /\ (CheckRecovery(p) = "CLEAN" => p \in Drained)
  BY <1>2 DEF CheckRecovery, Drained, NoEntry
<1>6. EntriesTrue(pass.pods, pass.spec.replicas, Drained)
  BY <1>1 DEF PassInv, PassHolds
<1>7. EntriesTrue(e, pass.spec.replicas, Drained)
  BY <1>2, <1>4, <1>5, <1>6 DEF EntriesTrue
<1>8. ~LaggingCache => CutAreClean(e, Kept)
  BY <1>1, <1>3, <1>4 DEF PassInv, PassCurrent, CutAreClean
<1> QED
  BY <1>4, <1>5, <1>7, <1>8

\* A goroutine reports on its pod.
LEMMA RecoverKeepsInv ==
    ASSUME TypeOK, ScaleDownInv, NEW p \in Ordinals, RecoverPod(p)
    PROVE  ScaleDownInv'
<1> USE DEF ScaleDownInv
<1>1. /\ pc = "workers" /\ pc' = "workers" /\ Listed /\ Fetched /\ p \in pass.check
      /\ UNCHANGED <<serverVars, statusVars, stsVars, podVars, txnVars,
                     resourcesGeneration, pc, queued>>
  BY DEF RecoverPod, Listed, Fetched
<1>2. Thins
  BY <1>1, StillThins DEF stsVars
<1>3. CASE pass' = [pass EXCEPT !.check = @ \ {p}]
  <2>1. /\ pass'.spec = pass.spec /\ pass'.generation = pass.generation
        /\ pass'.pods = pass.pods /\ pass'.scaling = pass.scaling
        /\ pass'.list = pass.list /\ pass'.prepared = pass.prepared
        /\ pass'.connected = pass.connected /\ pass'.update = pass.update
        /\ pass'.setup = pass.setup /\ pass'.check = pass.check \ {p}
    BY <1>3 DEF TypeOK, PassType
  <2>2. HeldStays /\ ListStays
    BY <1>1, <2>1 DEF HeldStays, ListStays
  <2>3. ClusterInv' /\ PassHolds' /\ PassCurrent' /\ ListHolds' /\ QuietOnlyWhenScaled'
    BY <1>1, <1>2, <2>1, <2>2, PassGoesOn
  <2>4. WorkersHold' /\ PassProgress'
    BY <1>1, <2>1 DEF PassInv, WorkersHold, PassProgress, podVars
  <2> QED
    BY <2>3, <2>4 DEF PassInv
<1>4. CASE /\ p \in running
           /\ pass' = [pass EXCEPT !.check = @ \ {p},
                                   !.pods[p] = CheckRecovery(p),
                                   !.update = \/ @
                                              \/ CheckRecovery(p) = "PROCESSING"
                                              \/ CheckRecovery(p) # pass.pods[p]]
  <2> DEFINE e == [pass.pods EXCEPT ![p] = CheckRecovery(p)]
  <2>1. /\ pass'.spec = pass.spec /\ pass'.generation = pass.generation
        /\ pass'.pods = e /\ pass'.list = pass.list /\ pass'.prepared = pass.prepared
        /\ pass'.setup = pass.setup /\ pass'.check = pass.check \ {p}
        /\ pass'.update = (pass.update \/ CheckRecovery(p) = "PROCESSING"
                             \/ CheckRecovery(p) # pass.pods[p])
    BY <1>4 DEF TypeOK, PassType
  <2>2. e = pass.pods \/ pass'.update
    BY <2>1, PassFields
  <2> HIDE DEF e
  <2>3. /\ EntriesTrue(e, pass.spec.replicas, Drained)
        /\ \A q \in Ordinals : pass.pods[q] # NoEntry => e[q] # NoEntry
        /\ ~LaggingCache => CutAreClean(e, Kept)
        /\ \A q \in Ordinals : q # p => e[q] = pass.pods[q]
    BY <1>4, VerdictGood DEF e
  <2>4. /\ ClusterInv' /\ Shown' = Shown /\ Kept' = Kept
        /\ behind' = behind /\ statusPods' = statusPods
    BY <1>1, <1>2, ThinsKeepsCluster, ShownStays DEF Kept, stsVars, statusVars
  <2>5. ~Empty(pass.pods)
    BY <1>1 DEF PassInv, WorkersHold
  <2>6. PassHolds' /\ ListHolds' /\ ~Empty(pass'.pods)
    <3>1. UNCHANGED <<sts, pods, connected, prepared>>
      BY <1>1 DEF stsVars, podVars
    <3>2. ~queued' /\ ~behind' => pass.generation = generation
      BY <1>1, <2>4 DEF PassInv, PassHolds
    <3> QED
      BY <1>1, <2>1, <2>3, <2>4, <2>5, <3>1, <3>2, NewEntriesKeepPass
  <2>7. PassCurrent'
    <3>1. ~LaggingCache => e = statusPods' \/ pass'.update
      <4>1. ~LaggingCache => pass.pods = statusPods \/ pass.update
        BY <1>1 DEF PassInv, PassCurrent
      <4> QED
        BY <2>1, <2>2, <2>4, <4>1
    <3> QED
      BY <1>1, <2>1, <2>3, <2>4, <3>1 DEF PassCurrent
  <2>8. WorkersHold'
    <3>1. /\ p \notin pass'.setup \cup pass'.check
          /\ pass'.setup \cup pass'.check \subseteq pass.setup \cup pass.check
          /\ pass.setup \cup pass.check \subseteq Ordinals
      BY <1>1, <2>1, PassFields DEF PassInv, WorkersHold
    <3>2. \A q \in pass'.setup \cup pass'.check :
             /\ q >= pass.spec.replicas /\ q \notin connected
             /\ e[q] \notin {"CLEAN", NoEntry}
      BY <1>1, <2>3, <3>1 DEF PassInv, WorkersHold
    <3>3. /\ pass'.setup \cap pass'.check = {} /\ pass'.check \cap pods' \subseteq prepared'
          /\ connected' = connected
      BY <1>1, <2>1 DEF PassInv, WorkersHold, podVars
    <3> QED
      BY <1>1, <2>1, <2>6, <3>2, <3>3 DEF WorkersHold
  <2>9. PassProgress' /\ QuietOnlyWhenScaled'
    BY <1>1 DEF PassProgress, QuietOnlyWhenScaled
  <2> QED
    BY <2>4, <2>6, <2>7, <2>8, <2>9 DEF PassInv
<1> QED
  BY <1>3, <1>4 DEF RecoverPod

\* The goroutines have ended; what they reported is written, and the pass goes on or ends.
LEMMA JoinKeepsInv ==
    ASSUME TypeOK, ListCoversStatefulSet, ScaleDownInv, JoinWorkers
    PROVE  ScaleDownInv'
<1> USE DEF ScaleDownInv
<1>1. /\ pc = "workers" /\ sts.exists /\ Listed /\ Fetched
      /\ pass.setup = {} /\ pass.check = {}
      /\ UNCHANGED <<serverVars, stsVars, podVars, txnVars, resourcesGeneration>>
  BY DEF JoinWorkers, ListCoversStatefulSet, Listed, Fetched
<1>2. Thins
  BY <1>1, StillThins DEF stsVars
<1>3. CASE Return(TRUE) /\ UNCHANGED statusVars
  BY <1>1, <1>2, <1>3, ReturnKeepsInv
<1>4. CASE /\ RecoveryEnds
           /\ \/ /\ ~pass.update /\ UNCHANGED statusVars
                 /\ queued' = (queued \/ pass.must = requeueNow)
              \/ WriteStatus(pass.pods, NumberOfPodsToScaleDown, statusReplicas,
                             pass.must = requeueNow)
  <2>1. ~Empty(pass.pods)
    BY <1>1 DEF PassInv, WorkersHold
  <2>2. /\ EntriesTrue(pass.pods, pass.spec.replicas, Drained)
        /\ ~LaggingCache => CutAreClean(pass.pods, Kept)
    BY <1>1 DEF PassInv, PassHolds, PassCurrent
  <2>3. /\ ClusterInv'
        /\ \/ Shown' = Shown
           \/ Shown'.spec = spec /\ Shown'.generation = generation /\ Shown'.pods = pass.pods
        /\ ~LaggingCache => statusPods' = pass.pods
        /\ ~queued' /\ ~behind' => pass.generation = generation
    <3>1. CASE WriteStatus(pass.pods, NumberOfPodsToScaleDown, statusReplicas,
                           pass.must = requeueNow)
      BY <1>1, <2>1, <2>2, <3>1, WriteStatusCluster
    <3>2. CASE /\ ~pass.update /\ UNCHANGED statusVars
               /\ queued' = (queued \/ pass.must = requeueNow)
      <4>1. ClusterInv' /\ Shown' = Shown
        BY <1>1, <1>2, <3>2, ThinsKeepsCluster, ShownStays
      <4> QED
        BY <1>1, <3>2, <4>1 DEF PassInv, PassHolds, PassCurrent, statusVars
    <3> QED
      BY <1>4, <3>1, <3>2
  <2>4. CASE pass.must = requeueNow /\ pc' = "idle" /\ pass' = NoPass
    <3>1. queued'
      BY <1>4, <2>4 DEF WriteStatus
    <3> QED
      BY <2>3, <2>4, <3>1, NoPassInv DEF QuietOnlyWhenScaled
  <2>5. CASE /\ pc' = "checkStatefulSet"
             /\ pass' = [pass EXCEPT !.again = (pass.must = requeueLater), !.must = requeueOff,
                               !.scaling = IF pass.update THEN NumberOfPodsToScaleDown ELSE @,
                               !.update = FALSE, !.prepared = {}]
    <3>1. /\ pass'.spec = pass.spec /\ pass'.generation = pass.generation
          /\ pass'.pods = pass.pods /\ pass'.list = pass.list /\ pass'.prepared = {}
          /\ pass'.setup = pass.setup /\ pass'.check = pass.check
      BY <2>5 DEF TypeOK, PassType
    <3>2. PassHolds' /\ ListHolds'
      <4>1. UNCHANGED <<sts, pods, connected, prepared>>
        BY <1>1 DEF stsVars, podVars
      <4> QED
        BY <1>1, <2>1, <2>2, <2>3, <2>5, <3>1, <4>1, NewEntriesKeepPass
    <3>3. PassCurrent'
      <4>1. Kept' = Kept
        BY <1>1 DEF Kept, stsVars
      <4> QED
        BY <2>2, <2>3, <3>1, <4>1 DEF PassCurrent
    <3>4. WorkersHold' /\ PassProgress' /\ QuietOnlyWhenScaled'
      BY <1>1, <2>5, <3>1 DEF WorkersHold, PassProgress, QuietOnlyWhenScaled
    <3> QED
      BY <2>3, <3>2, <3>3, <3>4 DEF PassInv
  <2> QED
    BY <1>4, <2>4, <2>5 DEF RecoveryEnds, Goto
<1> QED
  BY <1>3, <1>4 DEF JoinWorkers

-----------------------------------------------------------------------------
(* The steps of a pass that bring the resources up to date.                *)

\* An accepted update of the StatefulSet makes it no larger, no smaller than the spec of
\* the pass, and cuts off only pods that the pass has listed and holds to be CLEAN.
LEMMA UpdateShrinks ==
    ASSUME OnlyScalesDown, TypeOK, ListCoversStatefulSet, ScaleDownInv, pc = "checkStatefulSet",
           ~IsCurrentGeneration \/ MayShrink
    PROVE  /\ pass.spec.replicas <= DesiredReplicaSize /\ DesiredReplicaSize <= sts.replicas
           /\ DesiredReplicaSize \in Nat
           /\ \A p \in Kept : p >= DesiredReplicaSize
                                => p \in pass.list /\ pass.pods[p] = "CLEAN"
<1> USE DEF ScaleDownInv
<1>1. Fetched /\ Listed /\ sts.exists
  BY DEF Fetched, Listed, ListCoversStatefulSet
<1>2. Numbers /\ pass.spec.replicas <= sts.replicas
  BY <1>1, TypeNumbers DEF PassInv, PassHolds
<1>3. CASE ~ScalesDown
  <2>1. DesiredReplicaSize = sts.replicas
    BY <1>2, <1>3 DEF DesiredReplicaSize, ScalesDown, Numbers
  <2> QED
    BY <1>2, <2>1 DEF Kept, Numbers
<1>4. CASE ScalesDown
  <2>1. DesiredReplicaSize = CalculatedReplicaSize /\ CalculatedReplicaSize \in Nat
    BY <1>4, CalculatedIsRest DEF DesiredReplicaSize
  <2>2. /\ Kept \subseteq pass.list
        /\ Empty(pass.pods) \/ \A p \in pass.list : pass.pods[p] # NoEntry
        /\ EntriesTrue(pass.pods, pass.spec.replicas, Drained)
    BY <1>1 DEF PassInv, PassHolds, ListHolds
  <2>3. /\ pass.spec.replicas <= CalculatedReplicaSize
        /\ \A p \in Kept : p >= CalculatedReplicaSize
                             => p \in pass.list /\ pass.pods[p] = "CLEAN"
    BY <1>2, <2>2, CalculatedCovers
  <2>4. CalculatedReplicaSize <= sts.replicas
    <3>1. CASE MayShrink
      BY <1>2, <2>1, <3>1 DEF MayShrink, Numbers
    <3>2. CASE ~LaggingCache
      <4>1. \A p \in pass.list \ Kept : pass.pods[p] = "CLEAN"
        BY <1>1, <2>2, <3>2, PassFields DEF PassInv, PassCurrent, CutAreClean, ListHolds
      <4> QED
        BY <4>1, CalculatedWithin
    <3>3. CASE ~IsCurrentGeneration /\ MaxGeneration <= 2
      <4>1. pass.generation \in 0 .. MaxGeneration /\ MaxGeneration \in Nat
        BY MaxGenerationAssumption DEF TypeOK, PassType
      <4>2. 1 <= sts.generation /\ sts.generation <= pass.generation
        BY <1>1 DEF ClusterInv, SizeCovers, PassInv, PassHolds
      <4>3. sts.generation = 1
        BY <1>2, <3>3, <4>1, <4>2 DEF IsCurrentGeneration, Numbers
      <4>4. pass.list \subseteq Kept
        BY <1>1, <4>3 DEF PassInv, ListHolds
      <4> QED
        BY <4>4, CalculatedWithin
    <3> QED
      BY <3>1, <3>2, <3>3 DEF OnlyScalesDown, CacheIsCurrent
  <2> QED
    BY <2>1, <2>3, <2>4
<1> QED
  BY <1>3, <1>4

\* What an accepted update leaves of the StatefulSet.
LEMMA UpdatedStatefulSet ==
    ASSUME TypeOK, ScaleDownInv, Fetched, sts.exists,
           sts' = [sts EXCEPT !.replicas = DesiredReplicaSize,
                              !.generation = pass.generation,
                              !.image = IF IsCurrentGeneration THEN @ ELSE pass.spec.image]
    PROVE  /\ sts'.exists /\ sts'.replicas = DesiredReplicaSize
           /\ sts'.generation = pass.generation
           /\ sts'.volume = InitialSpec.volume /\ sts'.image = InitialSpec.image
<1>1. sts'.exists /\ sts'.replicas = DesiredReplicaSize /\ sts'.generation = pass.generation
  BY DEF TypeOK
<1>2. sts'.volume = sts.volume /\ sts'.image \in {sts.image, pass.spec.image}
  BY DEF TypeOK
<1> QED
  BY <1>1, <1>2 DEF ScaleDownInv, ClusterInv, SizeCovers, PassInv, PassHolds, UsersSpec

\* Cutting off CLEAN pods keeps the invariant: they are drained, and their entries say so.
LEMMA UpdateKeepsInv ==
    ASSUME OnlyScalesDown, TypeOK, ListCoversStatefulSet, ScaleDownInv, pc = "checkStatefulSet",
           ~IsCurrentGeneration \/ MayShrink,
           sts' = [sts EXCEPT !.replicas = DesiredReplicaSize,
                              !.generation = pass.generation,
                              !.image = IF IsCurrentGeneration THEN @ ELSE pass.spec.image],
           Return(TRUE), UNCHANGED <<serverVars, statusVars, podVars, txnVars>>
    PROVE  ScaleDownInv'
<1> USE DEF ScaleDownInv
<1>1. Fetched /\ Listed /\ sts.exists /\ Numbers
  BY TypeNumbers DEF Fetched, Listed, ListCoversStatefulSet
<1>2. /\ sts'.exists /\ sts'.replicas = DesiredReplicaSize /\ sts'.generation = pass.generation
      /\ sts'.volume = InitialSpec.volume /\ sts'.image = InitialSpec.image
  BY <1>1, UpdatedStatefulSet
<1>3. /\ pass.spec.replicas <= sts'.replicas /\ sts'.replicas <= sts.replicas
      /\ sts'.replicas \in Nat
      /\ \A p \in Kept : p >= sts'.replicas => p \in pass.list /\ pass.pods[p] = "CLEAN"
  BY <1>2, UpdateShrinks
<1>4. Kept' \subseteq Kept /\ \A p \in Kept \ Kept' : p >= sts'.replicas /\ p < sts.replicas
  BY <1>1, <1>3 DEF Kept, Numbers
<1>5. \A p \in Kept \ Kept' : pass.pods[p] = "CLEAN" /\ p \in Ordinals
  BY <1>3, <1>4, PassFields
<1>6. \A p \in Kept \ Kept' : p \in Drained
  BY <1>1, <1>5 DEF PassInv, PassHolds, EntriesTrue
<1>7. /\ Drained' = Drained /\ Shown' = Shown /\ pods' = pods /\ terminating' = terminating
      /\ generation' = generation /\ behind' = behind /\ spec' = spec
      /\ statusPods' = statusPods /\ image' = image /\ prepared' = prepared
      /\ indoubt' = indoubt /\ heuristics' = heuristics
  BY ShownStays DEF Drained, serverVars, statusVars, podVars, txnVars
<1>8. Kept \subseteq pods
  BY <1>1 DEF PassInv, ListHolds
<1>9. SpecsFall' /\ NothingBefore'
  BY <1>2, <1>7 DEF ClusterInv, SpecsFall, NothingBefore
<1>10. SizeCovers'
  <2>1. /\ Shown.spec.replicas <= pass.spec.replicas /\ pass.generation <= Shown.generation
        /\ 1 <= pass.generation /\ (pass.generation = 1 => pass.spec = InitialSpec)
        /\ 1 <= sts.generation /\ sts.generation <= pass.generation
    BY <1>1 DEF PassInv, PassHolds, UsersSpec, Before, ClusterInv, SizeCovers
  <2>2. pass.generation = 1 =>
           /\ sts.generation = 1 /\ sts.replicas = InitialSpec.replicas
           /\ pass.spec.replicas = InitialSpec.replicas /\ pods \subseteq Kept
    BY <1>1, <2>1 DEF ClusterInv, SizeCovers, Numbers
  <2>3. pass.generation = 1 => sts'.replicas = sts.replicas
    BY <1>1, <1>3, <2>2 DEF Numbers
  <2>4. sts'.replicas = sts.replicas => Kept' = Kept
    BY DEF Kept
  <2>5. Shown.spec.replicas <= sts'.replicas
    BY <1>1, <1>3, <2>1 DEF Numbers
  <2> QED
    BY <1>2, <1>7, <2>1, <2>2, <2>3, <2>4, <2>5 DEF SizeCovers
<1>11. PodsInPlace'
  BY <1>4, <1>6, <1>7, <1>8 DEF ClusterInv, PodsInPlace, Drained
<1>12. NoOrphans'
  BY <1>6, <1>7 DEF ClusterInv, NoOrphans, Drained
<1>13. EntriesGood'
  <2>1. Empty(pass.pods) => Kept' = Kept
    BY <1>4, <1>5 DEF Empty, NoEntry
  <2>2. Empty(Shown.pods) => Kept' = Kept \/ pods = {}
    BY <1>1, <2>1 DEF PassInv, PassHolds, EntriesStay
  <2>3. Empty(statusPods) => Kept' = Kept \/ pods = {}
    BY <2>2 DEF ClusterInv, EntriesGood, EntriesStay
  <2>4. EntriesComplete(statusPods, pods, Kept') /\ EntriesComplete(Shown.pods, pods, Kept')
    BY <1>4, <2>2, <2>3 DEF ClusterInv, EntriesGood, EntriesComplete
  <2> QED
    BY <1>7, <2>4 DEF ClusterInv, EntriesGood
<1>14. CurrentEntries'
  <2> SUFFICES ASSUME ~LaggingCache, NEW p \in Ordinals \ Kept'
               PROVE  statusPods[p] \in {"CLEAN", NoEntry}
    BY <1>7 DEF ClusterInv, CurrentEntries, CutAreClean
  <2>1. pass.pods = statusPods
    BY <1>1 DEF PassInv, PassCurrent
  <2> QED
    BY <1>5, <2>1 DEF ClusterInv, CurrentEntries, CutAreClean
<1>15. PassInv' /\ QuietOnlyWhenScaled'
  BY NoPassInv DEF Return, QuietOnlyWhenScaled
<1> QED
  BY <1>9, <1>10, <1>11, <1>12, <1>13, <1>14, <1>15 DEF ClusterInv

\* No spec asks for more than the StatefulSet has, nor for another volume.
LEMMA NeverUp ==
    ASSUME TypeOK, ScaleDownInv, Fetched, sts.exists
    PROVE  ~ScalesUp /\ ~DeleteStatefulSet
<1>1. pass.spec.replicas <= sts.replicas /\ Numbers
  BY TypeNumbers DEF ScaleDownInv, PassInv, PassHolds
<1>2. ~ScalesUp
  BY <1>1 DEF ScalesUp, Numbers
<1>3. sts.volume = pass.spec.volume
  BY DEF ScaleDownInv, PassInv, PassHolds, ClusterInv, SizeCovers, UsersSpec
<1> QED
  BY <1>2, <1>3 DEF DeleteStatefulSet

\* checkStatefulSet keeps the invariant, and goes on only when the StatefulSet has the
\* size of the spec or pods remain to be recovered.
LEMMA CheckKeepsInv ==
    ASSUME OnlyScalesDown, TypeOK, ListCoversStatefulSet, ScaleDownInv, CheckStatefulSet
    PROVE  ScaleDownInv'
<1> USE DEF ScaleDownInv
<1>1. /\ pc = "checkStatefulSet" /\ sts.exists /\ Fetched /\ Listed /\ Numbers
      /\ UNCHANGED <<serverVars, statusVars, pods, connected, running, prepared, image,
                     txnVars, resourcesGeneration>>
  BY TypeNumbers DEF CheckStatefulSet, ListCoversStatefulSet, Fetched, Listed
<1>2. UNCHANGED <<sts, terminating>> => Thins
  BY <1>1, StillThins DEF podVars
<1>3. ~ScalesUp /\ ~DeleteStatefulSet
  BY <1>1, NeverUp
<1>4. CASE UpdateStatefulSet
  <2>1. (~IsCurrentGeneration \/ MayShrink) /\ Return(TRUE) /\ UNCHANGED terminating
    BY <1>3, <1>4 DEF UpdateStatefulSet
  <2>2. CASE UNCHANGED sts
    BY <1>1, <1>2, <2>1, <2>2, ReturnKeepsInv
  <2>3. CASE sts' = [sts EXCEPT !.replicas = DesiredReplicaSize,
                                !.generation = pass.generation,
                                !.image = IF IsCurrentGeneration THEN @ ELSE pass.spec.image]
    BY <1>1, <2>1, <2>3, UpdateKeepsInv DEF podVars
  <2> QED
    BY <1>4, <2>2, <2>3 DEF UpdateStatefulSet
<1>5. CASE StatefulSetUpToDate
  <2>1. /\ IsCurrentGeneration /\ ~MayShrink /\ pc' = "resources"
        /\ pass' = [pass EXCEPT !.again = @ \/ UncleanPodsRemain]
        /\ UNCHANGED <<sts, terminating, queued>>
    BY <1>5 DEF StatefulSetUpToDate, Goto, stsVars
  <2>2. /\ pass'.spec = pass.spec /\ pass'.generation = pass.generation
        /\ pass'.pods = pass.pods /\ pass'.scaling = pass.scaling
        /\ pass'.list = pass.list /\ pass'.prepared = pass.prepared
        /\ pass'.setup = pass.setup /\ pass'.check = pass.check
        /\ pass'.again = (pass.again \/ UncleanPodsRemain)
    BY <2>1 DEF TypeOK, PassType
  <2>3. HeldStays /\ ListStays
    BY <1>1, <2>1, <2>2 DEF HeldStays, ListStays
  <2>4. ClusterInv' /\ PassHolds' /\ PassCurrent' /\ ListHolds' /\ QuietOnlyWhenScaled'
    BY <1>1, <1>2, <2>1, <2>3, PassGoesOn
  <2>5. WorkersHold'
    BY <1>1, <2>1, <2>2 DEF PassInv, WorkersHold
  <2>6. sts.replicas = pass.spec.replicas \/ UncleanPodsRemain
    <3>1. /\ Kept \subseteq pass.list /\ pass.spec.replicas <= sts.replicas
          /\ Empty(pass.pods) \/ \A p \in pass.list : pass.pods[p] # NoEntry
          /\ EntriesTrue(pass.pods, pass.spec.replicas, Drained)
      BY <1>1 DEF PassInv, PassHolds, ListHolds
    <3>2. pass.spec.replicas <= CalculatedReplicaSize
      BY <3>1, CalculatedCovers
    <3> QED
      BY <1>1, <2>1, <3>1, <3>2, CalculatedIsRest
         DEF MayShrink, UncleanPodsRemain, ScalesDown, Numbers
  <2>7. PassProgress'
    BY <2>1, <2>2, <2>6 DEF PassProgress, IsCurrentGeneration
  <2> QED
    BY <2>4, <2>5, <2>7 DEF PassInv
<1> QED
  BY <1>3, <1>4, <1>5 DEF CheckStatefulSet

\* The other resources follow.
LEMMA ResourcesKeepsInv ==
    ASSUME TypeOK, ScaleDownInv, CreateOrUpdateResources
    PROVE  ScaleDownInv'
<1> USE DEF ScaleDownInv
<1>1. /\ pc = "resources" /\ Listed
      /\ UNCHANGED <<serverVars, statusVars, stsVars, podVars, txnVars>>
  BY DEF CreateOrUpdateResources, Listed
<1>2. Thins
  BY <1>1, StillThins DEF stsVars
<1>3. CASE Return(TRUE)
  BY <1>1, <1>2, <1>3, ReturnKeepsInv
<1>4. CASE /\ resourcesGeneration = pass.generation /\ pc' = "updateStatus"
           /\ UNCHANGED <<pass, queued, resourcesGeneration>>
  <2>1. HeldStays /\ ListStays
    BY <1>1, <1>4 DEF HeldStays, ListStays
  <2>2. ClusterInv' /\ PassHolds' /\ PassCurrent' /\ ListHolds' /\ QuietOnlyWhenScaled'
    BY <1>1, <1>2, <1>4, <2>1, PassGoesOn
  <2>3. WorkersHold' /\ PassProgress'
    BY <1>1, <1>4 DEF PassInv, WorkersHold, PassProgress, stsVars
  <2> QED
    BY <2>2, <2>3 DEF PassInv
<1> QED
  BY <1>3, <1>4 DEF CreateOrUpdateResources, Goto

\* While a size is only lowered no listed entry is reset, and none is lost.
LEMMA PodStatusGood ==
    ASSUME TypeOK, ScaleDownInv, Fetched, Listed, sts.exists
    PROVE  /\ EntriesToReset \cap pass.list = {}
           /\ EntriesTrue(GetPodStatus, pass.spec.replicas, Drained)
           /\ \A p \in pods : GetPodStatus[p] # NoEntry
           /\ ~LaggingCache => CutAreClean(GetPodStatus, Kept)
<1> USE DEF ScaleDownInv
<1>1. Numbers /\ pass.list \subseteq Ordinals /\ pods \subseteq pass.list
  BY TypeNumbers, PassFields DEF PassInv, ListHolds
<1>2. pass.spec.replicas <= sts.replicas /\ EntriesTrue(pass.pods, pass.spec.replicas, Drained)
  BY DEF PassInv, PassHolds
<1>3. EntriesToReset \cap pass.list = {}
  <2> SUFFICES ASSUME NEW p \in EntriesToReset, p \in pass.list PROVE FALSE
    OBVIOUS
  <2>1. p \in Ordinals /\ p >= pass.spec.replicas /\ NumberOfPodsToScaleDown <= 0
    BY <1>2 DEF EntriesToReset, EntriesTrue
  <2>2. sts.replicas = pass.spec.replicas
    BY <1>1, <1>2, <2>1 DEF NumberOfPodsToScaleDown, Numbers
  <2>3. p \in Kept
    BY <2>2 DEF PassInv, ListHolds
  <2> QED
    BY <1>1, <2>1, <2>2, <2>3 DEF Kept, Numbers
<1>4. \A p \in Ordinals : GetPodStatus[p] = IF p \notin pass.list THEN NoEntry
                                            ELSE IF pass.pods[p] = NoEntry THEN "ACTIVE"
                                            ELSE pass.pods[p]
  BY <1>3 DEF GetPodStatus
<1>5. EntriesTrue(GetPodStatus, pass.spec.replicas, Drained)
  BY <1>2, <1>4 DEF EntriesTrue, NoEntry
<1>6. \A p \in pods : GetPodStatus[p] # NoEntry
  BY <1>1, <1>4 DEF NoEntry
<1>7. ~LaggingCache => CutAreClean(GetPodStatus, Kept)
  <2> SUFFICES ASSUME ~LaggingCache, NEW p \in Ordinals \ Kept
               PROVE  GetPodStatus[p] \in {"CLEAN", NoEntry}
    BY DEF CutAreClean
  <2>1. pass.pods[p] \in {"CLEAN", NoEntry}
    BY DEF PassInv, PassCurrent, CutAreClean
  <2>2. p \in pass.list => pass.pods[p] # NoEntry
    BY DEF PassInv, ListHolds
  <2> QED
    BY <1>4, <2>1, <2>2
<1> QED
  BY <1>3, <1>5, <1>6, <1>7

\* The status is written, or says it all; only then may the operator come to rest.
LEMMA UpdateStatusKeepsInv ==
    ASSUME TypeOK, ListCoversStatefulSet, ScaleDownInv, UpdateStatus
    PROVE  ScaleDownInv'
<1> USE DEF ScaleDownInv
<1>1. /\ pc = "updateStatus" /\ sts.exists /\ Fetched /\ Listed /\ Numbers
      /\ UNCHANGED <<serverVars, stsVars, pods, connected, running, prepared, image,
                     txnVars, resourcesGeneration>>
  BY TypeNumbers DEF UpdateStatus, ListCoversStatefulSet, Fetched, Listed
<1>2. /\ EntriesToReset \cap pass.list = {}
      /\ EntriesTrue(GetPodStatus, pass.spec.replicas, Drained)
      /\ \A p \in pods : GetPodStatus[p] # NoEntry
      /\ ~LaggingCache => CutAreClean(GetPodStatus, Kept)
  BY <1>1, PodStatusGood
<1>3. terminating' = terminating
  BY <1>2 DEF UpdateStatus, DeletePods, PodsToReset
<1>4. Thins
  BY <1>1, <1>3, StillThins DEF stsVars, podVars
<1>5. CASE /\ WriteStatus(GetPodStatus, NumberOfPodsToScaleDown, pass.observed, TRUE)
           /\ pc' = "idle" /\ pass' = NoPass
  <2>1. statusPods' = GetPodStatus /\ Written /\ queued'
    BY <1>5 DEF WriteStatus
  <2>2. spec.replicas <= pass.spec.replicas /\ pass.spec.replicas \in Nat
    BY <1>1 DEF PassInv, PassHolds, ClusterInv, SpecsFall, Before, Numbers
  <2>3. Kept \subseteq pods /\ \A p \in pods : statusPods'[p] # NoEntry
    BY <1>1, <1>2, <2>1 DEF PassInv, ListHolds
  <2>4. /\ terminating' \cap Kept = {}
        /\ UNCHANGED <<serverVars, sts, pods, connected, prepared, image, txnVars>>
    BY <1>1, <1>3 DEF ClusterInv, PodsInPlace, stsVars
  <2>5. ClusterInv'
    BY <1>1, <1>2, <2>1, <2>2, <2>3, <2>4, WriteKeepsCluster
  <2> QED
    BY <1>5, <2>1, <2>5, NoPassInv DEF QuietOnlyWhenScaled
<1>6. CASE Return(TRUE) /\ UNCHANGED statusVars
  BY <1>1, <1>4, <1>6, ReturnKeepsInv
<1>7. CASE UNCHANGED statusVars /\ \E noIP \in BOOLEAN : Return(pass.again \/ noIP)
  <2>1. ClusterInv' /\ PassInv'
    BY <1>1, <1>4, <1>7, ThinsKeepsCluster, NoPassInv DEF Return
  <2>2. QuietOnlyWhenScaled'
    <3> SUFFICES ASSUME ~queued', ~behind'
                 PROVE  /\ sts'.exists /\ sts'.replicas = spec'.replicas
                        /\ sts'.generation = generation' /\ resourcesGeneration' = generation'
      BY DEF QuietOnlyWhenScaled
    <3>1. ~queued /\ ~pass.again /\ ~behind
      BY <1>7 DEF Return, statusVars
    <3>2. /\ sts.generation = pass.generation /\ sts.replicas = pass.spec.replicas
          /\ resourcesGeneration = pass.generation /\ pass.generation = generation
      BY <1>1, <3>1 DEF PassInv, PassProgress, PassHolds
    <3>3. pass.spec = spec
      BY <1>1, <3>2 DEF PassInv, PassHolds, ClusterInv, SpecsFall, Before, Numbers
    <3> QED
      BY <1>1, <3>2, <3>3 DEF stsVars, serverVars
  <2> QED
    BY <2>1, <2>2
<1> QED
  BY <1>5, <1>6, <1>7 DEF UpdateStatus

-----------------------------------------------------------------------------
(* The theorems.                                                           *)

\* The invariant holds before there is anything.
LEMMA InitScaleDownInv ==
    ASSUME OnlyScalesDown, Init
    PROVE  ScaleDownInv
<1>1. TypeOK /\ Numbers
  BY InitTypeOK, TypeNumbers
<1>2. /\ Shown.spec = InitialSpec /\ Shown.generation = 1
      /\ Shown.pods = statusPods /\ Shown.scaling = 0
  BY ShownWhenCurrent, StoredFields DEF Init
<1>3. Empty(statusPods)
  BY DEF Init, Empty
<1>4. sts.exists = FALSE /\ sts.replicas = 0
  BY DEF Init, NoStatefulSet
<1>5. SpecsFall
  BY <1>1, <1>2 DEF Init, SpecsFall, UsersSpec, Before, OnlyScalesDown, OnlyLowersSize, Numbers
<1>6. SizeCovers /\ NothingBefore /\ PodsInPlace /\ NoOrphans
  BY <1>2, <1>3, <1>4 DEF Init, SizeCovers, NothingBefore, PodsInPlace, NoOrphans
<1>7. EntriesGood /\ CurrentEntries
  BY <1>2, <1>3, NoEntriesTrue
     DEF Init, EntriesGood, EntriesComplete, EntriesStay, CurrentEntries, CutAreClean, Empty
<1>8. PassInv /\ QuietOnlyWhenScaled
  BY DEF Init, NoPass, PassInv, PassHolds, PassCurrent, ListHolds, WorkersHold, PassProgress,
         Fetched, Listed, QuietOnlyWhenScaled
<1> QED
  BY <1>5, <1>6, <1>7, <1>8 DEF ScaleDownInv, ClusterInv

\* Every step keeps it.
LEMMA NextScaleDownInv ==
    ASSUME OnlyScalesDown, TypeOK, ListCoversStatefulSet, ScaleDownInv, [Next]_vars
    PROVE  ScaleDownInv'
<1>1. TypeOK'
  BY NextTypeOK
<1>2. CASE Reconcile
  BY <1>2, FetchKeepsInv, GetKeepsInv, ListKeepsInv, SetLabelKeepsInv, ProcessKeepsInv,
     SetupKeepsInv, RecoverKeepsInv, JoinKeepsInv, CheckKeepsInv, ResourcesKeepsInv,
     UpdateStatusKeepsInv DEF Reconcile
<1>3. CASE EditSpec
  BY <1>1, <1>3, EditKeepsInv
<1>4. CASE UNCHANGED vars
  <2>1. /\ UNCHANGED <<serverVars, statusVars, sts, podVars, txnVars>>
        /\ pc' = pc /\ pass' = pass /\ queued' = queued /\ UNCHANGED resourcesGeneration
    BY <1>4 DEF vars, stsVars, passVars
  <2>2. Thins /\ PassStays
    BY <2>1, StillThins, EventKeepsPass DEF ScaleDownInv
  <2> QED
    BY <2>1, <2>2, ThinsKeepsCluster, ThinsKeepsPass, ThinsKeepsQuiet DEF ScaleDownInv
<1> QED
  BY <1>2, <1>3, <1>4, SyncKeepsInv, CrashKeepsInv, ClusterKeepsInv DEF Next

\* The invariant of a scale down holds in every behaviour.
THEOREM ScaleDownInvariant == OnlyScalesDown => (Spec => []ScaleDownInv)
<1> SUFFICES ASSUME OnlyScalesDown PROVE Spec => []ScaleDownInv
  OBVIOUS
<1>1. Init => ScaleDownInv
  BY InitScaleDownInv
<1>2. TypeOK /\ ListCoversStatefulSet /\ ScaleDownInv /\ [Next]_vars => ScaleDownInv'
  BY NextScaleDownInv
<1> QED
  BY <1>1, <1>2, TypeCorrect, ListCovers, PTL DEF Spec

\* No pod loses its place in the StatefulSet while it has an unfinished transaction,
\* whatever fails and whenever the operator ends while the size is lowered.
THEOREM TransactionsAreNotOrphaned == OnlyScalesDown => (Spec => []NoOrphanedTransactions)
<1> SUFFICES ASSUME OnlyScalesDown PROVE Spec => []NoOrphanedTransactions
  OBVIOUS
<1>1. TypeOK /\ ScaleDownInv => NoOrphanedTransactions
  BY TypeNumbers
     DEF ScaleDownInv, ClusterInv, NoOrphans, NoOrphanedTransactions, Kept, Numbers
<1> QED
  BY <1>1, TypeCorrect, ScaleDownInvariant, PTL

\* CLEAN in the status is a verdict on the log as it is now.
THEOREM CleanPodsAreDrained == OnlyScalesDown => (Spec => []CleanIsDrained)
<1> SUFFICES ASSUME OnlyScalesDown PROVE Spec => []CleanIsDrained
  OBVIOUS
<1>1. ScaleDownInv => CleanIsDrained
  BY DEF ScaleDownInv, ClusterInv, EntriesGood, EntriesTrue, Drained, CleanIsDrained
<1> QED
  BY <1>1, ScaleDownInvariant, PTL

\* The load balancer has no pod that the status shows as CLEAN.
THEOREM CleanPodsAreOffBalancer == OnlyScalesDown => (Spec => []CleanIsOffBalancer)
<1> SUFFICES ASSUME OnlyScalesDown PROVE Spec => []CleanIsOffBalancer
  OBVIOUS
<1>1. TypeOK /\ ScaleDownInv => CleanIsOffBalancer
  BY DEF TypeOK, ScaleDownInv, ClusterInv, EntriesGood, EntriesTrue, Drained, CleanIsOffBalancer
<1> QED
  BY <1>1, TypeCorrect, ScaleDownInvariant, PTL

\* An operator that has come to rest has brought the StatefulSet to the size of the spec.
THEOREM QuietWhenScaled == OnlyScalesDown => (Spec => []QuietOnlyWhenScaled)
<1> SUFFICES ASSUME OnlyScalesDown PROVE Spec => []QuietOnlyWhenScaled
  OBVIOUS
<1>1. ScaleDownInv => QuietOnlyWhenScaled
  BY DEF ScaleDownInv
<1> QED
  BY <1>1, ScaleDownInvariant, PTL

\* No goroutine looks in vain for the status entry of its pod.
THEOREM GoroutinesFindEntries == OnlyScalesDown => (Spec => []RecoveredPodsHaveEntries)
<1> SUFFICES ASSUME OnlyScalesDown PROVE Spec => []RecoveredPodsHaveEntries
  OBVIOUS
<1>1. TypeOK /\ ScaleDownInv => RecoveredPodsHaveEntries
  <2> SUFFICES ASSUME TypeOK, ScaleDownInv, pc = "processRecovery", RecoveryBegins
               PROVE  \A p \in PodsToRecover : pass.pods[p] # NoEntry
    BY DEF RecoveredPodsHaveEntries
  <2>1. pass.list # {} /\ pass.list \subseteq Ordinals
    BY PassFields DEF RecoveryBegins
  <2>2. Cardinality(pass.list) # 0
    BY <2>1, OrdinalsBound, FS_EmptySet
  <2>3. ~Empty(pass.pods)
    <3>1. Empty(pass.pods) => {p \in Ordinals : pass.pods[p] # NoEntry} = {}
      BY DEF Empty
    <3> QED
      BY <2>2, <3>1, FS_EmptySet DEF RecoveryBegins, StatusHasEveryPod
  <2>4. \A p \in pass.list : pass.pods[p] # NoEntry
    BY <2>3 DEF ScaleDownInv, PassInv, ListHolds, Listed
  <2> QED
    BY <2>4, PodsToRecoverType
<1> QED
  BY <1>1, TypeCorrect, ScaleDownInvariant, PTL

-----------------------------------------------------------------------------
(* What the steps do to the StatefulSet.                                   *)

\* A step leaves the StatefulSet, creates it, or cuts off pods that are CLEAN.
LEMMA StatefulSetStep ==
    ASSUME OnlyScalesDown, TypeOK, ListCoversStatefulSet, ScaleDownInv, [Next]_vars
    PROVE  \/ UNCHANGED sts
           \/ /\ ~sts.exists /\ sts'.exists /\ sts'.replicas = pass.spec.replicas /\ Fetched
              /\ UNCHANGED <<serverVars, txnVars>>
           \/ /\ sts.exists /\ sts'.exists /\ Fetched /\ UNCHANGED <<serverVars, txnVars>>
              /\ sts'.replicas \in Nat /\ pass.spec.replicas <= sts'.replicas
              /\ sts'.replicas <= sts.replicas
              /\ \A p \in Kept : p >= sts'.replicas => p \in pass.list /\ pass.pods[p] = "CLEAN"
<1>1. CASE GetOrCreateNewStatefulSet
  <2>1. pc = "getStatefulSet" /\ UNCHANGED <<serverVars, statusVars, podVars, txnVars>>
    BY <1>1 DEF GetOrCreateNewStatefulSet
  <2>2. CASE /\ ~sts.exists
             /\ sts' = NewStatefulSet(pass.spec, pass.generation,
                                      DesiredReplicaSizeForNewStatefulSet)
    BY <2>1, <2>2, CreateKeepsInv DEF Fetched
  <2> QED
    BY <1>1, <2>2 DEF GetOrCreateNewStatefulSet, stsVars
<1>2. CASE CheckStatefulSet
  <2>1. /\ pc = "checkStatefulSet" /\ Fetched /\ sts.exists /\ UNCHANGED <<serverVars, txnVars>>
    BY <1>2 DEF CheckStatefulSet, Fetched, ListCoversStatefulSet
  <2>2. ~ScalesUp /\ ~DeleteStatefulSet
    BY <2>1, NeverUp
  <2>3. CASE /\ ~IsCurrentGeneration \/ MayShrink
             /\ sts' = [sts EXCEPT !.replicas = DesiredReplicaSize,
                                   !.generation = pass.generation,
                                   !.image = IF IsCurrentGeneration THEN @ ELSE pass.spec.image]
    BY <2>1, <2>3, UpdateShrinks, UpdatedStatefulSet
  <2> QED
    BY <1>2, <2>2, <2>3 DEF CheckStatefulSet, UpdateStatefulSet, StatefulSetUpToDate, stsVars
<1>3. CASE Reconcile /\ ~GetOrCreateNewStatefulSet /\ ~CheckStatefulSet
  BY <1>3 DEF Reconcile, FetchWildFlyServer, ListPods, SetLabelAsDisabled,
     ProcessTransactionRecoveryScaleDown, SetupRecoveryPropertiesAndRestart, RecoverPod,
     JoinWorkers, CreateOrUpdateResources, UpdateStatus, stsVars
<1>4. CASE Crash
  BY <1>4 DEF Crash, stsVars
<1>5. CASE UNCHANGED vars
  BY <1>5 DEF vars, stsVars
<1> QED
  BY <1>1, <1>2, <1>3, <1>4, <1>5, ClusterKeepsList DEF Next, listVars

\* Whatever ordinal checkStatefulSet cuts off is that of a listed pod that the pass holds
\* to be CLEAN.
THEOREM ShrinkOnlyRemovesClean == OnlyScalesDown => (Spec => ShrinkRemovesOnlyClean)
<1> SUFFICES ASSUME OnlyScalesDown PROVE Spec => ShrinkRemovesOnlyClean
  OBVIOUS
<1>1. TypeOK /\ ListCoversStatefulSet /\ ScaleDownInv /\ [Next]_vars
        => [sts.exists /\ sts'.exists =>
              \A p \in Ordinals : p >= sts'.replicas /\ p < sts.replicas
                                    => p \in pass.list /\ pass.pods[p] = "CLEAN"]_vars
  <2> SUFFICES ASSUME TypeOK, ListCoversStatefulSet, ScaleDownInv, [Next]_vars,
                      sts.exists, sts'.exists, NEW p \in Ordinals,
                      p >= sts'.replicas, p < sts.replicas
               PROVE  p \in pass.list /\ pass.pods[p] = "CLEAN"
    OBVIOUS
  <2>1. p \in Kept /\ Numbers
    BY TypeNumbers DEF Kept, Numbers
  <2>2. sts' # sts
    BY <2>1 DEF Numbers
  <2> QED
    BY <2>1, <2>2, StatefulSetStep
<1> QED
  BY <1>1, TypeCorrect, ListCovers, ScaleDownInvariant, PTL DEF Spec, ShrinkRemovesOnlyClean

-----------------------------------------------------------------------------
(* The loop implements the contract.                                       *)

\* The size that the user asks for now is not larger than the one a pass works for.
LEMMA TargetIsLower ==
    ASSUME TypeOK, ScaleDownInv, Fetched
    PROVE  spec.replicas <= pass.spec.replicas
BY TypeNumbers DEF ScaleDownInv, ClusterInv, SpecsFall, PassInv, PassHolds, Before, Numbers

\* A change of the StatefulSet deploys or shrinks; what is cut off has no transaction.
LEMMA StatefulSetContract ==
    ASSUME OnlyScalesDown, TypeOK, TypeOK', ListCoversStatefulSet, ScaleDownInv, ScaleDownInv',
           [Next]_vars, sts' # sts
    PROVE  [Contract!Next]_(Contract!vars)
<1>1. Numbers /\ Numbers'
  BY TypeNumbers, TypeNumbersNext
<1>2. CASE /\ ~sts.exists /\ sts'.exists /\ sts'.replicas = pass.spec.replicas /\ Fetched
           /\ UNCHANGED <<serverVars, txnVars>>
  <2>1. spec.replicas <= sts'.replicas /\ sts'.replicas \in 0 .. MaxPods
    BY <1>2, TargetIsLower DEF TypeOK, PassType, Specs
  <2>2. Contract!Deploy
    BY <1>1, <1>2, <2>1 DEF Contract!Deploy, serverVars, txnVars, Numbers
  <2> QED
    BY <2>2 DEF Contract!Next
<1>3. CASE /\ sts.exists /\ sts'.exists /\ Fetched /\ UNCHANGED <<serverVars, txnVars>>
           /\ pass.spec.replicas <= sts'.replicas /\ sts'.replicas <= sts.replicas
  <2>1. CASE sts'.replicas = sts.replicas
    BY <1>3, <2>1 DEF Contract!vars, serverVars, txnVars
  <2>2. CASE sts'.replicas < sts.replicas
    <3>1. sts'.replicas \in spec.replicas .. sts.replicas - 1
      BY <1>1, <1>3, <2>2, TargetIsLower DEF Numbers
    <3>2. indoubt \cup heuristics \subseteq 0 .. sts'.replicas - 1
      BY <1>3 DEF ScaleDownInv, ClusterInv, NoOrphans, Kept, txnVars
    <3>3. Contract!Shrink
      BY <1>3, <3>1, <3>2 DEF Contract!Shrink, serverVars, txnVars
    <3> QED
      BY <3>3 DEF Contract!Next
  <2> QED
    BY <1>1, <1>3, <2>1, <2>2 DEF Numbers
<1> QED
  BY <1>2, <1>3, StatefulSetStep

\* The user's edit lowers the target, or leaves it.
LEMMA EditContract ==
    ASSUME OnlyScalesDown, TypeOK, TypeOK', EditSpec
    PROVE  [Contract!Next]_(Contract!vars)
<1>1. Numbers /\ Numbers'
  BY TypeNumbers, TypeNumbersNext
<1>2. spec'.replicas <= spec.replicas
  BY DEF EditSpec, OnlyScalesDown, OnlyLowersSize
<1>3. UNCHANGED <<sts, indoubt, heuristics>>
  BY DEF EditSpec, stsVars, txnVars
<1>4. CASE spec'.replicas = spec.replicas
  BY <1>3, <1>4 DEF Contract!vars
<1>5. CASE spec'.replicas < spec.replicas
  BY <1>1, <1>3, <1>5 DEF Contract!Next, Contract!Lower, Numbers
<1> QED
  BY <1>1, <1>2, <1>4, <1>5 DEF Numbers

\* A transaction begins on a pod that is kept, or ends.
LEMMA TransactionContract ==
    ASSUME TypeOK, ScaleDownInv, NEW p \in Ordinals,
           BeginTransaction(p) \/ TurnHeuristic(p) \/ Recovers(p)
    PROVE  [Contract!Next]_(Contract!vars)
<1> USE DEF Recovers
<1>1. spec' = spec /\ sts' = sts
  BY DEF BeginTransaction, TurnHeuristic, FinishTransaction, ResolveHeuristic, serverVars, stsVars
<1>2. CASE UNCHANGED (indoubt \cup heuristics)
  BY <1>1, <1>2 DEF Contract!vars
<1>3. CASE BeginTransaction(p) /\ p \notin heuristics
  <2>1. p \in pods /\ p \notin prepared /\ p \notin indoubt \cup heuristics
    BY <1>3 DEF BeginTransaction, TypeOK
  <2>2. p \in (0 .. sts.replicas - 1) \ (indoubt \cup heuristics)
    BY <2>1 DEF ScaleDownInv, ClusterInv, PodsInPlace, Kept
  <2>3. (indoubt \cup heuristics)' = (indoubt \cup heuristics) \cup {p}
    BY <1>3 DEF BeginTransaction
  <2>4. Contract!Begin
    BY <1>1, <2>2, <2>3 DEF Contract!Begin
  <2> QED
    BY <2>4 DEF Contract!Next
<1>4. CASE /\ p \in indoubt \cup heuristics
           /\ (indoubt \cup heuristics)' = (indoubt \cup heuristics) \ {p}
  <2>1. Contract!Finish
    BY <1>1, <1>4 DEF Contract!Finish
  <2> QED
    BY <2>1 DEF Contract!Next
<1>5. CASE BeginTransaction(p) /\ p \in heuristics
  BY <1>2, <1>5 DEF BeginTransaction
<1>6. CASE TurnHeuristic(p)
  BY <1>2, <1>6 DEF TurnHeuristic
<1>7. CASE FinishTransaction(p)
  BY <1>2, <1>4, <1>7 DEF FinishTransaction
<1>8. CASE ResolveHeuristic(p)
  BY <1>2, <1>4, <1>8 DEF ResolveHeuristic
<1> QED
  BY <1>3, <1>5, <1>6, <1>7, <1>8

\* Every step of the loop is a step of the contract, or none that it can tell.
LEMMA NextContract ==
    ASSUME OnlyScalesDown, TypeOK, TypeOK', ListCoversStatefulSet, ScaleDownInv, ScaleDownInv',
           [Next]_vars
    PROVE  [Contract!Next]_(Contract!vars)
<1>1. CASE sts' # sts
  BY <1>1, StatefulSetContract
<1>2. CASE sts' = sts /\ UNCHANGED <<serverVars, txnVars>>
  BY <1>2 DEF Contract!vars, serverVars, txnVars
<1>3. CASE Reconcile
  <2>1. UNCHANGED <<serverVars, txnVars>>
    BY <1>3 DEF Reconcile, FetchWildFlyServer, GetOrCreateNewStatefulSet, ListPods,
       SetLabelAsDisabled, ProcessTransactionRecoveryScaleDown,
       SetupRecoveryPropertiesAndRestart, RecoverPod, JoinWorkers, CheckStatefulSet,
       CreateOrUpdateResources, UpdateStatus
  <2> QED
    BY <1>1, <1>2, <2>1
<1>4. CASE Crash \/ SyncServer \/ UNCHANGED vars
  BY <1>2, <1>4 DEF Crash, SyncServer, vars, stsVars
<1>5. CASE StatefulSetController
  BY <1>2, <1>5 DEF StatefulSetController, SyncStatefulSetStatus, CreatePod, TerminatePod,
     RollPod, stsVars
<1>6. CASE Kubelets \/ \E p \in Ordinals : LosePod(p)
  BY <1>2, <1>6 DEF Kubelets, StartPod, RemovePod, LosePod, stsVars
<1> QED
  BY <1>3, <1>4, <1>5, <1>6, EditContract, TransactionContract DEF Next

\* The operator in its cluster implements the contract of a scale down.
THEOREM LoopImplementsContract == OnlyScalesDown => (Spec => ImplementsContract)
<1> SUFFICES ASSUME OnlyScalesDown PROVE Spec => ImplementsContract
  OBVIOUS
<1>1. Init => Contract!Init
  <2> SUFFICES ASSUME Init PROVE Contract!Init
    OBVIOUS
  <2>1. spec.replicas \in 0 .. MaxPods
    BY InitialSpecAssumption DEF Init, Specs
  <2> QED
    BY <2>1 DEF Init, NoStatefulSet, Contract!Init
<1>2. TypeOK /\ TypeOK' /\ ListCoversStatefulSet /\ ScaleDownInv /\ ScaleDownInv' /\ [Next]_vars
        => [Contract!Next]_(Contract!vars)
  BY NextContract
<1> QED
  BY <1>1, <1>2, TypeCorrect, ListCovers, ScaleDownInvariant, PTL
     DEF Spec, ImplementsContract, Contract!Spec
=============================================================================
