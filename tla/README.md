# WildFly operator: a TLA+ model of its reconcile loop and transaction recovery

The WildFly operator keeps, for each `WildFlyServer` custom resource, a StatefulSet
with its pods, three services, on OpenShift a route, where the cluster is monitored a
ServiceMonitor, and a status. Its one hard
promise is about scale down: a pod of a Java application server may hold
unfinished XA transactions in its log, and must not be removed before they are
recovered. The code is a level-triggered loop that runs beside a user who edits
the resource, a StatefulSet controller, kubelets and the applications themselves,
and that may fail or end at any step. This directory models that loop, checks it
with TLC and proves theorems about it with TLAPS.

## 1. The system

### Inventory

| part | source | state it keeps | operations |
|---|---|---|---|
| reconcile loop | `controllers/wildflyserver_controller.go` | none between passes; in a pass, what it has read | `Reconcile`, `checkStatefulSet`, `cleanUpPodStatus`, `getPodStatus`, `GetPodsForWildFly`, `validate` |
| transaction recovery scale down | `controllers/transaction_recovery.go` | pod labels and annotations, `Status.Pods[].State` | `setLabelAsDisabled`, `processTransactionRecoveryScaleDown` and its goroutines, `setupRecoveryPropertiesAndRestart`, `checkRecovery`, `skipRecoveryAndForceScaleDown` |
| StatefulSet | `pkg/resources/statefulsets` | size, template, generation marker | `GetOrCreateNewStatefulSet`, `NewStatefulSet` |
| services, route, ServiceMonitor | `pkg/resources/services`, `routes`, `servicemonitors` | one object each, generation marker | `createOrUpdateService`, `GetOrCreateNewRoute`, `DeleteExistingRoute`, `GetOrCreateNewServiceMonitor` |
| resource actions, generation marker | `pkg/resources/actions.go`, `generation.go` | none | `Create`, `Update`, `Patch`, `Delete`, `UpdateWildFlyServerStatus`, `IsCurrentGeneration` |
| management operations | `pkg/util/wildfly_mgmt.go`, `remote_ops.go` | none | CLI operations in a pod, socket scan, log reading |
| utilities | `pkg/util/go_utilities.go` | none | sorting pods by ordinal, map and list helpers |
| API types | `api/v1alpha1` | `WildFlyServerSpec`, `WildFlyServerStatus` | generated code |
| start-up | `main.go` | none | wiring of the manager |

### How the parts interact

`Reconcile` is called for a key of the work queue, never twice at a time for the
same key. It reads the `WildFlyServer`, the StatefulSet and the pods, and then goes
through fixed steps, most of which end the pass and ask for another one as soon as
they have changed something. `processTransactionRecoveryScaleDown` starts one
goroutine per pod; they share the in-memory `WildFlyServer`, and two flags. The
parts communicate only through the API server: `Status.Pods` carries the verdicts
of the recovery from one pass to the next, the generation marker on the objects
says whether they have to be updated, a pod label connects a pod to the load
balancer, a pod annotation says that its server was prepared for recovery. The
work queue is fed by events on the `WildFlyServer` (its status included) and on
the StatefulSet. Pods are **not** watched, and the services, the route and the
ServiceMonitor only seem to be: see `service_deleted` below. All reads come from the
caches of informers, which follow the API server with a delay of their own.

### What is hard here

* everything a pass has read may be stale when it is used: a recovery lasts for
  minutes, and the user, the StatefulSet controller, the kubelets and an evicted
  node do not wait;
* a verdict (`SCALING_DOWN_CLEAN`) is kept under the name of a pod, and outlives
  the pod;
* writes of the status and of the StatefulSet may be refused because the object
  has moved; patches never are;
* the operator may end between any two writes;
* a pass that ends without asking for another one has to be sure that somebody
  will wake it.

### What makes each part correct

* *reconcile loop*: a pod with an unfinished transaction keeps its place in the
  StatefulSet; the StatefulSet only loses pods that were cleaned; the loop does not
  fall asleep before the spec is reached; in the end it is reached.
* *transaction recovery*: a `CLEAN` verdict stays true; a `CLEAN` pod gets no
  requests; goroutines find the entry they work on.
* *services, route, ServiceMonitor*: the operator goes quiet only when they are as the
  spec asks, they get there whatever fails on the way, the status shows the hosts of
  the route, and nothing outlives the `WildFlyServer`.
* *StatefulSet*: one that is marked with the current generation has the template and
  the volume of the current spec; its pods can be created and keep the transaction log
  on the volume; it is deleted, with all its pods, only for another volume; the labels
  a scale down changes are not those that tie a pod to it.
* *utilities*: pods are in the order of their numbers, and volume names are valid.

The hazards, each with its line and the properties that would catch it, are in
`PROJECT.json`.

## 2. The modules

| module | what it is |
|---|---|
| `WildFlyServerController` | the loop, the recovery's control flow, and the cluster around them |
| `ScaleDownContract` | what the user is promised of a scale down, in four variables |
| `MCWildFlyServerController` | specs and sets of edits for TLC |
| `MCWildFlyServerScaleDown` | the refinement mapping from the loop to the contract |
| `WildFlyServerControllerProofs` | theorems about the loop for every value of the constants |
| `WildFlyServerScaleDown` | the environment in which a scale down is safe, and the inductive invariant that says why |
| `WildFlyServerScaleDownProofs` | that a scale down is safe there, and implements the contract |
| `OwnedResources` | StatefulSet, services, route, ServiceMonitor and hosts, one step of the code at a time, over informers that lag one by one |
| `MCOwnedResources` | clusters and labels for TLC |
| `OwnedResourcesProofs` | theorems about them for every value of the constants |
| `StatefulSetTemplate` | what is written into the StatefulSet: pod template, claim, labels, probes, environment, and how it follows edits |
| `GoUtilities` | sorting of pods, merging of maps, volume names, as operators |
| `GoUtilitiesProofs` | what they compute, for lists and names of every length |
| `MCStatefulSetTemplate` | specs, environments and names for TLC |
| `StatefulSetTemplateProofs` | theorems about the StatefulSet for every value of the constants |
| `TransactionRecovery` | the recovery of one pod operation by operation, beside its server, its transactions and their resources |
| `MCTransactionRecovery` | sets of transactions for TLC |
| `TransactionRecoveryProofs` | theorems about it for every value of the constants |

The loop is modelled three times at different depths, as one model of everything would
be out of TLC's reach. `WildFlyServerController` keeps the size and the pods and takes
the other resources as one; `OwnedResources` keeps those and takes the pods as given;
`StatefulSetTemplate` keeps the contents of the StatefulSet and leaves out failures.
What ties them together is the generation marker: each shows that its part is brought
to the marker before the pass goes on, which is all the other two assume.

### State and code: the loop

| variable | code |
|---|---|
| `spec`, `generation` | `WildFlyServer.Spec` (size, recovery mode, VolumeClaimTemplate, image, whether `validate` accepts it) and `metadata.generation` |
| `statusPods`, `scalingdownPods`, `statusReplicas` | `Status.Pods` as a function from ordinals to states or no entry, `Status.ScalingdownPods`, `Status.Replicas` |
| `behind`, `copy` | the informer shows an older `WildFlyServer`, and which (`LaggingCache` says whether it may) |
| `sts`, `stsStatus` | the StatefulSet's size, generation marker, volume and image, and its `status.replicas` |
| `pods`, `terminating`, `connected`, `running`, `prepared` | the listed pods, those with a deletion timestamp, with the load balancer label, with the server up, with the annotation `recovery-properties-setup` (and the transaction manager disabled) |
| `image` | the image each pod was created with |
| `indoubt`, `heuristics` | pods whose log holds transactions that recovery, or only an administrator, can finish; the log is on a persistent volume and outlives the pod |
| `resourcesGeneration` | the generation marker of the services and the route, as one |
| `queued` | the key is in the work queue |
| `pc`, `pass` | where the pass is, and what it holds in memory |
| `faults` | failures that have happened, at most `MaxFaults` |

### Actions and code

The pass: `FetchWildFlyServer`, `GetOrCreateNewStatefulSet`, `ListPods` (with
`cleanUpPodStatus` and the two waits), `SetLabelAsDisabled`,
`ProcessTransactionRecoveryScaleDown` (up to its goroutines),
`SetupRecoveryPropertiesAndRestart(p)` and `RecoverPod(p)` (the goroutine of pod `p`),
`JoinWorkers` (`wg.Wait`, status update, result), `CheckStatefulSet` (delete, update or
go on), `CreateOrUpdateResources`, `UpdateStatus`. Between any two of them the
environment may move: `EditSpec`, `SyncServer` (the informer catches up), `CreatePod`,
`TerminatePod`, `RollPod` (a rolling update), `SyncStatefulSetStatus`, `StartPod`,
`RemovePod`, `LosePod`, `BeginTransaction`, `FinishTransaction`, `TurnHeuristic`,
`ResolveHeuristic`, `Crash`. The environment is modelled from how the code uses it and
is marked external in the map.

Rules the model takes from the code and its client library:

* `Status().Update` carries the resourceVersion read at the start: it is refused
  once the spec has been edited, or when the copy that was read was an old one. Only
  the operator writes the status.
* `Update` of the StatefulSet is refused once its controller has written its
  status since it was read (`pass.fresh`). Patches made with `MergeFrom` carry no
  version and are not refused; the patch of `cleanUpPodStatus` only carries the fields
  that differ from the copy that was read (`Patched`).
* An event during a pass, a `Requeue` or an error leave the key in the queue.
* A swallowed read error in `GetOrCreateNewStatefulSet`, and a missing status
  entry in `processTransactionRecoveryScaleDown`, dereference nil: the operator's
  process ends and starts again. Nothing in memory survives; the key is queued.
* `mustReconcile` is raised by the goroutines without synchronisation; the result
  is either the larger value or the later one.
* The deletions of pods in the status step and after a failed restart return errors
  that nobody looks at: each may fail while the pass goes on (`DeletePods`,
  `SetupRecoveryPropertiesAndRestart`).
* A pass that has no further use for something it holds sets it back. This changes
  no behaviour and keeps the state space small.

### The recovery of one pod

`TransactionRecovery` opens up the two steps `SetupRecoveryPropertiesAndRestart` and
`RecoverPod`. Every remote operation of `setupRecoveryPropertiesAndRestart` and
`checkRecovery` is an action of the goroutine (`pc` says which comes next), and `held`
is what it has read: the pod's annotations as listed, the number of the check, whether
the log has shown an error since the timestamp, the outcome.

| variable | code |
|---|---|
| `server`, `configured`, `booted` | the server (running, told to restart but still up, or stopped), the properties in its configuration and those it was started with; `"recoveryPeriods"` stands for the back-off period and the orphan interval |
| `setup`, `port` | the annotations `recovery-properties-setup` and `recovery-port` |
| `listener` | the attribute `recovery-listener` of the transaction subsystem |
| `active`, `logged`, `heuristic`, `remote`, `orphans` | where a transaction is: in the server, in the log store, in the log store with a heuristic state, in the directory `ejb-xa-recovery`, prepared at its resource with no record |
| `seen`, `probed` | orphans a scan has met, the log store as the last probe showed it |
| `resource` | the XA resources can be reached |
| `entry` | the pod's state in the status |
| `happened`, `faults` | the kinds of misleading failures so far, and the number of all failures |

What the recovery manager does is taken from how the code uses it: a scan empties the
log store and the directory, and rolls back an orphan when it meets it a second time,
provided that the orphan interval was cut short before the server started ("we need
to run two recovery checks with orphan detection interval set to minimum"). A scan
that cannot reach a resource does nothing and logs an error. A server that stops takes
its active transactions with it, each with a record, with a branch prepared at a
resource, or with nothing. An operation without an answer may have been done. The
answer to the restart may come before the server has stopped (`"slowStop"`): until
`Stop`, the old server goes on with its transactions and answers the wait and the checks.

A pod that is deleted is replaced at once; that it is still listed while it terminates
is a matter of the loop's model. The pod is one that is `Running`, so the first guard
of `setupRecoveryPropertiesAndRestart` holds. The command that touches the marker
directory has no effect the recovery looks at. The five heuristic queries are one
step: heuristic states do not turn into each other. The port annotation is only
written by the operator, so the branch for one that is not a number is not taken.

### The other resources

| variable of `OwnedResources` | code |
|---|---|
| `server` | whether the `WildFlyServer` is there, its generation, `DisableHTTPRoute`, labels and `Status.Hosts` |
| `store` | the marker of each object in the API server, 0 when it is not there |
| `referenced` | the objects with an owner reference |
| `selector` | the labels in the StatefulSet's selector, which are those of its pods |
| `ingress` | `Status.Ingress` of the route |
| `cache` | what the informers show of `server`, `store` and `ingress` |
| `platform` | OpenShift or not, monitoring or not, and which informers lag |
| `disturbed` | somebody else has changed an object since the last pass began |

Its actions are the steps of `Reconcile`: `FetchWildFlyServer`, `ReconcileStatefulSet`,
`CreateOrUpdateService` for each service, `GetOrCreateNewRoute`, `DeleteExistingRoute`
or `SkipRoute`, `GetOrCreateNewServiceMonitor` and `UpdateStatus`. A step reads the
cache and writes the API server: a creation of something the cache does not show is
refused, an update of something that has moved on is refused, and both end the pass
with another one to come. Of the cluster: edits of the spec and of the labels, the
deletion of the resource, `Admit` and `Rehost` (the router), `DeleteObject`, `Collect`
(the garbage collector), `SyncServer` and `SyncObject` (the informers), `Crash`.

In `StatefulSetTemplate` a pass is `Fetch` (with the sorted pod list) and one of
`CreateStatefulSet`, `DeleteStatefulSet`, `UpdateStatefulSet`, `StatefulSetIsCurrent`;
`EditSpec` may come between. The template is a record computed from the spec and the
operator's environment by operators that follow `NewStatefulSet` piece by piece. Three
things the API server and its client do to it matter and are modelled: it fills in a
field of a claim, it refuses a StatefulSet that does not select its own pods, and a
quantity keeps or loses the text it was parsed from on its way. Names are sequences of
characters in which a fixed prefix counts as one.

### Abstractions of the loop

* A transaction log is empty, in doubt or heuristic. `checkRecovery` is one step
  with the outcomes clean, recovery, heuristic or error, and is atomic with the
  second of the two checks the code makes; `TransactionRecovery` takes it apart.
* `recovery = "unsupported"` covers every reason the code finds in the server or
  in the storage to skip the recovery; `"deactivated"` the two in the spec.
* Services, route and ServiceMonitor are brought up to date in one step; the code
  ends the pass after each of them, as `OwnedResources` does.
* Only the cache of the `WildFlyServer` lags, and catches up in one step.
* `MaxPods` is the bound of the cluster: a new StatefulSet that would be larger, or
  of negative size, is refused as by the API server or a quota.

## 3. What TLC checks

`scale_down` uses three pods, the least number with one that stays below two that go,
which may become `CLEAN` in either order and may each have a transaction; the size is
lowered once, as a second reduction under a cache that lags is not safe (the further
counterexample with three pods). Without lag the same properties were checked once with
two reductions of the three pods (`DownFromThree`, `MaxGeneration` 3), and with lag with
a heuristic transaction on the upper pod besides. The other runs of the loop use two
pods, the least number with one that stays and one that goes. The theorems on scale
down (section 4) hold for any number of pods and, without lag, of reductions. One
failure anywhere is enough for every single-fault scenario of the code; edits are bounded
by `MaxGeneration`, so that an edit can fall between any two steps of a pass. Deadlock is
not checked: a settled deployment may stop for ever.

| run | shows |
|---|---|
| `scale_down` | while the user lowers the size once, from three pods to one, with in-doubt transactions on both pods that go, a cache that lags, and one API call or CLI operation failing or the operator ending anywhere: `NoOrphanedTransactions`, `CleanIsDrained`, `CleanIsOffBalancer`, `QuietOnlyWhenScaled`, `RecoveredPodsHaveEntries`, `ShrinkRemovesOnlyClean`, and `ImplementsContract` (every step is one of `ScaleDownContract` or changes nothing it speaks of); and `ScaleDownInv`, the invariant that explains them (section 4) |
| `converge_down` | `Converges` for scale down with in-doubt and heuristic transactions, a cache that lags, and one failure of any kind but a lost pod |
| `converge_otherwise` | scale up, a change of the storage on its own and together with the size up and down, a rolling update, an invalid spec, and scale up and down without recovery, with one failure of any kind: `Converges`, `TypeOK`, `ListCoversStatefulSet`, `ShrinkCovered` |
| `owned_resources` | two clusters (OpenShift with monitoring and a lagging cache of the `WildFlyServer`; plain Kubernetes where that of a service lags too), one edit of the spec or of the labels, the deletion of the resource, and one failure of any kind but a failed discovery: `TypeOK`, `QuietOnlyWhenAllDone`, `StatusFollowsResources`, `ResourcesConverge`, `NothingLeftBehind` |
| `pod_template` | three edits among fifteen specs in three environments, with three pods listed in any order: `TypeOK`, `CurrentMeansDeployed`, `DeletedOnlyForStorage`, `PodsCanBeCreated`, `DataIsOnVolume`, `ProbesAsAsked`, `MarkedPodsStayOwned`, `PodsInOrder` |
| `recovery` | one pod, two transactions of which one is heuristic, a listener that is on or off, a recovery port that is not the default, and up to three failures of any kind at any operation: `TypeOK`, `CleanIsFinishedUnlessMisled`, `BecomesClean` |

Three failures in `recovery` let a failure in the preparation, one between the checks
and one in the write of the verdict meet. Two transactions suffice, as the code only
asks whether a set is empty; one can be finished while the other is in any other
place. The run was also checked with a `RestartRetryCounter` of 0, where the server is
not waited for.

In `owned_resources` one edit makes every marker stale once, which is all the code
compares; the resource can be deleted before and after it, and one failure can meet
either. In `pod_template` three edits let a claim come, change and go, with an edit
between the read, the deletion and the creation. The specs are chosen so that each
branch of `NewStatefulSet` is taken; a label has six characters there instead of 63, so
that short names meet the limit.

Each property has a mutant in `PROJECT.json`: a variant of one definition that a
plausible slip in the code would give (marked "Faulty variant" in the module) and
that TLC finds to violate the property in the same run.

### Fairness

`FairSpec` assumes weak fairness of the operator (`Reconcile`: controller-runtime
serves a queued key for ever, and every blocking call it makes ends), of the
StatefulSet controller and of the kubelets as wholes, and, for each pod, of its
recovery: an in-doubt transaction is finished by the periodic recovery and a
heuristic one by the administrator, as long as the pod runs. Nobody is obliged to
edit, to fail or to begin a transaction; edits and failures are finitely many,
which is the usual premise of convergence. Convergence is only claimed where these
bounds are.

The informers (`SyncServer`, `SyncObjects`) are fair because a watch is re-established
until it delivers. In `OwnedResources` the router admits a route and the garbage
collector collects. Nobody has to change or delete an object.

`FairSpec` of `TransactionRecovery` assumes weak fairness of the goroutine (the pass
comes back until the pod is `CLEAN`: `BecomesClean` relies on the requeues that
`Converges` checks), of the stop and the start of the server, of the return of the resources and of
the administrator. It does not assume that anybody begins a transaction, or that the
periodic recovery ever runs: the scans that the operator asks for are enough.

### Where the code does not do what it says

Six runs are expected to fail; each shows one disagreement between the code and a
comment or the user guide, and `PROJECT.json` quotes the line.

| run | property | what happens |
|---|---|---|
| `scale_back_up` | `ActivePodsServe` | a scale down taken back just after the label patch leaves a pod `ACTIVE` and off the load balancer for ever: the label is never put back |
| `restart_fails` | `NoOrphanedTransactions` | a pod deleted after a failed restart is recovered again while it terminates; its successor inherits `CLEAN` and is cut off unchecked |
| `rolling_update` | `NoOrphanedTransactions` | scaled to 0 with a new image on the way: the `CLEAN` upper pod is cut off and still terminates while the lower one is away to be rolled; one pod is listed, it is `CLEAN`, and the StatefulSet is cut to 0 below a pod with a transaction |
| `service_deleted` | `QuietOnlyWhenCurrent` | owner references are set without the controller flag that `Owns` looks for, so a deleted service, route or ServiceMonitor is not put back until something else wakes the operator |
| `same_storage` | `DeletedOnlyForStorage` | quantities are compared with the text they cache: a claim for `1024Mi` never equals the `1Gi` that is read back, and any edit deletes the StatefulSet and all its pods |
| `first_scan_fails` | `CleanIsFinished` | a resource is away during the first check: the log error is an outcome without an error value and is overwritten by the second check, whose scan is then the only one that worked; the pod is `CLEAN` with an orphan left at the resource |

`CleanIsFinished` has four more ways to fail, each of them something the code does
not notice (`Misleading`): only the first JSON answer to the three property
operations is read (`"partial"`: the transaction manager stays enabled); the outcome
of the probe is ignored (`"probe"`: what is read is the picture of an earlier one); a
container that the kubelet starts anew has lost its configuration but not the
annotation of its pod (`"container"`); the wait after the restart is answered by the
server that has not stopped yet, and so are the checks (`"slowStop"`: its transaction
manager is still enabled, `wildfly_mgmt.go:176`). They can be seen by giving `FaultKinds` of
`FirstScan.cfg` the kind in question (for `"probe"` with a heuristic transaction and
two failures). Whatever else fails, `CleanIsFinishedUnlessMisled` holds.

Consequently the properties of `scale_down` do not hold for arbitrary edits, nor
when pods are lost, rolled or fail to restart, nor for two reductions under a cache that
lags. `OnlyScalesDown` in section 4 states under which environment the promise holds,
and the run lies within it.

### Further counterexamples

These show up under the same models with other constants. They are no runs of their own
as most have a cause above; each line names the instance.

| instance | violates | what happens |
|---|---|---|
| loop, edits 2 to 0 and 0 to 1 | `QuietOnlyWhenScaled` | more pods are `CLEAN` than may go: the calculated size is below the spec, the update is skipped (`wildflyserver_controller.go:357`), and no requeue is asked for |
| loop, one edit to size 1 and another volume, fault `exec` | `NoOrphanedTransactions` | the StatefulSet is deleted before `ScalingdownPods` is written and recreated at the smaller size (`wildflyserver_controller.go:105`) |
| loop, fault `podLoss` | `RecoveredPodsHaveEntries` | entries and pods are compared by number only; a goroutine's pod has no entry and the operator ends in every pass (`transaction_recovery.go:359`) |
| loop, fault `podLoss` | `CleanIsDrained`, `CleanIsOffBalancer`, `ShrinkRemovesOnlyClean` | an evicted `CLEAN` pod comes back connected and still `CLEAN`; with a pod missing below a terminating one, the missing one is cut off |
| loop, down, up and down again | `NoOrphanedTransactions` | a new pod goes under the `CLEAN` entry of the old one |
| loop, three pods (`ThreePods`, `DownFromThree`, `MaxGeneration` 3, a transaction on pod 1), a cache that lags, no failures | `NoOrphanedTransactions` | 3 to 1 and then to 0. `cleanUpPodStatus` writes the entries it read before the last verdict over the stored ones, by a patch that is never refused (`wildflyserver_controller.go:582`); pod 2, which still terminates, is `ACTIVE` again, the calculated size is 2 and the StatefulSet grows from 1 to 2; the new pod 1 has no entry, so neither the recovery nor the count looks at it, and it is cut off with the transaction it has begun |
| `OwnedResources`, a label added or removed | (excluded by `server.labels = selector`) | labels are no part of the generation and the selector cannot change: with one more, no pod is found and every pass waits; with one fewer, the next update of the StatefulSet is refused |
| `OwnedResources`, fault `monitorRead` | `QuietOnlyWhenAllDone` | a failed discovery counts as "no such kind", and nobody comes back for the ServiceMonitor |
| `OwnedResources`, the informer of routes lags, the route disabled and enabled again | `QuietOnlyWhenAllDone` | the deleted route that the cache still shows is taken for the one that is wanted: it is not created, and nobody comes back for it |
| `StatefulSetTemplate`, two secrets `a.b` and `a-b` | `ValidPod` (excluded by `NamesStayApart`) | both volumes get the name `secret-a-b`; no pod can be created |
| `StatefulSetTemplate`, a claim with a name | `ValidPod` (excluded by `storage.name`) | the mount goes on naming the default volume, so no pod can be created |
| `StatefulSetTemplate`, another storage class | none: not part of `SameVolume` | the change is marked as deployed but only the name, access modes and resources of a claim are compared |

On scale up without recovery `ScalingdownPods` is negative for a while. The startup
probe asks `/health/live`, not the `/health/started` of its comment.

## 4. What is proved

### The loop

For every number of pods, every set of specs and edits, every assignment of
transactions and every kind and number of failures (the assumptions are those on
the constants of `WildFlyServerController`, that they are of the right type):

* `TypeCorrect`: `Spec => []TypeOK`. `TypeOK` is inductive as it stands. The step
  that is not immediate is the update of the StatefulSet: the calculated size is a
  difference of two cardinalities, and lies in `0 .. MaxPods` because the counted
  pods are among the listed ones (`CalculatedReplicaSizeBound`).
* `ListCovers`: `Spec => []ListCoversStatefulSet`. A pass only gets past the pod
  list if there are at least as many pods as replicas (`PodsOutOfSync`); from then
  on nobody but the pass changes the StatefulSet, and when the pass does, it ends
  (`PassKeepsList`, `ClusterKeepsList`).
* `ShrinkIsCovered`: `Spec => ShrinkCovered`. From the invariant before: in a scale
  down the new size is the number of listed pods less the counted ones, so the loss
  is at most the counted ones, which are `CLEAN`. `ShrinkCovered` alone is not
  inductive in this sense: without `ListCoversStatefulSet` a short list would shrink
  the StatefulSet with no `CLEAN` pod at all, which is what the mutant does.

### Scale down

The promise of the operator, for any number of pods, of reductions, of transactions and
of failures, under the hypothesis `OnlyScalesDown`:

* the user does nothing but lower the size (`OnlyLowersSize`), and the recovery is
  supported. `scale_back_up` and the further counterexamples show what happens when the
  size is raised again, `rolling_update` when the image changes too;
* any API call or CLI operation may fail and the operator may end anywhere, but no pod
  is lost or fails to restart (`PodsAreNotLost`; `restart_fails`, and `podLoss` among the
  further counterexamples);
* the cache does not lag, or it does and the size is lowered once (`CacheIsCurrent`; the
  further counterexample with three pods).

Each part of the hypothesis is there because TLC shows the promise broken without it. The
theorems, each `OnlyScalesDown => (Spec => ...)`:

* `TransactionsAreNotOrphaned`, `CleanPodsAreDrained`, `CleanPodsAreOffBalancer`,
  `QuietWhenScaled`, `GoroutinesFindEntries`: the invariants of the run `scale_down`;
* `ShrinkOnlyRemovesClean`: its action property;
* `LoopImplementsContract`: `ImplementsContract`, the refinement of `ScaleDownContract`.
  `NextContract` maps every step to a step of the contract or to a stutter.

They rest on `ScaleDownInvariant`: `ScaleDownInv` is inductive together with `TypeOK` and
`ListCoversStatefulSet`. None of the properties is: a `CLEAN` entry is harmless only
because the pod under it is prepared and off the balancer or gone for good, it is gone
for good only because the StatefulSet never grows, and that needs an argument about
every copy of the entries. Its parts:

* of what is stored: sizes fall on their way from the user over the informer to the
  StatefulSet (`SpecsFall`, `SizeCovers`); the pods that are kept are not deleted, and
  the others have been prepared (`PodsInPlace`); entries are for no pod or for all, are
  `CLEAN` only for drained pods, and only for pods that no spec still in use wants
  (`EntriesGood`, for the status and for the informer's copy); without a lagging cache
  those of pods that were cut off are all `CLEAN` (`CurrentEntries`), which is the part
  that a second reduction under a lagging cache breaks;
* of the pass: it works for a spec that was once shown, with true entries (`PassHolds`,
  `PassCurrent`), its list has every pod and what it shows of their preparation is
  still so (`ListHolds`), the goroutines work on pods that go (`WorkersHold`), and what
  it leaves behind is done or asked for again (`PassProgress`).

Most steps leave the StatefulSet and the pods it keeps alone and, of the others, only
take pods and labels away; `Thins` collects what such a step may do, and the invariant
is shown to survive any step of that kind once. The step that carries the weight is the
update of the StatefulSet (`UpdateShrinks`): what the calculated size cuts off is
`CLEAN`, and it is not below the spec (`CalculatedCovers`) nor above the present size
(`CalculatedWithin`). `TailIsAbove` says that the pods whose label is taken away are
ones that go. The invariant was checked with TLC on three pods with and without a
lagging cache, and on four, first.

### The recovery of one pod

For every set of transactions and heuristic ones, every recovery port, every
`RestartRetryCounter` (0 included) and any number of failures:

* `TypeCorrect`: `Spec => []TypeOK`; in particular there is no third check.
* `CleanIsReliable`: `Spec => []CleanIsFinishedUnlessMisled`, the verdict of the code.
  The property speaks of the verdict only; the inductive invariant `Inv` says why it
  is true at the moment it is given and stays true. As long as nothing misleading has
  happened: the properties are set together and the annotation is only there when the
  server was stopped after they were (`AnnotationIsTrue`; a server that is told to restart stops
  before anybody asks it again, `StopsAtOnce`), so from the restart on no
  transaction is active and none can begin (`DrainedInPass`); hence the log, the
  directory and the orphans only get smaller, one scan empties the first two and meets
  all orphans (`OneScan`), the second removes them and the probe after it shows
  whatever heuristic transaction is left (`TwoScans`, `FirstCheck`); an outcome "clean"
  of the second check, and the `CLEAN` written from it, are true (`VerdictIsTrue`).
  `Drained` in the last part is what keeps a `CLEAN` pod from getting a transaction.
  `Inv` was checked with TLC on the instance of the run `recovery` first.

### The other resources

For every set of clusters, of informers that lag, of labels and of hosts, and any
number of edits and failures of every kind:

* `TypeCorrect`: `Spec => []TypeOK`. It takes counting the edits (`EditsAreCounted`):
  a generation is at most one more than their number, and so is every marker.
* `StatusFollows`: `Spec => []StatusFollowsResources`. The pass compares the marker an
  informer shows, not the object, so the property is not inductive. `Inv` adds what
  makes the comparison good enough: generations only grow on their way from the user
  over the cache and the pass to the markers (`ReadsAreOld`, `MarkersAreOld`), a marker
  is never behind what its informer shows (`MarkersGrow`), and an object that only its
  informer still shows is one of an older generation, as the operator deletes a service
  only when it could not be updated (`DeletedWereOld`). So a marker that reads as
  current is the one in the API server (`PassesObject`), and stays so for the pass
  (`PassedAreDone`). `ObjectStep` and `NoObjectStep` carry the argument for all
  actions. `Inv` was checked with TLC on the clusters of the run `owned_resources` first.
* `QuietWhenAllDone`: `NothingOverlooked => (Spec => []QuietOnlyWhenAllDone)`. Every
  informer but that of the route may lag, and everything may fail but the discovery of
  ServiceMonitors (`NothingOverlooked`; both exceptions are among the further
  counterexamples). `QuietInv` says what the end of a pass can rely on: what the pass has
  got past is done for the `WildFlyServer` it works for (`PassedRoute`, `PassedMonitor`,
  `PassedAreDone`), and unless a request is queued that one is the one the informer shows
  (`WorksForShown`); so an operator without work has done what its cache asks for
  (`IdleIsDone`). When the informer catches up it queues a request. `QuietInv` was
  checked with TLC on four clusters and two edits first.

### The StatefulSet and the helpers

For every set of specs, environments, labels and pod names, any label length and any
number of edits (the assumptions on the constants of `StatefulSetTemplate` say that
specs are well-formed, that pod names have a number, and that the fixed words are
lower-case):

* `TypeCorrect`, `DeployedWhenCurrent` (`CurrentMeansDeployed`), `ProbesDoAsAsked`,
  `DataStaysOnVolume`, `PodsStayCreatable` (`PodsCanBeCreated`), `PodsStayInOrder`, from
  the inductive `TemplateInv`. The marker alone says little; `TemplateInv` adds that the
  StatefulSet was written for *some* spec the user gave, template and volume, and for
  the present one when the generations agree (`SetIsOld`), and the same of the pass
  (`PassIsOld`). The step that needs it is the update, which writes the template and the
  marker but leaves the claims: they fit because the pass has compared them.
* `DeletedForStorageOnly`: `StorageIsCanonical => (Spec => DeletedOnlyForStorage)`: sizes
  are given in the form in which they are written back. `same_storage` shows the others.
* `PodsStayOwned`: `MarkersAreOurs => (Spec => []MarkedPodsStayOwned)`: neither the
  user's labels nor those of the operator's deployment contain the two markers.
* `SortPutsInOrder` and `SanitizedIsLabel` in `GoUtilitiesProofs`: for lists and names of
  every length, sorting keeps the pods and orders them by number, and a sanitized name
  is empty or a DNS label that begins as it did. The helpers are recursive functions on
  `0 .. Len(s)`. What they compute is proved by induction on the prefix, with the set of
  the prefixes for which the claim fails in place of a predicate: if it is not empty it
  has a least element (`LeastElement`, `Induction`).

### What is not proved

`WildFlyServerController`'s constants include `LaggingCache` and the images: the theorems
under "The loop" hold with a cache that lags and with rolling updates.

Every invariant and action property of the passing runs is stated by a theorem, some
under the hypotheses named above. Only model-checked is what is temporal under
fairness (`Converges`, `BecomesClean`, `ResourcesConverge`, `NothingLeftBehind`), which
is out of the prover's reach, as `ENABLED` is. A scale down in several steps under a
cache that lags is not proved because it is not safe; one in a single step is, for any
number of pods.

## 5. Not modelled

* in the loop's model, the restart of a container in place, and caches of the
  StatefulSet and of the pods that lag; in both models an informer that catches up with
  some of several writes;
* a change of the operator's own environment while StatefulSets exist, and two operator
  processes at a time: leader election is an option of `main.go` that is off by default,
  and the models assume one process;
* direct edits of the StatefulSet, of the services or of the status;
* pod IP addresses (only that a missing one asks for another pass), the recovery counter
  (only that it forces a status write), the selector in the status;
* how JSON is found in the CLI's output and taken apart, the conversions of untyped
  values and the readers of environment variables: they keep no state, and the models
  take an answer to be read or not. `RemoveFromList`, `resources.UpdateStatus`, `matches`
  and `errorIsNoMatchesForKind` are not called;
* fields that are constants or copied from the spec unchanged: ports, weights, session
  affinity, resources, security context, service account, `envFrom`, annotations;
* start-up and generated code.

## 6. Plan

1. *done*: the loop, its contract and its theorems; cached reads and rolling updates; the
   safety of a scale down and the refinement of the contract.
2. *done*: `TransactionRecovery`, its run and its theorems. Left of it: that it
   implements the atomic steps of the loop (`SetupRecoveryPropertiesAndRestart` and
   `RecoverPod` for one pod).
3. *done*: `OwnedResources` and its theorems. Left: what of `NothingLeftBehind` is safety.
4. *done*: `StatefulSetTemplate`, `GoUtilities` and their theorems. Left: that the sorted
   list is a permutation, pod names being different from each other in the code.
