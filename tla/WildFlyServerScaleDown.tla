----------------------- MODULE WildFlyServerScaleDown -----------------------
(***************************************************************************)
(* When a scale down is safe: what the user and the cluster may do, and    *)
(* what then holds of the stored objects and of a pass at every moment.    *)
(* WildFlyServerScaleDownProofs shows that the invariant is inductive.     *)
(***************************************************************************)
EXTENDS WildFlyServerController

-----------------------------------------------------------------------------
(* The environment in which a scale down is promised to be safe.           *)

\* The user does nothing but lower the size, and transactions are recovered.
OnlyLowersSize ==
    /\ InitialSpec.recovery = "supported"
    /\ \A e \in Edits : /\ e[2].replicas <= e[1].replicas
                        /\ e[2].recovery = e[1].recovery
                        /\ e[2].volume = e[1].volume /\ e[2].image = e[1].image

\* No pod is lost, and servers that are told to restart do.
PodsAreNotLost == FaultKinds \subseteq {"api", "exec", "crash"}

\* The cache does not lag, or it lags while the size is lowered once.
CacheIsCurrent == ~LaggingCache \/ MaxGeneration <= 2

OnlyScalesDown == OnlyLowersSize /\ PodsAreNotLost /\ CacheIsCurrent

-----------------------------------------------------------------------------
(* The inductive invariant.  First what is stored, and what the informer   *)
(* shows of it.                                                            *)

\* The WildFlyServer as it is stored.
Stored == [spec |-> spec, generation |-> generation, pods |-> statusPods,
           scaling |-> scalingdownPods, replicas |-> statusReplicas]

\* The ordinals that the StatefulSet keeps.
Kept == 0 .. sts.replicas - 1

\* The pods that have no transaction and get none, if they are there at all.
Drained == {p \in Ordinals : /\ p \notin indoubt \cup heuristics
                             /\ p \in pods => p \in prepared /\ p \notin connected}

\* A version of the WildFlyServer, as the user has written it.
UsersSpec(s, g) == /\ g >= 1 /\ s.recovery = "supported"
                   /\ s.volume = InitialSpec.volume /\ s.image = InitialSpec.image
                   /\ g = 1 => s = InitialSpec

\* An earlier version asks for at least as many pods.
Before(s, g, later, h) == /\ g <= h /\ later.replicas <= s.replicas
                          /\ g = h => s = later

\* What the informer shows is what the user wrote last or before: sizes only fall.
SpecsFall ==
    /\ UsersSpec(spec, generation) /\ UsersSpec(Shown.spec, Shown.generation)
    /\ Before(Shown.spec, Shown.generation, spec, generation)

\* The StatefulSet is not smaller than anybody asks for, nor newer than what is shown;
\* the first generation has not been scaled down.
SizeCovers ==
    sts.exists =>
        /\ Shown.spec.replicas <= sts.replicas
        /\ 1 <= sts.generation /\ sts.generation <= Shown.generation
        /\ sts.generation = 1 => sts.replicas = InitialSpec.replicas /\ pods \subseteq Kept
        /\ sts.volume = InitialSpec.volume /\ sts.image = InitialSpec.image

Empty(entries) == \A p \in Ordinals : entries[p] = NoEntry

\* Before there is a StatefulSet there is nothing.
NothingBefore ==
    ~sts.exists =>
        /\ pods = {} /\ indoubt = {} /\ heuristics = {} /\ sts.replicas = 0
        /\ Empty(statusPods) /\ scalingdownPods = 0
        /\ Empty(Shown.pods) /\ Shown.scaling = 0

\* The pods that are kept are not deleted.  All of them are there before the first
\* one goes; the ones that go have been prepared for recovery.
PodsInPlace ==
    /\ terminating \cap Kept = {}
    /\ pods \subseteq Kept \/ Kept \subseteq pods
    /\ pods \subseteq Kept \cup prepared
    /\ \A p \in Ordinals : image[p] = InitialSpec.image

\* Pods with unfinished transactions are kept.
NoOrphans == indoubt \cup heuristics \subseteq Kept

\* Entries as somebody holds them, for a WildFlyServer of size n: they say of no pod that
\* it goes when it stays, and CLEAN only of one that is drained.
EntriesTrue(entries, n, drained) ==
    \A p \in Ordinals : /\ entries[p] \notin {"ACTIVE", NoEntry} => p >= n
                        /\ entries[p] = "CLEAN" => p \in drained

\* There are entries for no pod, when nothing has been scaled down, or for all.
EntriesComplete(entries, there, kept) ==
    IF Empty(entries) THEN there \subseteq kept
    ELSE kept \subseteq there /\ \A p \in there : entries[p] # NoEntry

\* Entries that were there stay, unless there is no pod any more.
EntriesStay(newer, older, there) == Empty(newer) => Empty(older) \/ there = {}

EntriesGood ==
    /\ EntriesTrue(statusPods, spec.replicas, Drained)
    /\ EntriesComplete(statusPods, pods, Kept)
    /\ EntriesTrue(Shown.pods, Shown.spec.replicas, Drained)
    /\ EntriesComplete(Shown.pods, pods, Kept)
    /\ EntriesStay(statusPods, Shown.pods, pods)

\* Every entry of a pod that has been cut off says CLEAN.
CutAreClean(entries, kept) == \A p \in Ordinals \ kept : entries[p] \in {"CLEAN", NoEntry}

\* It does, in the status, when the cache does not lag.
CurrentEntries == ~LaggingCache => ~behind /\ CutAreClean(statusPods, Kept)

ClusterInv ==
    /\ SpecsFall /\ SizeCovers /\ NothingBefore /\ PodsInPlace /\ NoOrphans
    /\ EntriesGood /\ CurrentEntries

-----------------------------------------------------------------------------
(* Then what a pass holds.                                                 *)

\* The pass has fetched the WildFlyServer; it has listed the pods.
Fetched == pc # "idle"
Listed  == pc \notin {"idle", "getStatefulSet", "listPods"}

\* The pass works for what the informer showed, with the entries that it showed.
PassHolds ==
    Fetched =>
        /\ UsersSpec(pass.spec, pass.generation)
        /\ Before(pass.spec, pass.generation, Shown.spec, Shown.generation)
        /\ sts.exists => pass.spec.replicas <= sts.replicas /\ sts.generation <= pass.generation
        /\ ~sts.exists => Empty(pass.pods) /\ pass.scaling = 0
        /\ EntriesTrue(pass.pods, pass.spec.replicas, Drained)
        /\ EntriesComplete(pass.pods, pods, Kept)
        /\ EntriesStay(Shown.pods, pass.pods, pods)
        /\ ~queued /\ ~behind => pass.generation = generation

\* Without a cache that lags, the entries of the pass are those of the status until
\* the goroutines report.
PassCurrent ==
    Fetched /\ ~LaggingCache =>
        /\ CutAreClean(pass.pods, Kept)
        /\ pass.pods = statusPods \/ (pc = "workers" /\ pass.update)

\* The list of the pass has all pods, those that are kept among them, and no other
\* when there is nothing to scale down; what it shows of the preparation of the pods
\* is still so.
ListHolds ==
    Listed =>
        /\ Kept \subseteq pods /\ pods \subseteq pass.list
        /\ Empty(pass.pods) => pass.list \subseteq Kept
        /\ ~Empty(pass.pods) => \A p \in pass.list : pass.pods[p] # NoEntry
        /\ sts.generation = 1 => pass.list \subseteq Kept
        /\ sts.replicas = pass.spec.replicas => pass.list \subseteq Kept
        /\ pass.prepared \cap pods \subseteq prepared
        /\ pc = "setLabel" => connected \subseteq pass.connected
        /\ pc = "processRecovery" => ScaleDownPods \cap connected = {}

\* The goroutines work on pods that go, have no label and no verdict yet.
WorkersHold ==
    /\ pc # "workers" => pass.setup = {} /\ pass.check = {}
    /\ pc = "workers" =>
          /\ ~Empty(pass.pods)
          /\ pass.setup \cap pass.check = {}
          /\ \A p \in pass.setup \cup pass.check :
                /\ p >= pass.spec.replicas /\ p \notin connected
                /\ pass.pods[p] \notin {"CLEAN", NoEntry}
          /\ pass.check \cap pods \subseteq prepared

\* What the pass has got done, and what it has to come back for.
PassProgress ==
    /\ pc \in {"resources", "updateStatus"} =>
          sts.generation = pass.generation /\ (sts.replicas = pass.spec.replicas \/ pass.again)
    /\ pc = "updateStatus" => resourcesGeneration = pass.generation

PassInv == PassHolds /\ PassCurrent /\ ListHolds /\ WorkersHold /\ PassProgress

\* While the user only lowers the size, the StatefulSet, its pods, their transactions,
\* the status, the informer's picture of it, and all that a pass of the operator has
\* read and still relies on fit together: nothing read earlier has become wrong in a
\* way that matters when the pass acts on it.
ScaleDownInv == ClusterInv /\ PassInv /\ QuietOnlyWhenScaled
=============================================================================
