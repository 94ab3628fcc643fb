------------------------- MODULE OwnedResourcesProofs -------------------------
(***************************************************************************)
(* Theorems about the owned objects, for every set of clusters and of      *)
(* informers that lag, every set of labels and hosts, and any number of    *)
(* edits and failures.                                                     *)
(***************************************************************************)
EXTENDS OwnedResources, TLAPS

-----------------------------------------------------------------------------
(* The inductive invariant.  Generations only grow, on the way from the    *)
(* user over the cache and the pass to the markers.                        *)

\* The edits of the spec are among the counted ones.
EditsAreCounted == server.generation <= edits + 1

\* The cache shows the WildFlyServer as it was, and a pass works with what it showed.
ReadsAreOld == /\ cache.server.generation <= server.generation
               /\ pass.server.generation <= cache.server.generation

\* The generation that the pass works for, or that the next one would at least.
Floor == IF pc = "idle" THEN cache.server.generation ELSE pass.server.generation

\* No marker is ahead of it, so no informer shows a marker from the future.
MarkersAreOld == \A o \in Objects : store[o] <= Floor

\* An object that is there has the marker its informer shows, or a later one.
MarkersGrow == \A o \in Objects : store[o] = 0 \/ cache.store[o] <= store[o]

\* An object that only its informer still shows had not been brought up to date: a
\* service is deleted by the operator when its update is refused.
DeletedWereOld ==
    server.exists /\ ~disturbed =>
        \A o \in Marked : store[o] = 0 /\ cache.store[o] # 0 => cache.store[o] < Floor

\* The steps a pass takes once it has passed an object.
AfterAdmin == {"route", "monitor", "status"}
After == [statefulSet |-> {"cluster", "headless", "admin"} \cup AfterAdmin,
          cluster     |-> {"headless", "admin"} \cup AfterAdmin,
          headless    |-> {"admin"} \cup AfterAdmin,
          admin       |-> AfterAdmin]

\* What the pass has passed is as the pass asks.
PassedAreDone ==
    server.exists /\ ~disturbed =>
        \A o \in Marked : pc \in After[o] => store[o] = pass.server.generation

Inv == /\ EditsAreCounted
       /\ ReadsAreOld
       /\ MarkersAreOld
       /\ MarkersGrow
       /\ DeletedWereOld
       /\ PassedAreDone

-----------------------------------------------------------------------------
(* Types.                                                                  *)

ServerOK == /\ platform \in Platforms
            /\ edits \in 0 .. MaxEdits
            /\ server \in ServerType
StoreOK  == /\ store \in Marks
            /\ referenced \subseteq Objects
            /\ selector \in LabelSets
            /\ ingress \in SUBSET Hosts
CacheOK  == cache \in [server : ServerType, store : Marks, ingress : SUBSET Hosts]
PassOK   == /\ queued \in BOOLEAN
            /\ pc \in Steps
            /\ pass \in [server : ServerType, ingress : SUBSET Hosts]
FaultsOK == disturbed \in BOOLEAN /\ faults \in 0 .. MaxFaults

\* The type invariant, part by part.
LEMMA TypeParts == TypeOK <=> ServerOK /\ StoreOK /\ CacheOK /\ PassOK /\ FaultsOK
  BY DEF TypeOK, ServerOK, StoreOK, CacheOK, PassOK, FaultsOK

\* A new WildFlyServer is one.
LEMMA NewServerType == NewServer \in ServerType
  BY MaxEditsAssumption, LabelsAssumption DEF NewServer, ServerType, Generations

\* The operator starts with an empty cluster and a WildFlyServer in its queue.
LEMMA TypeInit == Init => TypeOK /\ EditsAreCounted
<1> SUFFICES ASSUME Init PROVE TypeOK /\ EditsAreCounted
  OBVIOUS
<1>1. NewServer \in ServerType /\ NoMarks \in Marks
  BY NewServerType DEF NoMarks, Marks
<1>2. ServerOK /\ StoreOK
  BY <1>1, MaxEditsAssumption, LabelsAssumption DEF Init, ServerOK, StoreOK
<1>3. CacheOK
  BY <1>1 DEF Init, CacheOK
<1>4. PassOK
  BY <1>1 DEF Init, PassOK, NoPass, Steps
<1>5. FaultsOK
  <2>1. disturbed \in BOOLEAN
    BY Zenon DEF Init
  <2>2. faults \in 0 .. MaxFaults
    BY FaultsAssumption DEF Init
  <2> QED
    BY <2>1, <2>2 DEF FaultsOK
<1>6. EditsAreCounted
  BY DEF Init, EditsAreCounted, NewServer
<1> QED
  BY <1>2, <1>3, <1>4, <1>5, <1>6, TypeParts

\* Failures are counted within their bound.
LEMMA FaultType == ASSUME faults \in 0 .. MaxFaults, NoFault \/ \E kind : Fail(kind)
                   PROVE  faults' \in 0 .. MaxFaults
  BY FaultsAssumption DEF NoFault, Fail

\* The informers show what was given to them.
LEMMA PublishType ==
    ASSUME CacheOK, NEW srv \in ServerType, NEW marks \in Marks, NEW hosts \in SUBSET Hosts,
           Publish(srv, marks, hosts)
    PROVE  CacheOK'
<1> DEFINE newServer == IF "server" \in platform.lagging THEN cache.server ELSE srv
           newStore  == [o \in Objects |-> IF o \in platform.lagging THEN cache.store[o] ELSE marks[o]]
           newHosts  == IF "route" \in platform.lagging THEN cache.ingress ELSE hosts
<1>1. newServer \in ServerType /\ newHosts \in SUBSET Hosts
  BY DEF CacheOK
<1>2. newStore \in Marks
  BY DEF CacheOK, Marks
<1>3. cache' = [server |-> newServer, store |-> newStore, ingress |-> newHosts]
  BY DEF Publish
<1> HIDE DEF newServer, newStore, newHosts
<1> QED
  BY <1>1, <1>2, <1>3 DEF CacheOK

\* A write puts one marker into the store.
LEMMA WriteType ==
    ASSUME ServerOK, StoreOK, CacheOK, NEW o \in Objects, NEW mark \in Generations \cup {0},
           Write(o, mark)
    PROVE  /\ store' \in Marks /\ ingress' \in SUBSET Hosts /\ CacheOK'
<1>1. store' \in Marks /\ ingress' \in SUBSET Hosts
  BY DEF Write, StoreOK, Marks
<1> QED
  BY <1>1, PublishType DEF Write, ServerOK

\* A pass that ends leaves nothing.
LEMMA ReturnType == ASSUME PassOK, NEW requeue \in BOOLEAN, Return(requeue) PROVE PassOK'
  BY NewServerType DEF PassOK, Return, NoPass, Steps

\* A pass that goes on keeps what it has read.
LEMMA GotoType == ASSUME PassOK, NEW step \in Steps, Goto(step) PROVE PassOK'
  BY DEF PassOK, Goto

\* Without a write the objects and the cache stay.
LEMMA NoWriteType == ASSUME StoreOK, CacheOK, NoWrite PROVE StoreOK' /\ CacheOK'
  BY DEF StoreOK, CacheOK, NoWrite, storeVars

\* An error, or the wish for another pass.
LEMMA EndPassType == ASSUME StoreOK, CacheOK, PassOK, EndPass PROVE StoreOK' /\ CacheOK' /\ PassOK'
  BY NoWriteType, ReturnType DEF EndPass

\* The marker is the generation of a WildFlyServer.
LEMMA MarkerType == PassOK => Marker \in Generations
  BY DEF PassOK, Marker, ServerType

\* Create, whether it is done, refused or fails.
LEMMA CreateType ==
    ASSUME ServerOK, StoreOK, CacheOK, PassOK, faults \in 0 .. MaxFaults,
           NEW o \in Objects, Create(o)
    PROVE  StoreOK' /\ CacheOK' /\ PassOK' /\ faults' \in 0 .. MaxFaults
<1>1. faults' \in 0 .. MaxFaults
  BY FaultType DEF Create
<1>2. CASE EndPass
  BY <1>1, <1>2, EndPassType
<1>3. CASE /\ Write(o, Marker) /\ referenced' = ReferencedBy(o) /\ Return(TRUE)
           /\ selector' = IF o = "statefulSet" THEN pass.server.labels ELSE selector
  <2>1. store' \in Marks /\ ingress' \in SUBSET Hosts /\ CacheOK'
    BY <1>3, WriteType, MarkerType
  <2>2. referenced' \subseteq Objects /\ selector' \in LabelSets
    BY <1>3 DEF StoreOK, ReferencedBy, PassOK, ServerType
  <2>3. PassOK'
    BY <1>3, ReturnType
  <2> QED
    BY <1>1, <2>1, <2>2, <2>3 DEF StoreOK
<1> QED
  BY <1>2, <1>3 DEF Create

\* Update, whether it is done, refused or fails.
LEMMA UpdateType ==
    ASSUME ServerOK, StoreOK, CacheOK, PassOK, faults \in 0 .. MaxFaults,
           NEW o \in Objects, Update(o)
    PROVE  StoreOK' /\ CacheOK' /\ PassOK' /\ faults' \in 0 .. MaxFaults
<1>1. faults' \in 0 .. MaxFaults
  BY FaultType DEF Update
<1>2. CASE EndPass
  BY <1>1, <1>2, EndPassType
<1>3. CASE Write(o, Marker) /\ UNCHANGED <<referenced, selector>> /\ Return(TRUE)
  <2>1. store' \in Marks /\ ingress' \in SUBSET Hosts /\ CacheOK'
    BY <1>3, WriteType, MarkerType
  <2>2. PassOK'
    BY <1>3, ReturnType
  <2> QED
    BY <1>1, <1>3, <2>1, <2>2 DEF StoreOK
<1> QED
  BY <1>2, <1>3 DEF Update

\* The steps of the operator.
LEMMA ReconcileType ==
    ASSUME ServerOK, StoreOK, CacheOK, PassOK, FaultsOK, Reconcile
    PROVE  ServerOK' /\ StoreOK' /\ CacheOK' /\ PassOK' /\ FaultsOK'
<1> DEFINE Goal == ServerOK' /\ StoreOK' /\ CacheOK' /\ PassOK' /\ FaultsOK'
<1>0. faults \in 0 .. MaxFaults
  BY DEF FaultsOK
<1>1. CASE FetchWildFlyServer
  <2>1. ServerOK' /\ StoreOK' /\ CacheOK'
    BY <1>1, NoWriteType DEF FetchWildFlyServer, ServerOK
  <2>2. faults' \in 0 .. MaxFaults
    BY <1>1, <1>0, FaultType DEF FetchWildFlyServer
  <2>3. disturbed' \in BOOLEAN
    BY <1>1 DEF FetchWildFlyServer
  <2>4. PassOK'
    BY <1>1, NewServerType DEF FetchWildFlyServer, PassOK, CacheOK, NoPass, Steps
  <2> QED
    BY <2>1, <2>2, <2>3, <2>4 DEF FaultsOK
<1>2. ASSUME UNCHANGED <<platform, edits, server>> PROVE ServerOK'
  BY <1>2 DEF ServerOK
<1>3. ASSUME UNCHANGED disturbed, faults' \in 0 .. MaxFaults PROVE FaultsOK'
  BY <1>3 DEF FaultsOK
<1>4. CASE ReconcileStatefulSet
  <2>1. faults' \in 0 .. MaxFaults /\ StoreOK' /\ CacheOK' /\ PassOK'
    <3>1. CASE Create("statefulSet") \/ Update("statefulSet")
      BY <3>1, <1>0, CreateType, UpdateType DEF Objects, Marked
    <3>2. CASE (NoFault \/ Fail("api")) /\ EndPass
      BY <3>2, <1>0, FaultType, EndPassType
    <3>3. CASE NoFault /\ Goto("cluster") /\ NoWrite
      BY <3>3, <1>0, FaultType, GotoType, NoWriteType DEF Steps
    <3> QED
      BY <1>4, <3>1, <3>2, <3>3 DEF ReconcileStatefulSet
  <2> QED
    BY <1>2, <1>3, <1>4, <2>1 DEF ReconcileStatefulSet
<1>5. ASSUME NEW s \in Services, CreateOrUpdateService(s) PROVE Goal
  <2>1. faults' \in 0 .. MaxFaults /\ StoreOK' /\ CacheOK' /\ PassOK'
    <3>1. CASE Create(s) \/ Update(s)
      BY <3>1, <1>0, CreateType, UpdateType DEF Objects, Marked
    <3>2. CASE (Fail("invalid") \/ Fail("api")) /\ EndPass
      BY <3>2, <1>0, FaultType, EndPassType
    <3>3. CASE /\ Fail("invalid") /\ Write(s, 0) /\ UNCHANGED <<referenced, selector>>
               /\ Return(TRUE)
      <4>1. store' \in Marks /\ ingress' \in SUBSET Hosts /\ CacheOK'
        BY <3>3, WriteType DEF Objects, Marked
      <4>2. PassOK' /\ faults' \in 0 .. MaxFaults
        BY <3>3, <1>0, ReturnType, FaultType
      <4> QED
        BY <3>3, <4>1, <4>2 DEF StoreOK
    <3>4. CASE NoFault /\ Goto(NextStep[s]) /\ NoWrite
      <4>1. NextStep[s] \in Steps
        BY DEF NextStep, Steps, Services
      <4> QED
        BY <3>4, <4>1, <1>0, FaultType, GotoType, NoWriteType
    <3> QED
      BY <1>5, <3>1, <3>2, <3>3, <3>4 DEF CreateOrUpdateService
  <2> QED
    BY <1>2, <1>3, <1>5, <2>1 DEF CreateOrUpdateService
<1>6. CASE GetOrCreateNewRoute
  <2>1. faults' \in 0 .. MaxFaults /\ StoreOK' /\ CacheOK' /\ PassOK'
    <3>1. CASE Create("route")
      BY <3>1, <1>0, CreateType DEF Objects
    <3>2. ASSUME NEW hosts \in SUBSET Hosts, NoFault \/ Fail("routeRead"), RouteRead(hosts)
          PROVE  faults' \in 0 .. MaxFaults /\ StoreOK' /\ CacheOK' /\ PassOK'
      <4>1. faults' \in 0 .. MaxFaults /\ StoreOK' /\ CacheOK'
        BY <3>2, <1>0, FaultType, NoWriteType DEF RouteRead
      <4>2. PassOK'
        BY <3>2 DEF RouteRead, PassOK, Steps
      <4> QED
        BY <4>1, <4>2
    <3>3. cache.ingress \in SUBSET Hosts /\ {} \in SUBSET Hosts
      BY DEF CacheOK
    <3> QED
      BY <1>6, <3>1, <3>2, <3>3 DEF GetOrCreateNewRoute
  <2> QED
    BY <1>2, <1>3, <1>6, <2>1 DEF GetOrCreateNewRoute
<1>7. CASE DeleteExistingRoute
  <2>1. faults' \in 0 .. MaxFaults /\ StoreOK' /\ CacheOK' /\ PassOK'
    <3>1. CASE NoFault /\ Goto("monitor") /\ NoWrite
      BY <3>1, <1>0, FaultType, GotoType, NoWriteType DEF Steps
    <3>2. CASE NoFault /\ Write("route", 0) /\ UNCHANGED <<referenced, selector>> /\ AfterDeletion
      <4>1. store' \in Marks /\ ingress' \in SUBSET Hosts /\ CacheOK'
        BY <3>2, WriteType DEF Objects
      <4>2. PassOK' /\ faults' \in 0 .. MaxFaults
        BY <3>2, <1>0, GotoType, FaultType DEF AfterDeletion, Steps
      <4> QED
        BY <3>2, <4>1, <4>2 DEF StoreOK
    <3>3. CASE (NoFault \/ Fail("api")) /\ EndPass
      BY <3>3, <1>0, FaultType, EndPassType
    <3> QED
      BY <1>7, <3>1, <3>2, <3>3 DEF DeleteExistingRoute
  <2> QED
    BY <1>2, <1>3, <1>7, <2>1 DEF DeleteExistingRoute
<1>8. CASE SkipRoute
  <2>1. faults' \in 0 .. MaxFaults /\ StoreOK' /\ CacheOK' /\ PassOK'
    BY <1>8, <1>0, FaultType, GotoType, NoWriteType DEF SkipRoute, Steps
  <2> QED
    BY <1>2, <1>3, <1>8, <2>1 DEF SkipRoute
<1>9. CASE GetOrCreateNewServiceMonitor
  <2>1. faults' \in 0 .. MaxFaults /\ StoreOK' /\ CacheOK' /\ PassOK'
    <3>1. CASE Create("monitor")
      BY <3>1, <1>0, CreateType DEF Objects
    <3>2. CASE (NoFault \/ Fail("monitorRead")) /\ Goto("status") /\ NoWrite
      BY <3>2, <1>0, FaultType, GotoType, NoWriteType DEF Steps
    <3> QED
      BY <1>9, <3>1, <3>2 DEF GetOrCreateNewServiceMonitor
  <2> QED
    BY <1>2, <1>3, <1>9, <2>1 DEF GetOrCreateNewServiceMonitor
<1>10. CASE UpdateStatus
  <2>1. PassOK' /\ faults' \in 0 .. MaxFaults /\ StoreOK'
    BY <1>10, <1>0, ReturnType, FaultType DEF UpdateStatus, storeVars, StoreOK
  <2>2. ServerOK' /\ CacheOK'
    <3>1. CASE UNCHANGED <<server, cache>>
      BY <1>10, <3>1 DEF UpdateStatus, ServerOK, CacheOK
    <3>2. CASE server' = [server EXCEPT !.hosts = NewHosts] /\ Publish(server', store, ingress)
      <4>1. NewHosts \in SUBSET Hosts
        BY DEF NewHosts, PassOK
      <4>2. server' \in ServerType
        BY <3>2, <4>1 DEF ServerOK, ServerType
      <4>3. CacheOK'
        BY <3>2, <4>2, PublishType DEF StoreOK
      <4> QED
        BY <1>10, <4>2, <4>3 DEF UpdateStatus, ServerOK
    <3> QED
      BY <1>10, <3>1, <3>2 DEF UpdateStatus
  <2> QED
    BY <1>3, <1>10, <2>1, <2>2 DEF UpdateStatus
<1> QED
  BY <1>1, <1>4, <1>5, <1>6, <1>7, <1>8, <1>9, <1>10 DEF Reconcile

\* What the user does to the WildFlyServer.
LEMMA ServerBecomesType ==
    ASSUME StoreOK, CacheOK, PassOK, FaultsOK, NEW srv \in ServerType, ServerBecomes(srv)
    PROVE  server' \in ServerType /\ StoreOK' /\ CacheOK' /\ PassOK' /\ FaultsOK'
<1>1. server' \in ServerType /\ StoreOK' /\ FaultsOK'
  BY DEF ServerBecomes, storeVars, StoreOK, FaultsOK
<1>2. CacheOK'
  BY PublishType DEF ServerBecomes, StoreOK
<1>3. PassOK'
  BY DEF ServerBecomes, PassOK
<1> QED
  BY <1>1, <1>2, <1>3

\* What others do to an object.
LEMMA ObjectBecomesType ==
    ASSUME ServerOK, StoreOK, CacheOK, PassOK, NEW o \in Objects, NEW mark \in Generations \cup {0},
           NEW hosts \in SUBSET Hosts, ObjectBecomes(o, mark, hosts)
    PROVE  ServerOK' /\ StoreOK' /\ CacheOK' /\ PassOK'
<1>1. store' \in Marks
  BY DEF ObjectBecomes, StoreOK, Marks
<1>2. StoreOK'
  BY <1>1 DEF ObjectBecomes, StoreOK
<1>3. CacheOK'
  BY <1>1, PublishType DEF ObjectBecomes, ServerOK
<1>4. ServerOK' /\ PassOK'
  BY DEF ObjectBecomes, ServerOK, PassOK
<1> QED
  BY <1>2, <1>3, <1>4

\* The steps of the cluster around the operator.
LEMMA ClusterType ==
    ASSUME ServerOK, StoreOK, CacheOK, PassOK, FaultsOK, EditsAreCounted,
           \/ Crash \/ EditSpec \/ EditLabels \/ DeleteServer
           \/ Admit \/ \E h \in Hosts : Rehost(h)
           \/ \E o \in Objects : DeleteObject(o)
           \/ SyncServer \/ SyncObjects \/ GarbageCollector
    PROVE  ServerOK' /\ StoreOK' /\ CacheOK' /\ PassOK' /\ FaultsOK'
<1> DEFINE Goal == ServerOK' /\ StoreOK' /\ CacheOK' /\ PassOK' /\ FaultsOK'
<1>0. faults \in 0 .. MaxFaults /\ disturbed \in BOOLEAN /\ server \in ServerType
  BY DEF FaultsOK, ServerOK
<1>1. CASE Crash
  <2>1. ServerOK' /\ StoreOK'
    BY <1>1 DEF Crash, ServerOK, StoreOK, storeVars
  <2>2. CacheOK'
    BY <1>1 DEF Crash, ServerOK, StoreOK, CacheOK
  <2>3. PassOK' /\ faults' \in 0 .. MaxFaults
    BY <1>0, <1>1, ReturnType, FaultType DEF Crash
  <2> QED
    BY <1>0, <1>1, <2>1, <2>2, <2>3 DEF Crash, FaultsOK
<1>2. ASSUME NEW srv \in ServerType, Edit(srv) PROVE Goal
  <2>1. server' \in ServerType /\ StoreOK' /\ CacheOK' /\ PassOK' /\ FaultsOK'
    BY <1>2, ServerBecomesType DEF Edit
  <2>2. edits' \in 0 .. MaxEdits
    BY <1>2, MaxEditsAssumption DEF Edit, ServerOK
  <2>3. platform' = platform
    BY <1>2 DEF Edit, ServerBecomes
  <2> QED
    BY <2>1, <2>2, <2>3 DEF ServerOK
<1>3. CASE EditSpec
  <2>1. PICK disable \in BOOLEAN :
            Edit([server EXCEPT !.generation = @ + 1, !.disableHTTPRoute = disable])
    BY <1>3 DEF EditSpec
  <2>2. server.generation + 1 \in Generations
    BY <1>0, <2>1, MaxEditsAssumption DEF Edit, EditsAreCounted, ServerOK, ServerType, Generations
  <2>3. [server EXCEPT !.generation = @ + 1, !.disableHTTPRoute = disable] \in ServerType
    BY <1>0, <2>2 DEF ServerType
  <2> QED
    BY <1>2, <2>1, <2>3
<1>4. CASE EditLabels
  <2>1. PICK e \in LabelEdits : Edit([server EXCEPT !.labels = e[2]])
    BY <1>4 DEF EditLabels
  <2>2. [server EXCEPT !.labels = e[2]] \in ServerType
    BY <1>0, LabelsAssumption DEF ServerType
  <2> QED
    BY <1>2, <2>1, <2>2
<1>5. CASE DeleteServer
  <2>1. [server EXCEPT !.exists = FALSE] \in ServerType
    BY <1>0 DEF ServerType
  <2>2. server' \in ServerType /\ StoreOK' /\ CacheOK' /\ PassOK' /\ FaultsOK'
    BY <1>5, <2>1, ServerBecomesType DEF DeleteServer
  <2>3. UNCHANGED <<platform, edits>>
    BY <1>5 DEF DeleteServer, ServerBecomes
  <2> QED
    BY <2>2, <2>3 DEF ServerOK
<1>6. ASSUME NEW o \in Objects, NEW hosts \in SUBSET Hosts,
             ObjectBecomes(o, 0, hosts) \/ ObjectBecomes(o, store[o], hosts)
      PROVE  ServerOK' /\ StoreOK' /\ CacheOK' /\ PassOK'
  <2>1. store[o] \in Generations \cup {0}
    BY DEF StoreOK, Marks
  <2> QED
    BY <1>6, <2>1, ObjectBecomesType
<1>7. ASSUME NEW o \in Objects, Deletion(o) PROVE ServerOK' /\ StoreOK' /\ CacheOK' /\ PassOK'
  BY <1>6, <1>7 DEF Deletion, StoreOK
<1>8. CASE Admit
  <2>1. ServerOK' /\ StoreOK' /\ CacheOK' /\ PassOK'
    BY <1>6, <1>8, HostsAssumption DEF Admit, Objects
  <2> QED
    BY <1>8, <2>1 DEF Admit, FaultsOK
<1>9. ASSUME NEW h \in Hosts, Rehost(h) PROVE Goal
  <2>1. ServerOK' /\ StoreOK' /\ CacheOK' /\ PassOK'
    BY <1>6, <1>9 DEF Rehost, Objects
  <2>2. faults' \in 0 .. MaxFaults
    BY <1>0, <1>9, FaultType DEF Rehost
  <2>3. disturbed' \in BOOLEAN
    BY <1>9, Zenon DEF Rehost
  <2> QED
    BY <2>1, <2>2, <2>3 DEF FaultsOK
<1>10. ASSUME NEW o \in Objects, DeleteObject(o) PROVE Goal
  <2>1. ServerOK' /\ StoreOK' /\ CacheOK' /\ PassOK'
    BY <1>7, <1>10 DEF DeleteObject
  <2>2. faults' \in 0 .. MaxFaults
    BY <1>0, <1>10, FaultType DEF DeleteObject
  <2>3. disturbed' \in BOOLEAN
    BY <1>10, Zenon DEF DeleteObject
  <2> QED
    BY <2>1, <2>2, <2>3 DEF FaultsOK
<1>11. CASE GarbageCollector
  <2>1. PICK o \in Objects : Collect(o)
    BY <1>11 DEF GarbageCollector
  <2> QED
    BY <1>7, <2>1 DEF Collect, FaultsOK
<1>12. CASE SyncServer
  <2>1. ServerOK' /\ StoreOK' /\ FaultsOK'
    BY <1>12 DEF SyncServer, ServerOK, StoreOK, storeVars, FaultsOK
  <2>2. CacheOK'
    BY <1>12 DEF SyncServer, ServerOK, CacheOK
  <2>3. PassOK'
    BY <1>12 DEF SyncServer, PassOK
  <2> QED
    BY <2>1, <2>2, <2>3
<1>13. CASE SyncObjects
  <2>1. PICK o \in Objects : SyncObject(o)
    BY <1>13 DEF SyncObjects
  <2>2. ServerOK' /\ StoreOK' /\ FaultsOK'
    BY <2>1 DEF SyncObject, ServerOK, StoreOK, storeVars, FaultsOK
  <2>3. CacheOK'
    BY <2>1 DEF SyncObject, StoreOK, CacheOK, Marks
  <2>4. PassOK'
    BY <2>1 DEF SyncObject, PassOK
  <2> QED
    BY <2>2, <2>3, <2>4
<1> QED
  BY <1>1, <1>3, <1>4, <1>5, <1>8, <1>9, <1>10, <1>11, <1>12, <1>13

\* Only an edit of the spec changes the generation, and it is counted.
LEMMA EditsCounted ==
    ASSUME TypeOK, EditsAreCounted, [Next]_vars
    PROVE  EditsAreCounted'
<1>0. server \in ServerType /\ server.generation \in Int /\ edits \in Int
  BY MaxEditsAssumption DEF TypeOK, ServerType, Generations
<1>1. CASE UNCHANGED <<server, edits>>
  BY <1>1 DEF EditsAreCounted
<1>2. CASE EditSpec
  BY <1>0, <1>2 DEF EditSpec, Edit, ServerBecomes, EditsAreCounted, ServerType
<1>3. CASE EditLabels
  BY <1>0, <1>3 DEF EditLabels, Edit, ServerBecomes, EditsAreCounted, ServerType
<1>4. CASE DeleteServer
  BY <1>0, <1>4 DEF DeleteServer, ServerBecomes, EditsAreCounted, ServerType
<1>5. CASE UpdateStatus
  BY <1>0, <1>5 DEF UpdateStatus, EditsAreCounted, ServerType
<1>6. CASE UNCHANGED vars
  BY <1>1, <1>6 DEF vars
<1>7. CASE Reconcile
  BY <1>1, <1>5, <1>7
  DEF Reconcile, FetchWildFlyServer, ReconcileStatefulSet, CreateOrUpdateService,
      GetOrCreateNewRoute, DeleteExistingRoute, SkipRoute, GetOrCreateNewServiceMonitor
<1>8. CASE \/ Crash \/ Admit \/ \E h \in Hosts : Rehost(h)
           \/ \E o \in Objects : DeleteObject(o)
           \/ SyncServer \/ SyncObjects \/ GarbageCollector
  BY <1>1, <1>8
  DEF Crash, Admit, Rehost, DeleteObject, Deletion, ObjectBecomes, SyncServer, SyncObjects,
      SyncObject, GarbageCollector, Collect
<1> QED
  BY <1>2, <1>3, <1>4, <1>6, <1>7, <1>8 DEF Next

\* Every step keeps the types.
LEMMA TypeStep ==
    ASSUME TypeOK, EditsAreCounted, [Next]_vars
    PROVE  TypeOK'
<1>0. ServerOK /\ StoreOK /\ CacheOK /\ PassOK /\ FaultsOK
  BY TypeParts
<1>1. ASSUME ServerOK' /\ StoreOK' /\ CacheOK' /\ PassOK' /\ FaultsOK' PROVE TypeOK'
  BY <1>1 DEF TypeOK, ServerOK, StoreOK, CacheOK, PassOK, FaultsOK
<1>2. CASE Reconcile
  BY <1>0, <1>1, <1>2, ReconcileType
<1>3. CASE UNCHANGED vars
  BY <1>3 DEF TypeOK, vars, storeVars
<1> QED
  BY <1>0, <1>1, <1>2, <1>3, ClusterType DEF Next

\* The variables keep their types; what is not obvious is that the generation stays
\* within the edits, which takes counting them.
THEOREM TypeCorrect == Spec => []TypeOK
<1>1. TypeOK /\ EditsAreCounted /\ [Next]_vars => (TypeOK /\ EditsAreCounted)'
  BY TypeStep, EditsCounted
<1> QED
  BY <1>1, TypeInit, PTL DEF Spec

-----------------------------------------------------------------------------
(* The inductive invariant is kept.                                        *)

Numbers == /\ server.generation \in Nat \ {0}
           /\ cache.server.generation \in Nat \ {0}
           /\ pass.server.generation \in Nat \ {0}
           /\ Floor \in Nat \ {0}
           /\ \A o \in Objects : store[o] \in Nat /\ cache.store[o] \in Nat

\* Generations are numbers from 1 on, and so are the markers of the objects there are.
LEMMA TypeNumbers == ASSUME TypeOK PROVE Numbers
<1>1. Generations \subseteq Nat \ {0}
  BY MaxEditsAssumption DEF Generations
<1>2. /\ server.generation \in Nat \ {0}
      /\ cache.server.generation \in Nat \ {0}
      /\ pass.server.generation \in Nat \ {0}
  BY <1>1 DEF TypeOK, ServerType
<1>3. \A o \in Objects : store[o] \in Nat /\ cache.store[o] \in Nat
  <2>1. store \in Marks /\ cache.store \in Marks
    BY DEF TypeOK
  <2>2. Generations \cup {0} \subseteq Nat
    BY <1>1
  <2> QED
    BY <2>1, <2>2 DEF Marks
<1> QED
  BY <1>2, <1>3 DEF Numbers, Floor

\* The same after a step.
LEMMA TypeNumbersNext == ASSUME TypeOK' PROVE Numbers'
<1>1. Generations \subseteq Nat \ {0}
  BY MaxEditsAssumption DEF Generations
<1>2. /\ server'.generation \in Nat \ {0}
      /\ cache'.server.generation \in Nat \ {0}
      /\ pass'.server.generation \in Nat \ {0}
  BY <1>1 DEF TypeOK, ServerType
<1>3. \A o \in Objects : store'[o] \in Nat /\ cache'.store[o] \in Nat
  <2>1. store' \in Marks /\ cache'.store \in Marks
    BY DEF TypeOK
  <2>2. Generations \cup {0} \subseteq Nat
    BY <1>1
  <2> QED
    BY <2>1, <2>2 DEF Marks
<1> QED
  BY <1>2, <1>3 DEF Numbers, Floor

\* An informer shows the new value or what it showed.
CacheFollows == \A o \in Objects : cache'.store[o] \in {cache.store[o], store'[o]}

\* The informer of the WildFlyServer does not go back.
ServerFollows == /\ cache.server.generation <= cache'.server.generation
                 /\ cache'.server.generation <= server'.generation

\* Publish never takes an informer back to an older generation.
LEMMA PublishFollows ==
    ASSUME Numbers, ReadsAreOld, NEW hosts, Publish(server', store', hosts),
           server.generation <= server'.generation, server'.generation \in Nat
    PROVE  CacheFollows /\ ServerFollows
<1>1. cache'.server \in {cache.server, server'}
  BY DEF Publish
<1>2. CacheFollows
  BY DEF Publish, CacheFollows
<1> QED
  BY <1>1, <1>2 DEF ServerFollows, ReadsAreOld, Numbers

\* A step that changes one object, and no other: its marker may not get ahead of the
\* pass nor go back, and if the operator deletes it, it was of an older generation.
LEMMA ObjectStep ==
    ASSUME Numbers, Numbers', Inv, Floor <= Floor', CacheFollows,
           NEW o \in Objects, NEW m \in Nat, store' = [store EXCEPT ![o] = m], TypeOK,
           m <= Floor',
           m = 0 \/ cache.store[o] <= m,
           server'.exists /\ ~disturbed' =>
               /\ server.exists /\ ~disturbed
               /\ o \in Marked /\ m = 0 => cache.store[o] < Floor
    PROVE  MarkersAreOld' /\ MarkersGrow' /\ DeletedWereOld'
<1>0. store'[o] = m /\ \A p \in Objects \ {o} : store'[p] = store[p]
  BY DEF TypeOK, Marks
<1>1. MarkersAreOld'
  <2> SUFFICES ASSUME NEW p \in Objects PROVE store'[p] <= Floor'
    BY DEF MarkersAreOld
  <2> QED
    BY <1>0 DEF Inv, MarkersAreOld, Numbers
<1>2. MarkersGrow'
  <2> SUFFICES ASSUME NEW p \in Objects PROVE store'[p] = 0 \/ cache'.store[p] <= store'[p]
    BY DEF MarkersGrow
  <2> QED
    BY <1>0 DEF Inv, MarkersGrow, CacheFollows, Numbers
<1>3. DeletedWereOld'
  <2> SUFFICES ASSUME server'.exists, ~disturbed', NEW p \in Marked,
                      store'[p] = 0, cache'.store[p] # 0
               PROVE  cache'.store[p] < Floor'
    BY DEF DeletedWereOld
  <2>1. p \in Objects /\ cache'.store[p] = cache.store[p]
    BY DEF CacheFollows, Objects
  <2>2. cache.store[p] < Floor
    BY <1>0, <2>1 DEF Inv, DeletedWereOld
  <2> QED
    BY <2>1, <2>2 DEF Numbers
<1> QED
  BY <1>1, <1>2, <1>3

\* A step that changes no object.
LEMMA NoObjectStep ==
    ASSUME Numbers, Numbers', Inv, Floor <= Floor', CacheFollows, store' = store,
           server'.exists /\ ~disturbed' => server.exists /\ ~disturbed
    PROVE  MarkersAreOld' /\ MarkersGrow' /\ DeletedWereOld'
<1>1. MarkersAreOld'
  <2> SUFFICES ASSUME NEW p \in Objects PROVE store'[p] <= Floor'
    BY DEF MarkersAreOld
  <2> QED
    BY DEF Inv, MarkersAreOld, Numbers
<1>2. MarkersGrow'
  <2> SUFFICES ASSUME NEW p \in Objects PROVE store'[p] = 0 \/ cache'.store[p] <= store'[p]
    BY DEF MarkersGrow
  <2> QED
    BY DEF Inv, MarkersGrow, CacheFollows, Numbers
<1>3. DeletedWereOld'
  <2> SUFFICES ASSUME server'.exists, ~disturbed', NEW p \in Marked,
                      store'[p] = 0, cache'.store[p] # 0
               PROVE  cache'.store[p] < Floor'
    BY DEF DeletedWereOld
  <2>1. p \in Objects /\ cache'.store[p] = cache.store[p]
    BY DEF CacheFollows, Objects
  <2>2. cache.store[p] < Floor
    BY <2>1 DEF Inv, DeletedWereOld
  <2> QED
    BY <2>1, <2>2 DEF Numbers
<1> QED
  BY <1>1, <1>2, <1>3

\* A pass that ends has worked for no later generation than the next one will.
LEMMA ReturnInv ==
    ASSUME Numbers, Numbers', ReadsAreOld, NEW requeue, Return(requeue), ServerFollows
    PROVE  /\ ReadsAreOld' /\ PassedAreDone'
           /\ Floor <= Floor' /\ pass.server.generation <= Floor'
<1>1. pass'.server.generation = 1 /\ pc' = "idle"
  BY DEF Return, NoPass, NewServer
<1>2. PassedAreDone'
  BY <1>1 DEF PassedAreDone, After, AfterAdmin, Marked, Services
<1> QED
  BY <1>1, <1>2 DEF ReadsAreOld, ServerFollows, Floor, Numbers

\* A pass that goes on works for the same generation.
LEMMA StepInv ==
    ASSUME Numbers, ReadsAreOld, pc # "idle", pc' # "idle", pass'.server = pass.server,
           cache'.server = cache.server, server' = server
    PROVE  ReadsAreOld' /\ Floor' = Floor
  BY DEF ReadsAreOld, Floor

\* What follows Create, Update and Write.
Rest == ReadsAreOld /\ MarkersAreOld /\ MarkersGrow /\ DeletedWereOld /\ PassedAreDone

\* An ended pass that wrote nothing.
LEMMA EndPassInv ==
    ASSUME Numbers, Numbers', Inv, UNCHANGED <<server, disturbed>>, EndPass
    PROVE  Rest'
<1>1. CacheFollows /\ ServerFollows /\ store' = store /\ server' = server
  BY DEF EndPass, NoWrite, storeVars, CacheFollows, ServerFollows, Inv, ReadsAreOld, Numbers
<1>2. ReadsAreOld' /\ PassedAreDone' /\ Floor <= Floor'
  BY <1>1, ReturnInv DEF EndPass, Inv
<1>3. MarkersAreOld' /\ MarkersGrow' /\ DeletedWereOld'
  BY <1>1, <1>2, NoObjectStep
<1> QED
  BY <1>2, <1>3 DEF Rest

\* An ended pass that wrote an object.
LEMMA WriteInv ==
    ASSUME TypeOK, Numbers, Numbers', Inv, UNCHANGED <<server, disturbed>>,
           pc # "idle", NEW o \in Objects, NEW m \in {0, Marker}, Write(o, m), Return(TRUE),
           cache.store[o] = store[o],
           m = 0 => ~IsCurrentGeneration(cache.store[o])
    PROVE  Rest'
<1>1. CacheFollows /\ ServerFollows
  <2>1. Publish(server', store', ingress')
    BY DEF Write, Publish
  <2>2. server.generation <= server'.generation /\ server'.generation \in Nat
    BY DEF Numbers
  <2> QED
    BY <2>1, <2>2, PublishFollows DEF Inv
<1>2. /\ ReadsAreOld' /\ PassedAreDone'
      /\ Floor <= Floor' /\ pass.server.generation <= Floor'
  BY <1>1, ReturnInv DEF Inv
<1>3. Floor = pass.server.generation /\ store[o] <= Floor
  BY DEF Floor, Inv, MarkersAreOld
<1>4. m \in Nat /\ m <= Floor' /\ (m = 0 \/ cache.store[o] <= m)
  BY <1>2, <1>3 DEF Numbers, Marker
<1>5. m = 0 => cache.store[o] < Floor
  BY <1>3 DEF Numbers, IsCurrentGeneration
<1>6. store' = [store EXCEPT ![o] = m]
  BY DEF Write
<1>7. MarkersAreOld' /\ MarkersGrow' /\ DeletedWereOld'
  BY <1>1, <1>2, <1>4, <1>5, <1>6, ObjectStep
<1> QED
  BY <1>2, <1>7 DEF Rest

\* Create and Update, whether they are done, refused or fail.
LEMMA CreateInv ==
    ASSUME TypeOK, Numbers, Numbers', Inv, UNCHANGED <<server, disturbed>>,
           pc # "idle", NEW o \in Objects, Create(o) \/ Update(o)
    PROVE  Rest'
<1>1. CASE EndPass
  BY <1>1, EndPassInv
<1>2. CASE cache.store[o] = store[o] /\ Write(o, Marker) /\ Return(TRUE)
  <2>1. Marker # 0
    BY DEF Marker, Numbers
  <2> QED
    BY <1>2, <2>1, WriteInv
<1> QED
  BY <1>1, <1>2 DEF Create, Update

\* A pass that passes an object has seen the marker of its generation, and no deleted
\* object would show that.
LEMMA PassesObject ==
    ASSUME Numbers, Inv, NEW o \in Marked, pc # "idle", server.exists, ~disturbed,
           IsCurrentGeneration(cache.store[o])
    PROVE  store[o] = pass.server.generation
<1>1. o \in Objects /\ Floor = pass.server.generation /\ cache.store[o] = Floor
  BY DEF Objects, Floor, IsCurrentGeneration
<1>2. store[o] # 0
  BY <1>1 DEF Inv, DeletedWereOld, Numbers
<1> QED
  BY <1>1, <1>2 DEF Inv, MarkersGrow, MarkersAreOld, Numbers

\* A pass that goes on without a write, to a step that is not behind an object it has
\* not passed.
LEMMA GoesOnInv ==
    ASSUME Numbers, Numbers', Inv, UNCHANGED <<server, disturbed>>, NoWrite,
           pc # "idle", pc' # "idle", pass'.server = pass.server,
           \A o \in Marked : pc' \in After[o] =>
               pc \in After[o] \/ IsCurrentGeneration(cache.store[o])
    PROVE  Rest'
<1>1. CacheFollows /\ store' = store /\ cache' = cache
  BY DEF NoWrite, storeVars, CacheFollows
<1>2. ReadsAreOld' /\ Floor' = Floor
  BY <1>1, StepInv DEF Inv
<1>3. MarkersAreOld' /\ MarkersGrow' /\ DeletedWereOld'
  <2>1. Floor <= Floor'
    BY <1>2 DEF Numbers
  <2> QED
    BY <1>1, <2>1, NoObjectStep
<1>4. PassedAreDone'
  <2> SUFFICES ASSUME server.exists, ~disturbed, NEW o \in Marked, pc' \in After[o]
               PROVE  store[o] = pass.server.generation
    BY <1>1 DEF PassedAreDone
  <2> QED
    BY PassesObject DEF Inv, PassedAreDone
<1> QED
  BY <1>2, <1>3, <1>4 DEF Rest

\* The steps of the operator.
LEMMA ReconcileInv ==
    ASSUME TypeOK, Numbers, Numbers', Inv, Reconcile
    PROVE  Rest'
<1>1. CASE FetchWildFlyServer
  <2>1. /\ store' = store /\ cache' = cache /\ server' = server
        /\ \/ pass' = pass /\ pc' = "idle"
           \/ pass'.server = cache.server /\ pc' = "statefulSet"
    BY <1>1 DEF FetchWildFlyServer, NoWrite, storeVars, NoPass
  <2>2. ReadsAreOld' /\ Floor' = Floor
    BY <1>1, <2>1 DEF FetchWildFlyServer, Inv, ReadsAreOld, Floor, Numbers
  <2>3. PassedAreDone'
    BY <2>1 DEF PassedAreDone, After, AfterAdmin, Marked, Services
  <2>4. MarkersAreOld' /\ MarkersGrow'
    BY <2>1, <2>2 DEF Inv, MarkersAreOld, MarkersGrow
  <2>5. DeletedWereOld'
    <3>1. CASE disturbed' \/ ~disturbed
      BY <2>1, <2>2, <3>1 DEF Inv, DeletedWereOld
    <3>2. CASE ~disturbed' /\ disturbed
      <4>1. \A o \in Objects : cache.store[o] = store[o]
        BY <1>1, <3>2 DEF FetchWildFlyServer, CacheLags
      <4> QED
        BY <2>1, <4>1 DEF DeletedWereOld, Objects
    <3> QED
      BY <3>1, <3>2
  <2> QED
    BY <2>2, <2>3, <2>4, <2>5 DEF Rest
<1>2. CASE ReconcileStatefulSet
  <2>0. UNCHANGED <<server, disturbed>> /\ pc = "statefulSet"
    BY <1>2 DEF ReconcileStatefulSet
  <2>1. CASE Create("statefulSet") \/ Update("statefulSet")
    BY <2>0, <2>1, CreateInv DEF Objects, Marked
  <2>2. CASE EndPass
    BY <2>0, <2>2, EndPassInv
  <2>3. CASE IsCurrentGeneration(cache.store["statefulSet"]) /\ Goto("cluster") /\ NoWrite
    <3>1. \A o \in Marked : "cluster" \in After[o] => o = "statefulSet"
      BY DEF After, AfterAdmin, Marked, Services
    <3> QED
      BY <2>0, <2>3, <3>1, GoesOnInv DEF Goto
  <2> QED
    BY <1>2, <2>1, <2>2, <2>3 DEF ReconcileStatefulSet
<1>3. ASSUME NEW s \in Services, CreateOrUpdateService(s) PROVE Rest'
  <2>0. UNCHANGED <<server, disturbed>> /\ pc = s /\ s # "idle" /\ s \in Objects
    BY <1>3 DEF CreateOrUpdateService, Services, Objects, Marked
  <2>1. CASE Create(s) \/ Update(s)
    BY <2>0, <2>1, CreateInv
  <2>2. CASE EndPass
    BY <2>0, <2>2, EndPassInv
  <2>3. CASE /\ ~IsCurrentGeneration(cache.store[s]) /\ cache.store[s] = store[s]
             /\ Write(s, 0) /\ Return(TRUE)
    BY <2>0, <2>3, WriteInv
  <2>4. CASE IsCurrentGeneration(cache.store[s]) /\ Goto(NextStep[s]) /\ NoWrite
    <3>1. /\ NextStep[s] # "idle"
          /\ \A o \in Marked : NextStep[s] \in After[o] => s \in After[o] \/ o = s
      BY DEF After, AfterAdmin, NextStep, Marked, Services
    <3> QED
      BY <2>0, <2>4, <3>1, GoesOnInv DEF Goto
  <2> QED
    BY <1>3, <2>1, <2>2, <2>3, <2>4 DEF CreateOrUpdateService
<1>4. \A o \in Marked : AfterAdmin \subseteq After[o]
  BY DEF After, Marked, Services
<1>5. ASSUME pc \in AfterAdmin, pc' \in AfterAdmin, NoWrite, UNCHANGED <<server, disturbed>>,
             pass'.server = pass.server
      PROVE  Rest'
  BY <1>4, <1>5, GoesOnInv DEF AfterAdmin
<1>6. CASE GetOrCreateNewRoute
  <2>0. UNCHANGED <<server, disturbed>> /\ pc = "route"
    BY <1>6 DEF GetOrCreateNewRoute
  <2>1. CASE Create("route")
    BY <2>0, <2>1, CreateInv DEF Objects
  <2>2. ASSUME NEW hosts, RouteRead(hosts) PROVE Rest'
    <3>1. pass'.server = pass.server
      BY <2>2 DEF RouteRead, TypeOK
    <3> QED
      BY <1>5, <2>0, <2>2, <3>1 DEF RouteRead, AfterAdmin
  <2> QED
    BY <1>6, <2>1, <2>2 DEF GetOrCreateNewRoute
<1>7. CASE DeleteExistingRoute
  <2>0. UNCHANGED <<server, disturbed>> /\ pc = "route"
    BY <1>7 DEF DeleteExistingRoute
  <2>1. CASE Goto("monitor") /\ NoWrite
    BY <1>5, <2>0, <2>1 DEF Goto, AfterAdmin
  <2>2. CASE Write("route", 0) /\ AfterDeletion
    <3>1. CacheFollows /\ ServerFollows
      <4>1. Publish(server', store', ingress')
        BY <2>0, <2>2 DEF Write, Publish
      <4>2. server.generation <= server'.generation /\ server'.generation \in Nat
        BY <2>0 DEF Numbers
      <4> QED
        BY <4>1, <4>2, PublishFollows DEF Inv
    <3>2. pc' = "monitor" /\ pass' = pass
      BY <2>2 DEF AfterDeletion, Goto
    <3>3. ReadsAreOld' /\ Floor' = Floor /\ Floor <= Floor'
      BY <2>0, <3>1, <3>2 DEF Inv, ReadsAreOld, ServerFollows, Floor, Numbers
    <3>4. store' = [store EXCEPT !["route"] = 0]
      BY <2>2 DEF Write
    <3>5. "route" \in Objects /\ "route" \notin Marked
      BY DEF Objects, Marked, Services
    <3>6. MarkersAreOld' /\ MarkersGrow' /\ DeletedWereOld'
      <4>1. 0 \in Nat /\ 0 <= Floor'
        BY DEF Numbers
      <4> QED
        BY <2>0, <3>1, <3>3, <3>4, <3>5, <4>1, ObjectStep
    <3>7. PassedAreDone'
      <4>1. \A o \in Marked : store'[o] = store[o]
        BY <3>4, <3>5 DEF TypeOK, Marks, Objects
      <4>2. \A o \in Marked : pc \in After[o]
        BY <1>4, <2>0 DEF AfterAdmin
      <4> QED
        BY <2>0, <3>2, <4>1, <4>2 DEF Inv, PassedAreDone
    <3> QED
      BY <3>3, <3>6, <3>7 DEF Rest
  <2>3. CASE EndPass
    BY <2>0, <2>3, EndPassInv
  <2> QED
    BY <1>7, <2>1, <2>2, <2>3 DEF DeleteExistingRoute
<1>8. CASE SkipRoute
  BY <1>5, <1>8 DEF SkipRoute, Goto, AfterAdmin
<1>9. CASE GetOrCreateNewServiceMonitor
  <2>0. UNCHANGED <<server, disturbed>> /\ pc = "monitor"
    BY <1>9 DEF GetOrCreateNewServiceMonitor
  <2>1. CASE Create("monitor")
    BY <2>0, <2>1, CreateInv DEF Objects
  <2>2. CASE Goto("status") /\ NoWrite
    BY <1>5, <2>0, <2>2 DEF Goto, AfterAdmin
  <2> QED
    BY <1>9, <2>1, <2>2 DEF GetOrCreateNewServiceMonitor
<1>10. CASE UpdateStatus
  <2>1. /\ store' = store /\ disturbed' = disturbed
        /\ server'.exists = server.exists /\ server'.generation = server.generation
    BY <1>10 DEF UpdateStatus, storeVars, TypeOK, ServerType
  <2>2. CacheFollows /\ ServerFollows
    <3>1. CASE UNCHANGED <<server, cache>>
      BY <3>1 DEF CacheFollows, ServerFollows, Inv, ReadsAreOld, Numbers
    <3>2. CASE Publish(server', store, ingress)
      <4>1. server.generation <= server'.generation /\ server'.generation \in Nat
        BY <2>1 DEF Numbers
      <4> QED
        BY <2>1, <3>2, <4>1, PublishFollows DEF Inv
    <3> QED
      BY <1>10, <3>1, <3>2 DEF UpdateStatus
  <2>3. ReadsAreOld' /\ PassedAreDone' /\ Floor <= Floor'
    BY <1>10, <2>2, ReturnInv DEF UpdateStatus, Inv
  <2> QED
    BY <2>1, <2>2, <2>3, NoObjectStep DEF Rest
<1> QED
  BY <1>1, <1>2, <1>3, <1>6, <1>7, <1>8, <1>9, <1>10 DEF Reconcile

\* What the user does to the WildFlyServer: its generation does not go back, and a
\* deleted one stays deleted.
LEMMA ServerBecomesInv ==
    ASSUME TypeOK, Numbers, Numbers', Inv, NEW srv, ServerBecomes(srv),
           server.generation <= srv.generation, srv.exists => server.exists
    PROVE  Rest'
<1>1. /\ server' = srv /\ store' = store /\ pc' = pc /\ pass' = pass
      /\ disturbed' = disturbed /\ Publish(server', store', ingress)
  BY DEF ServerBecomes, storeVars
<1>2. CacheFollows /\ ServerFollows
  <2>1. server.generation <= server'.generation /\ server'.generation \in Nat
    BY <1>1 DEF Numbers
  <2> QED
    BY <1>1, <2>1, PublishFollows DEF Inv
<1>3. ReadsAreOld' /\ Floor <= Floor'
  BY <1>1, <1>2 DEF Inv, ReadsAreOld, ServerFollows, Floor, Numbers
<1>4. MarkersAreOld' /\ MarkersGrow' /\ DeletedWereOld'
  BY <1>1, <1>2, <1>3, NoObjectStep
<1>5. PassedAreDone'
  BY <1>1 DEF Inv, PassedAreDone
<1> QED
  BY <1>3, <1>4, <1>5 DEF Rest

\* What others do to an object: they give it no marker, and if they delete it, this
\* is noted or the WildFlyServer is gone.
LEMMA ObjectBecomesInv ==
    ASSUME TypeOK, Numbers, Numbers', Inv, NEW o \in Objects, NEW m, NEW hosts,
           ObjectBecomes(o, m, hosts),
           \/ m = store[o] /\ disturbed' = disturbed
           \/ m \in {0, store[o]} /\ (disturbed' \/ ~server.exists)
    PROVE  Rest'
<1>1. /\ server' = server /\ store' = [store EXCEPT ![o] = m] /\ pc' = pc /\ pass' = pass
      /\ Publish(server', store', hosts)
  BY DEF ObjectBecomes, Publish
<1>2. CacheFollows /\ ServerFollows
  <2>1. server.generation <= server'.generation /\ server'.generation \in Nat
    BY <1>1 DEF Numbers
  <2> QED
    BY <1>1, <2>1, PublishFollows DEF Inv
<1>3. ReadsAreOld' /\ Floor <= Floor'
  BY <1>1, <1>2 DEF Inv, ReadsAreOld, ServerFollows, Floor, Numbers
<1>4. CASE m = store[o] /\ disturbed' = disturbed
  <2>1. store' = store
    BY <1>1, <1>4 DEF TypeOK, Marks
  <2>2. MarkersAreOld' /\ MarkersGrow' /\ DeletedWereOld'
    BY <1>1, <1>2, <1>3, <1>4, <2>1, NoObjectStep
  <2>3. PassedAreDone'
    BY <1>1, <1>4, <2>1 DEF Inv, PassedAreDone
  <2> QED
    BY <1>3, <2>2, <2>3 DEF Rest
<1>5. CASE m \in {0, store[o]} /\ (disturbed' \/ ~server.exists)
  <2>1. m \in Nat /\ m <= Floor' /\ (m = 0 \/ cache.store[o] <= m)
    BY <1>3, <1>5 DEF Numbers, Inv, MarkersAreOld, MarkersGrow
  <2>2. ~(server'.exists /\ ~disturbed')
    BY <1>1, <1>5
  <2>3. MarkersAreOld' /\ MarkersGrow' /\ DeletedWereOld'
    BY <1>1, <1>2, <1>3, <2>1, <2>2, ObjectStep
  <2>4. PassedAreDone'
    BY <2>2 DEF PassedAreDone
  <2> QED
    BY <1>3, <2>3, <2>4 DEF Rest
<1> QED
  BY <1>4, <1>5

\* The steps of the cluster around the operator.
LEMMA ClusterInv ==
    ASSUME TypeOK, Numbers, Numbers', Inv,
           \/ Crash \/ EditSpec \/ EditLabels \/ DeleteServer
           \/ Admit \/ \E h \in Hosts : Rehost(h)
           \/ \E o \in Objects : DeleteObject(o)
           \/ SyncServer \/ SyncObjects \/ GarbageCollector
    PROVE  Rest'
<1>0. server \in ServerType
  BY DEF TypeOK
<1>1. CASE Crash
  <2>1. store' = store /\ server' = server /\ disturbed' = disturbed
    BY <1>1 DEF Crash, storeVars
  <2>2. CacheFollows /\ ServerFollows
    BY <1>1, <2>1 DEF Crash, CacheFollows, ServerFollows, Inv, ReadsAreOld, Numbers
  <2>3. ReadsAreOld' /\ PassedAreDone' /\ Floor <= Floor'
    BY <1>1, <2>2, ReturnInv DEF Crash, Inv
  <2> QED
    BY <2>1, <2>2, <2>3, NoObjectStep DEF Rest
<1>2. CASE EditSpec
  <2>1. PICK disable \in BOOLEAN :
            Edit([server EXCEPT !.generation = @ + 1, !.disableHTTPRoute = disable])
    BY <1>2 DEF EditSpec
  <2> DEFINE srv == [server EXCEPT !.generation = @ + 1, !.disableHTTPRoute = disable]
  <2>2. srv.generation = server.generation + 1 /\ srv.exists = server.exists
    BY <1>0 DEF ServerType
  <2>3. ServerBecomes(srv)
    BY <2>1 DEF Edit
  <2> HIDE DEF srv
  <2>4. server.generation <= srv.generation
    BY <2>2 DEF Numbers
  <2> QED
    BY <2>2, <2>3, <2>4, ServerBecomesInv
<1>3. CASE EditLabels
  <2>1. PICK e \in LabelEdits : Edit([server EXCEPT !.labels = e[2]])
    BY <1>3 DEF EditLabels
  <2> DEFINE srv == [server EXCEPT !.labels = e[2]]
  <2>2. srv.generation = server.generation /\ srv.exists = server.exists
    BY <1>0 DEF ServerType
  <2>3. ServerBecomes(srv)
    BY <2>1 DEF Edit
  <2> HIDE DEF srv
  <2>4. server.generation <= srv.generation
    BY <2>2 DEF Numbers
  <2> QED
    BY <2>2, <2>3, <2>4, ServerBecomesInv
<1>4. CASE DeleteServer
  <2> DEFINE srv == [server EXCEPT !.exists = FALSE]
  <2>1. srv.generation = server.generation /\ server.exists
    BY <1>0, <1>4 DEF ServerType, DeleteServer
  <2>2. ServerBecomes(srv)
    BY <1>4 DEF DeleteServer
  <2> HIDE DEF srv
  <2>3. server.generation <= srv.generation
    BY <2>1 DEF Numbers
  <2> QED
    BY <2>1, <2>2, <2>3, ServerBecomesInv
<1>5. CASE Admit
  BY <1>5, ObjectBecomesInv DEF Admit, Objects
<1>6. ASSUME NEW h \in Hosts, Rehost(h) PROVE Rest'
  BY <1>6, ObjectBecomesInv DEF Rehost, Objects
<1>7. ASSUME NEW o \in Objects, DeleteObject(o) PROVE Rest'
  BY <1>7, ObjectBecomesInv DEF DeleteObject, Deletion
<1>8. CASE GarbageCollector
  BY <1>8, ObjectBecomesInv DEF GarbageCollector, Collect, Deletion
<1>9. CASE SyncServer
  <2>1. /\ store' = store /\ server' = server /\ disturbed' = disturbed
        /\ pc' = pc /\ pass' = pass
        /\ cache'.server = server /\ cache'.store = cache.store
    BY <1>9 DEF SyncServer, storeVars, TypeOK
  <2>2. CacheFollows /\ ReadsAreOld' /\ Floor <= Floor'
    BY <2>1 DEF CacheFollows, Inv, ReadsAreOld, Floor, Numbers
  <2>3. MarkersAreOld' /\ MarkersGrow' /\ DeletedWereOld'
    BY <2>1, <2>2, NoObjectStep
  <2>4. PassedAreDone'
    BY <2>1 DEF Inv, PassedAreDone
  <2> QED
    BY <2>2, <2>3, <2>4 DEF Rest
<1>10. CASE SyncObjects
  <2>0. PICK o \in Objects : SyncObject(o)
    BY <1>10 DEF SyncObjects
  <2>1. /\ store' = store /\ server' = server /\ disturbed' = disturbed
        /\ pc' = pc /\ pass' = pass
        /\ cache'.server = cache.server /\ cache'.store = [cache.store EXCEPT ![o] = store[o]]
    BY <2>0 DEF SyncObject, storeVars, TypeOK
  <2>2. CacheFollows
    BY <2>1 DEF CacheFollows, TypeOK, Marks
  <2>3. ReadsAreOld' /\ Floor <= Floor'
    BY <2>1 DEF Inv, ReadsAreOld, Floor, Numbers
  <2>4. MarkersAreOld' /\ MarkersGrow' /\ DeletedWereOld'
    BY <2>1, <2>2, <2>3, NoObjectStep
  <2>5. PassedAreDone'
    BY <2>1 DEF Inv, PassedAreDone
  <2> QED
    BY <2>3, <2>4, <2>5 DEF Rest
<1> QED
  BY <1>1, <1>2, <1>3, <1>4, <1>5, <1>6, <1>7, <1>8, <1>9, <1>10

\* The invariant holds of an empty cluster.
LEMMA InvInit == ASSUME Init PROVE Inv
<1>1. EditsAreCounted /\ ReadsAreOld
  BY DEF Init, EditsAreCounted, ReadsAreOld, NewServer, NoPass
<1>2. \A o \in Objects : store[o] = 0 /\ cache.store[o] = 0
  BY DEF Init, NoMarks
<1>3. Floor = 1 /\ pc = "idle"
  BY DEF Init, Floor, NewServer
<1>4. MarkersAreOld /\ MarkersGrow /\ DeletedWereOld
  BY <1>2, <1>3 DEF MarkersAreOld, MarkersGrow, DeletedWereOld, Objects
<1>5. PassedAreDone
  BY <1>3 DEF PassedAreDone, After, AfterAdmin, Marked, Services
<1> QED
  BY <1>1, <1>4, <1>5 DEF Inv

\* Every step keeps it.
LEMMA InvStep == ASSUME TypeOK, Inv, [Next]_vars PROVE TypeOK' /\ Inv'
<1>1. TypeOK' /\ EditsAreCounted'
  BY TypeStep, EditsCounted DEF Inv
<1>2. Numbers /\ Numbers'
  BY <1>1, TypeNumbers, TypeNumbersNext
<1>3. Rest'
  <2>1. CASE Reconcile
    BY <1>2, <2>1, ReconcileInv
  <2>2. CASE UNCHANGED vars
    BY <2>2 DEF vars, storeVars, Inv, Rest, ReadsAreOld, MarkersAreOld, MarkersGrow,
                DeletedWereOld, PassedAreDone, Floor
  <2> QED
    BY <1>2, <2>1, <2>2, ClusterInv DEF Next
<1> QED
  BY <1>1, <1>3 DEF Inv, Rest

\* The invariant of the markers.
LEMMA InvHolds == Spec => [](TypeOK /\ Inv)
  BY TypeInit, InvInit, InvStep, PTL DEF Spec

\* A pass gets to the route, the monitor and the status only when the StatefulSet and
\* the three services carry the generation it works for, however far each informer
\* lags behind, whatever write is refused or fails, and whenever the operator ends.
THEOREM StatusFollows == Spec => []StatusFollowsResources
<1>1. Inv => StatusFollowsResources
  <2>1. \A o \in Marked : AfterAdmin \subseteq After[o]
    BY DEF After, Marked, Services
  <2> QED
    BY <2>1 DEF Inv, PassedAreDone, StatusFollowsResources, AfterAdmin
<1> QED
  BY <1>1, InvHolds, PTL
-----------------------------------------------------------------------------
(* The operator goes quiet only when everything is done.  Nothing wakes it *)
(* for a route, so a pass has to see the route as it is.                   *)

\* The informer of the routes does not lag, and neither the discovery of the kind
\* ServiceMonitor nor a read of one fails.
NothingOverlooked == /\ \A p \in Platforms : "route" \notin p.lagging
                     /\ "monitorRead" \notin FaultKinds

\* Nobody else has changed an object of the WildFlyServer.
Undisturbed == server.exists /\ ~disturbed

\* The informers in step; a deleted WildFlyServer does not come back.
ServerIsShown == /\ server.exists => cache.server.exists
                 /\ "server" \notin platform.lagging => cache.server = server
RouteIsShown  == cache.store["route"] = store["route"] /\ cache.ingress = ingress

\* A monitor that is shown is there: the operator deletes none.
MonitorIsThere == Undisturbed /\ cache.store["monitor"] # 0 => store["monitor"] # 0

\* A pass that no event has overtaken works for the WildFlyServer that is shown.
WorksForShown == pc # "idle" /\ ~queued => pass.server = cache.server

\* There are routes, and hosts, on OpenShift only.
RoutesOnOpenShift ==
    ~platform.openShift => /\ store["route"] = 0
                           /\ server.hosts = {} /\ cache.server.hosts = {}
                           /\ pass.server.hosts = {}

Wants(srv) == platform.openShift /\ ~srv.disableHTTPRoute

\* A pass that has passed the route holds the hosts that it has, or none; one that
\* wants no route has left none.
PassedRoute ==
    Undisturbed /\ pc \in {"monitor", "status"} =>
        IF Wants(pass.server)
        THEN pass.ingress # {} => store["route"] # 0 /\ pass.ingress = ingress
        ELSE store["route"] = 0

PassedMonitor == Undisturbed /\ pc = "status" /\ platform.monitoring => store["monitor"] # 0

\* Everything srv asks for is there, a route with its host.
DoneFor(srv) ==
    /\ \A o \in Marked : store[o] = srv.generation
    /\ platform.monitoring => store["monitor"] # 0
    /\ IF Wants(srv) THEN store["route"] # 0 /\ srv.hosts = ingress /\ ingress # {}
       ELSE store["route"] = 0 /\ srv.hosts = {}

\* An operator with nothing to do has done what the WildFlyServer that it sees asks for.
IdleIsDone == Undisturbed /\ pc = "idle" /\ ~queued => DoneFor(cache.server)

QuietInv == /\ ServerIsShown /\ RouteIsShown /\ MonitorIsThere /\ WorksForShown /\ RoutesOnOpenShift
            /\ PassedRoute /\ PassedMonitor /\ IdleIsDone

\* What the informers show of the WildFlyServer, the route and the monitor afterwards.
LEMMA Shows ==
    ASSUME TypeOK, NothingOverlooked, NEW srv, NEW marks, NEW hosts, Publish(srv, marks, hosts)
    PROVE  /\ cache'.store["route"] = marks["route"] /\ cache'.ingress = hosts
           /\ cache'.store["monitor"] \in {cache.store["monitor"], marks["monitor"]}
           /\ cache'.server = IF "server" \in platform.lagging THEN cache.server ELSE srv
<1>1. "route" \notin platform.lagging
  BY DEF TypeOK, NothingOverlooked
<1>2. "route" \in Objects /\ "monitor" \in Objects
  BY DEF Objects
<1> QED
  BY <1>1, <1>2 DEF Publish

\* A pass that ends and asks for another one has nothing to show for itself.
LEMMA ReturnQuiet ==
    ASSUME Return(TRUE), ServerIsShown', RouteIsShown', MonitorIsThere', RoutesOnOpenShift'
    PROVE  QuietInv'
<1>1. pc' = "idle" /\ queued'
  BY DEF Return
<1>2. WorksForShown' /\ IdleIsDone'
  BY <1>1, Zenon DEF WorksForShown, IdleIsDone
<1>3. PassedRoute' /\ PassedMonitor'
  BY <1>1 DEF PassedRoute, PassedMonitor
<1> QED
  BY <1>2, <1>3 DEF QuietInv

\* It has written nothing.
LEMMA EndPassQuiet ==
    ASSUME QuietInv, EndPass, UNCHANGED <<platform, server, disturbed>>
    PROVE  QuietInv'
<1>1. store' = store /\ cache' = cache /\ ingress' = ingress /\ Return(TRUE)
  BY DEF EndPass, NoWrite, storeVars
<1>2. ServerIsShown' /\ RouteIsShown' /\ MonitorIsThere'
  BY <1>1 DEF QuietInv, ServerIsShown, RouteIsShown, MonitorIsThere, Undisturbed
<1>3. pass'.server.hosts = {}
  BY <1>1 DEF Return, NoPass, NewServer
<1>4. RoutesOnOpenShift'
  BY <1>1, <1>3 DEF QuietInv, RoutesOnOpenShift
<1> QED
  BY <1>1, <1>2, <1>4, ReturnQuiet

\* A write of an object: the route is shown at once, a monitor is not deleted.
LEMMA WriteShows ==
    ASSUME TypeOK, NothingOverlooked, QuietInv, UNCHANGED <<platform, server, disturbed>>,
           NEW o \in Objects, NEW m, Write(o, m), o = "monitor" => m # 0,
           o = "route" => platform.openShift
    PROVE  /\ RouteIsShown' /\ MonitorIsThere'
           /\ cache'.server = IF "server" \in platform.lagging THEN cache.server ELSE server
           /\ ~platform.openShift => store'["route"] = 0
<1>1. Publish(server, store', ingress') /\ store' = [store EXCEPT ![o] = m]
  BY DEF Write
<1>2. /\ cache'.store["route"] = store'["route"] /\ cache'.ingress = ingress'
      /\ cache'.store["monitor"] \in {cache.store["monitor"], store'["monitor"]}
      /\ cache'.server = IF "server" \in platform.lagging THEN cache.server ELSE server
  BY <1>1, Shows
<1>3. "route" \in Objects /\ "monitor" \in Objects /\ store \in Marks
  BY DEF Objects, TypeOK
<1>4. store'["monitor"] = (IF o = "monitor" THEN m ELSE store["monitor"])
  BY <1>1, <1>3 DEF Marks
<1>5. store'["route"] = (IF o = "route" THEN m ELSE store["route"])
  BY <1>1, <1>3 DEF Marks
<1>6. MonitorIsThere'
  BY <1>2, <1>4 DEF QuietInv, MonitorIsThere, Undisturbed
<1> QED
  BY <1>2, <1>5, <1>6 DEF RouteIsShown, QuietInv, RoutesOnOpenShift

\* A pass that has written an object ends and asks for another one.
LEMMA WriteQuiet ==
    ASSUME TypeOK, NothingOverlooked, QuietInv, UNCHANGED <<platform, server, disturbed>>,
           NEW o \in Objects, NEW m, Write(o, m), o = "monitor" => m # 0,
           o = "route" => platform.openShift, Return(TRUE)
    PROVE  QuietInv'
<1>1. /\ RouteIsShown' /\ MonitorIsThere'
      /\ cache'.server = IF "server" \in platform.lagging THEN cache.server ELSE server
      /\ ~platform.openShift => store'["route"] = 0
  BY WriteShows
<1>2. pass'.server.hosts = {}
  BY DEF Return, NoPass, NewServer
<1>3. RoutesOnOpenShift'
  BY <1>1, <1>2 DEF QuietInv, RoutesOnOpenShift
<1>4. ServerIsShown'
  BY <1>1 DEF QuietInv, ServerIsShown
<1> QED
  BY <1>1, <1>3, <1>4, ReturnQuiet

\* Create and Update, whether they are done, refused or fail.
LEMMA CreateQuiet ==
    ASSUME TypeOK, NothingOverlooked, QuietInv, UNCHANGED <<platform, server, disturbed>>,
           NEW o \in Objects, Create(o) \/ Update(o), o = "route" => platform.openShift
    PROVE  QuietInv'
<1>1. Marker # 0
  BY TypeNumbers DEF Numbers, Marker
<1>2. CASE EndPass
  BY <1>2, EndPassQuiet
<1>3. CASE Write(o, Marker) /\ Return(TRUE)
  BY <1>1, <1>3, WriteQuiet
<1> QED
  BY <1>2, <1>3 DEF Create, Update

\* A pass that goes on and writes nothing.
LEMMA GotoQuiet ==
    ASSUME QuietInv, NoWrite, UNCHANGED <<platform, server, disturbed, queued>>,
           pc # "idle", pc' # "idle", pass'.server = pass.server,
           PassedRoute', PassedMonitor'
    PROVE  QuietInv'
<1>1. store' = store /\ cache' = cache /\ ingress' = ingress
  BY DEF NoWrite, storeVars
<1>2. ServerIsShown' /\ RouteIsShown' /\ MonitorIsThere' /\ RoutesOnOpenShift'
  BY <1>1 DEF QuietInv, ServerIsShown, RouteIsShown, MonitorIsThere, Undisturbed, RoutesOnOpenShift
<1>3. WorksForShown' /\ IdleIsDone'
  BY <1>1 DEF QuietInv, WorksForShown, IdleIsDone
<1> QED
  BY <1>2, <1>3 DEF QuietInv

\* Before the route nothing is asked of it.
LEMMA EarlyGotoQuiet ==
    ASSUME QuietInv, NoWrite, UNCHANGED <<platform, server, disturbed>>,
           pc # "idle", NEW step, step \notin {"idle", "monitor", "status"}, Goto(step)
    PROVE  QuietInv'
<1>1. PassedRoute' /\ PassedMonitor'
  BY DEF Goto, PassedRoute, PassedMonitor
<1> QED
  BY <1>1, GotoQuiet DEF Goto

\* Reading the route: the hosts that are shown are its hosts.
LEMMA RouteReadQuiet ==
    ASSUME TypeOK, NothingOverlooked, QuietInv, UNCHANGED <<platform, server, disturbed>>,
           pc = "route", Wants(pass.server), NEW hosts, RouteRead(hosts),
           hosts # {} => store["route"] # 0 /\ hosts = ingress
    PROVE  QuietInv'
<1>1. /\ pass'.server = pass.server /\ pass'.ingress = hosts /\ pc' = "monitor" /\ NoWrite
      /\ UNCHANGED queued
  BY DEF RouteRead, TypeOK
<1>2. PassedRoute'
  BY <1>1 DEF PassedRoute, Wants, NoWrite, storeVars
<1>3. PassedMonitor'
  BY <1>1 DEF PassedMonitor
<1> QED
  BY <1>1, <1>2, <1>3, GotoQuiet

\* A pass that wants no route goes on when there is none.
LEMMA NoRouteQuiet ==
    ASSUME QuietInv, UNCHANGED <<platform, server, disturbed>>,
           pc = "route", ~Wants(pass.server), store["route"] = 0, Goto("monitor"), NoWrite
    PROVE  QuietInv'
<1>1. pass' = pass /\ pc' = "monitor" /\ store' = store
  BY DEF Goto, NoWrite, storeVars
<1>2. PassedRoute' /\ PassedMonitor'
  BY <1>1 DEF PassedRoute, PassedMonitor, Wants
<1> QED
  BY <1>1, <1>2, GotoQuiet DEF Goto

\* The steps of the operator up to the status.
LEMMA ReconcileQuiet ==
    ASSUME TypeOK, NothingOverlooked, QuietInv,
           \/ ReconcileStatefulSet \/ \E s \in Services : CreateOrUpdateService(s)
           \/ GetOrCreateNewRoute \/ DeleteExistingRoute \/ SkipRoute
           \/ GetOrCreateNewServiceMonitor
    PROVE  QuietInv'
<1>1. CASE ReconcileStatefulSet
  <2>0. UNCHANGED <<platform, server, disturbed>> /\ pc = "statefulSet"
    BY <1>1 DEF ReconcileStatefulSet
  <2>1. CASE Create("statefulSet") \/ Update("statefulSet")
    BY <2>0, <2>1, CreateQuiet DEF Objects, Marked
  <2>2. CASE EndPass
    BY <2>0, <2>2, EndPassQuiet
  <2>3. CASE Goto("cluster") /\ NoWrite
    BY <2>0, <2>3, EarlyGotoQuiet
  <2> QED
    BY <1>1, <2>1, <2>2, <2>3 DEF ReconcileStatefulSet
<1>2. ASSUME NEW s \in Services, CreateOrUpdateService(s) PROVE QuietInv'
  <2>0. /\ UNCHANGED <<platform, server, disturbed>> /\ pc = s /\ pc # "idle"
        /\ s \in Objects /\ s # "monitor" /\ s # "route"
    BY <1>2 DEF CreateOrUpdateService, Services, Objects, Marked
  <2>1. CASE Create(s) \/ Update(s)
    BY <2>0, <2>1, CreateQuiet
  <2>2. CASE EndPass
    BY <2>0, <2>2, EndPassQuiet
  <2>3. CASE Write(s, 0) /\ Return(TRUE)
    BY <2>0, <2>3, WriteQuiet
  <2>4. CASE Goto(NextStep[s]) /\ NoWrite
    <3>1. NextStep[s] \notin {"idle", "monitor", "status"}
      BY DEF NextStep, Services
    <3> QED
      BY <2>0, <2>4, <3>1, EarlyGotoQuiet
  <2> QED
    BY <1>2, <2>1, <2>2, <2>3, <2>4 DEF CreateOrUpdateService
<1>3. CASE GetOrCreateNewRoute
  <2>0. UNCHANGED <<platform, server, disturbed>> /\ pc = "route" /\ Wants(pass.server)
    BY <1>3 DEF GetOrCreateNewRoute, Wants
  <2>1. CASE Create("route")
    BY <2>0, <2>1, CreateQuiet DEF Objects, Wants
  <2>2. CASE cache.store["route"] # 0 /\ RouteRead(cache.ingress)
    <3>1. store["route"] # 0 /\ cache.ingress = ingress
      BY <2>2 DEF QuietInv, RouteIsShown
    <3> QED
      BY <2>0, <2>2, <3>1, RouteReadQuiet
  <2>3. CASE RouteRead({})
    BY <2>0, <2>3, RouteReadQuiet
  <2> QED
    BY <1>3, <2>1, <2>2, <2>3 DEF GetOrCreateNewRoute
<1>4. CASE DeleteExistingRoute
  <2>0. /\ UNCHANGED <<platform, server, disturbed>> /\ pc = "route"
        /\ platform.openShift /\ ~Wants(pass.server)
    BY <1>4 DEF DeleteExistingRoute, Wants
  <2>1. CASE cache.store["route"] = 0 /\ Goto("monitor") /\ NoWrite
    <3>1. store["route"] = 0
      BY <2>1 DEF QuietInv, RouteIsShown
    <3> QED
      BY <2>0, <2>1, <3>1, NoRouteQuiet
  <2>2. CASE Write("route", 0) /\ AfterDeletion
    <3>1. "route" \in Objects
      BY DEF Objects
    <3>2. /\ RouteIsShown' /\ MonitorIsThere'
          /\ cache'.server = IF "server" \in platform.lagging THEN cache.server ELSE server
      BY <2>0, <2>2, <3>1, WriteShows
    <3>3. pc' = "monitor" /\ pass' = pass /\ queued' = queued
      BY <2>2 DEF AfterDeletion, Goto
    <3>4. store'["route"] = 0
      BY <2>2, <3>1 DEF Write, TypeOK, Marks
    <3>5. PassedRoute' /\ PassedMonitor' /\ IdleIsDone'
      BY <2>0, <3>3, <3>4 DEF PassedRoute, PassedMonitor, IdleIsDone, Wants
    <3>6. WorksForShown'
      <4>1. "server" \notin platform.lagging => cache.server = server
        BY DEF QuietInv, ServerIsShown
      <4> QED
        BY <2>0, <3>2, <3>3, <4>1 DEF QuietInv, WorksForShown
    <3>7. ServerIsShown'
      BY <2>0, <3>2 DEF QuietInv, ServerIsShown
    <3>8. RoutesOnOpenShift'
      BY <2>0 DEF RoutesOnOpenShift
    <3> QED
      BY <3>2, <3>5, <3>6, <3>7, <3>8 DEF QuietInv
  <2>3. CASE EndPass
    BY <2>0, <2>3, EndPassQuiet
  <2> QED
    BY <1>4, <2>1, <2>2, <2>3 DEF DeleteExistingRoute
<1>5. CASE SkipRoute
  <2>1. ~Wants(pass.server) /\ store["route"] = 0
    BY <1>5 DEF SkipRoute, Wants, QuietInv, RoutesOnOpenShift
  <2> QED
    BY <1>5, <2>1, NoRouteQuiet DEF SkipRoute
<1>6. CASE GetOrCreateNewServiceMonitor
  <2>0. UNCHANGED <<platform, server, disturbed>> /\ pc = "monitor"
    BY <1>6 DEF GetOrCreateNewServiceMonitor
  <2>1. CASE Create("monitor")
    BY <2>0, <2>1, CreateQuiet DEF Objects
  <2>2. CASE /\ ~platform.monitoring \/ cache.store["monitor"] # 0
             /\ Goto("status") /\ NoWrite
    <3>1. pass' = pass /\ pc' = "status" /\ store' = store /\ ingress' = ingress
      BY <2>2 DEF Goto, NoWrite, storeVars
    <3>2. PassedRoute'
      BY <2>0, <3>1 DEF QuietInv, PassedRoute, Undisturbed, Wants
    <3>3. PassedMonitor'
      BY <2>0, <2>2, <3>1 DEF QuietInv, MonitorIsThere, PassedMonitor, Undisturbed
    <3> QED
      BY <2>0, <2>2, <3>1, <3>2, <3>3, GotoQuiet DEF Goto
  <2>3. ~Fail("monitorRead")
    BY DEF Fail, NothingOverlooked
  <2> QED
    BY <1>6, <2>1, <2>2, <2>3 DEF GetOrCreateNewServiceMonitor
<1> QED
  BY <1>1, <1>2, <1>3, <1>4, <1>5, <1>6

\* The end of a pass.  One that has nothing to write leaves everything done, and is not
\* followed by another unless something has happened in between.
LEMMA UpdateStatusQuiet ==
    ASSUME TypeOK, Inv, NothingOverlooked, QuietInv, UpdateStatus
    PROVE  QuietInv'
<1>0. /\ UNCHANGED <<platform, disturbed>> /\ store' = store /\ ingress' = ingress
      /\ pc = "status" /\ pc' = "idle" /\ pass' = NoPass
  BY DEF UpdateStatus, storeVars, Return
<1>1. NoPass.server.hosts = {}
  BY DEF NoPass, NewServer
<1>2. CASE /\ HostsChange /\ server' = [server EXCEPT !.hosts = NewHosts]
           /\ Publish(server', store, ingress) /\ Return(TRUE)
  <2>1. /\ cache'.store["route"] = store["route"] /\ cache'.ingress = ingress
        /\ cache'.store["monitor"] \in {cache.store["monitor"], store["monitor"]}
        /\ cache'.server = IF "server" \in platform.lagging THEN cache.server ELSE server'
    BY <1>2, Shows
  <2>2. platform.openShift /\ server'.exists = server.exists
    BY <1>2 DEF HostsChange, TypeOK, ServerType
  <2>3. ServerIsShown' /\ RouteIsShown'
    BY <1>0, <2>1, <2>2 DEF QuietInv, ServerIsShown, RouteIsShown
  <2>4. MonitorIsThere'
    BY <1>0, <2>1, <2>2 DEF QuietInv, MonitorIsThere, Undisturbed
  <2>5. RoutesOnOpenShift'
    BY <1>0, <2>2 DEF RoutesOnOpenShift
  <2> QED
    BY <1>2, <2>3, <2>4, <2>5, ReturnQuiet
<1>3. ASSUME UNCHANGED <<server, cache>>
      PROVE  ServerIsShown' /\ RouteIsShown' /\ MonitorIsThere' /\ RoutesOnOpenShift'
  BY <1>0, <1>1, <1>3 DEF QuietInv, ServerIsShown, RouteIsShown, MonitorIsThere, Undisturbed,
                          RoutesOnOpenShift
<1>4. CASE Return(TRUE) /\ UNCHANGED <<server, cache>>
  BY <1>3, <1>4, ReturnQuiet
<1>5. CASE ~HostsChange /\ Return(FALSE) /\ UNCHANGED <<server, cache>>
  <2>1. WorksForShown' /\ PassedRoute' /\ PassedMonitor'
    BY <1>0 DEF WorksForShown, PassedRoute, PassedMonitor
  <2>2. IdleIsDone'
    <3>1. SUFFICES ASSUME Undisturbed, ~queued PROVE DoneFor(cache.server)'
      BY <1>0, <1>5 DEF IdleIsDone, Undisturbed, Return
    <3>2. pass.server = cache.server
      BY <1>0, <3>1 DEF QuietInv, WorksForShown
    <3>3. \A o \in Marked : store[o] = pass.server.generation
      BY <1>0, <3>1 DEF Inv, PassedAreDone, Undisturbed, After, AfterAdmin, Marked, Services
    <3>4. platform.monitoring => store["monitor"] # 0
      BY <1>0, <3>1 DEF QuietInv, PassedMonitor
    <3>5. CASE Wants(pass.server)
      <4>1. pass.ingress # {} /\ pass.server.hosts = pass.ingress
        BY <1>5, <3>5 DEF HostsChange, HostsDiffer, Wants
      <4>2. store["route"] # 0 /\ pass.ingress = ingress
        BY <1>0, <3>1, <3>5, <4>1 DEF QuietInv, PassedRoute
      <4> QED
        BY <1>0, <1>5, <3>2, <3>3, <3>4, <3>5, <4>1, <4>2 DEF DoneFor, Wants
    <3>6. CASE ~Wants(pass.server)
      <4>1. store["route"] = 0
        BY <1>0, <3>1, <3>6 DEF QuietInv, PassedRoute
      <4>2. pass.server.hosts = {}
        BY <1>5, <3>6 DEF HostsChange, Wants, QuietInv, RoutesOnOpenShift
      <4> QED
        BY <1>0, <1>5, <3>2, <3>3, <3>4, <3>6, <4>1, <4>2 DEF DoneFor, Wants
    <3> QED
      BY <3>5, <3>6
  <2> QED
    BY <1>3, <1>5, <2>1, <2>2 DEF QuietInv
<1> QED
  BY <1>2, <1>4, <1>5 DEF UpdateStatus

\* The begin of a pass.
LEMMA FetchQuiet ==
    ASSUME TypeOK, QuietInv, FetchWildFlyServer
    PROVE  QuietInv'
<1>0. /\ UNCHANGED <<platform, server>> /\ store' = store /\ ingress' = ingress
      /\ cache' = cache /\ pc = "idle" /\ queued
  BY DEF FetchWildFlyServer, NoWrite, storeVars
<1>1. ServerIsShown' /\ RouteIsShown'
  BY <1>0 DEF QuietInv, ServerIsShown, RouteIsShown
<1>2. Undisturbed' => Undisturbed \/ cache.store["monitor"] = store["monitor"]
  <2>1. "monitor" \in Objects
    BY DEF Objects
  <2> QED
    BY <1>0, <2>1 DEF FetchWildFlyServer, Undisturbed, CacheLags
<1>3. MonitorIsThere'
  BY <1>0, <1>2 DEF QuietInv, MonitorIsThere
<1>4. pc' \in {"idle", "statefulSet"}
  BY <1>0 DEF FetchWildFlyServer
<1>5. PassedRoute' /\ PassedMonitor'
  BY <1>4 DEF PassedRoute, PassedMonitor
<1>6. CASE cache.server.exists /\ pass' = [NoPass EXCEPT !.server = cache.server] /\ pc' = "statefulSet"
  <2>1. pass'.server = cache.server
    BY <1>6 DEF NoPass
  <2>2. WorksForShown' /\ IdleIsDone'
    BY <1>0, <1>6, <2>1 DEF WorksForShown, IdleIsDone
  <2>3. RoutesOnOpenShift'
    BY <1>0, <2>1 DEF QuietInv, RoutesOnOpenShift
  <2> QED
    BY <1>1, <1>3, <1>5, <2>2, <2>3 DEF QuietInv
<1>7. CASE UNCHANGED <<pc, pass>>
  <2>1. RoutesOnOpenShift' /\ WorksForShown'
    BY <1>0, <1>7 DEF QuietInv, RoutesOnOpenShift, WorksForShown
  <2>2. CASE UNCHANGED queued
    <3>1. IdleIsDone'
      BY <1>0, <2>2, Zenon DEF IdleIsDone
    <3> QED
      BY <1>1, <1>3, <1>5, <2>1, <3>1 DEF QuietInv
  <2>3. CASE ~cache.server.exists
    <3>1. IdleIsDone'
      BY <1>0, <2>3 DEF QuietInv, ServerIsShown, IdleIsDone, Undisturbed
    <3> QED
      BY <1>1, <1>3, <1>5, <2>1, <3>1 DEF QuietInv
  <2> QED
    BY <1>0, <2>2, <2>3, <1>7 DEF FetchWildFlyServer
<1> QED
  BY <1>0, <1>6, <1>7 DEF FetchWildFlyServer

\* What the user does to the WildFlyServer is heard of, at once or when the informer
\* catches up.
LEMMA ServerBecomesQuiet ==
    ASSUME TypeOK, NothingOverlooked, QuietInv, NEW srv, ServerBecomes(srv),
           srv.exists => server.exists, srv.hosts = server.hosts
    PROVE  QuietInv'
<1>0. /\ UNCHANGED <<platform, disturbed, pc, pass>> /\ server' = srv
      /\ store' = store /\ ingress' = ingress
  BY DEF ServerBecomes, storeVars
<1>1. /\ cache'.store["route"] = store["route"] /\ cache'.ingress = ingress
      /\ cache'.store["monitor"] \in {cache.store["monitor"], store["monitor"]}
      /\ cache'.server = IF "server" \in platform.lagging THEN cache.server ELSE srv
  BY Shows DEF ServerBecomes
<1>2. (queued' = queued /\ cache'.server = cache.server) \/ queued'
  <2>1. CASE "server" \in platform.lagging
    <3>1. ~Wakes("server")
      BY <2>1 DEF Wakes
    <3>2. queued' = queued
      BY <3>1 DEF ServerBecomes, TypeOK
    <3> QED
      BY <1>1, <2>1, <3>2
  <2>2. CASE "server" \notin platform.lagging
    BY <2>2 DEF ServerBecomes, Wakes, Watched
  <2> QED
    BY <2>1, <2>2
<1>3. ServerIsShown' /\ RouteIsShown'
  BY <1>0, <1>1 DEF QuietInv, ServerIsShown, RouteIsShown
<1>4. MonitorIsThere' /\ RoutesOnOpenShift'
  BY <1>0, <1>1 DEF QuietInv, MonitorIsThere, Undisturbed, RoutesOnOpenShift
<1>5. PassedRoute' /\ PassedMonitor'
  BY <1>0 DEF QuietInv, PassedRoute, PassedMonitor, Undisturbed, Wants
<1>6. WorksForShown' /\ IdleIsDone'
  <2>1. CASE queued' = queued /\ cache'.server = cache.server
    BY <1>0, <2>1 DEF QuietInv, WorksForShown, IdleIsDone, Undisturbed, DoneFor, Wants
  <2>2. CASE queued'
    BY <2>2 DEF WorksForShown, IdleIsDone
  <2> QED
    BY <1>2, <2>1, <2>2
<1> QED
  BY <1>3, <1>4, <1>5, <1>6 DEF QuietInv

\* What others do to an object: the first host of a route, or something that is noted,
\* or the WildFlyServer is gone.
LEMMA ObjectBecomesQuiet ==
    ASSUME TypeOK, NothingOverlooked, QuietInv, NEW o \in Objects, NEW m, NEW hosts,
           ObjectBecomes(o, m, hosts), m \in {0, store[o]},
           \/ /\ o = "route" /\ m = store["route"] /\ m # 0 /\ ingress = {}
              /\ disturbed' = disturbed
           \/ disturbed' \/ ~server.exists
    PROVE  QuietInv'
<1>0. /\ UNCHANGED <<platform, server, pc, pass>>
      /\ store' = [store EXCEPT ![o] = m] /\ ingress' = hosts
      /\ Publish(server, store', hosts)
  BY DEF ObjectBecomes
<1>1. /\ cache'.store["route"] = store'["route"] /\ cache'.ingress = hosts
      /\ cache'.store["monitor"] \in {cache.store["monitor"], store'["monitor"]}
      /\ cache'.server = IF "server" \in platform.lagging THEN cache.server ELSE server
  BY <1>0, Shows
<1>2. cache'.server = cache.server
  BY <1>1 DEF QuietInv, ServerIsShown
<1>3. store'["route"] \in {0, store["route"]}
  <2>1. "route" \in Objects /\ store \in Marks
    BY DEF Objects, TypeOK
  <2> QED
    BY <1>0, <2>1 DEF Marks
<1>4. queued => queued'
  BY DEF ObjectBecomes
<1>5. ServerIsShown' /\ RouteIsShown' /\ RoutesOnOpenShift'
  BY <1>0, <1>1, <1>2, <1>3 DEF QuietInv, ServerIsShown, RouteIsShown, RoutesOnOpenShift
<1>6. WorksForShown'
  BY <1>0, <1>2, <1>4 DEF QuietInv, WorksForShown
<1>7. CASE /\ o = "route" /\ m = store["route"] /\ m # 0 /\ ingress = {}
           /\ disturbed' = disturbed
  <2>1. store' = store
    BY <1>0, <1>7 DEF TypeOK, Marks
  <2>2. MonitorIsThere' /\ PassedMonitor'
    BY <1>0, <1>1, <1>7, <2>1 DEF QuietInv, MonitorIsThere, PassedMonitor, Undisturbed
  <2>3. PassedRoute'
    BY <1>0, <1>7, <2>1 DEF QuietInv, PassedRoute, Undisturbed, Wants
  <2>4. IdleIsDone'
    BY <1>0, <1>2, <1>4, <1>7, <2>1 DEF QuietInv, IdleIsDone, DoneFor, Undisturbed, Wants
  <2> QED
    BY <1>5, <1>6, <2>2, <2>3, <2>4 DEF QuietInv
<1>8. CASE disturbed' \/ ~server.exists
  <2>1. ~Undisturbed'
    BY <1>0, <1>8 DEF Undisturbed
  <2>2. MonitorIsThere' /\ PassedMonitor' /\ PassedRoute' /\ IdleIsDone'
    BY <2>1, Zenon DEF MonitorIsThere, PassedMonitor, PassedRoute, IdleIsDone
  <2> QED
    BY <1>5, <1>6, <2>2 DEF QuietInv
<1> QED
  BY <1>7, <1>8

\* The steps of the cluster around the operator.
LEMMA ClusterQuiet ==
    ASSUME TypeOK, NothingOverlooked, QuietInv,
           \/ Crash \/ EditSpec \/ EditLabels \/ DeleteServer
           \/ Admit \/ \E h \in Hosts : Rehost(h)
           \/ \E o \in Objects : DeleteObject(o)
           \/ SyncServer \/ SyncObjects \/ GarbageCollector
    PROVE  QuietInv'
<1>0. server \in ServerType
  BY DEF TypeOK
<1>1. CASE Crash
  <2>1. /\ UNCHANGED <<platform, server, disturbed>> /\ store' = store /\ ingress' = ingress
        /\ cache' = [server |-> server, store |-> store, ingress |-> ingress]
        /\ Return(TRUE)
    BY <1>1 DEF Crash, storeVars
  <2>2. pass'.server.hosts = {}
    BY <2>1 DEF Return, NoPass, NewServer
  <2>3. ServerIsShown' /\ RouteIsShown' /\ MonitorIsThere'
    BY <2>1 DEF ServerIsShown, RouteIsShown, MonitorIsThere
  <2>4. RoutesOnOpenShift'
    BY <2>1, <2>2 DEF QuietInv, RoutesOnOpenShift
  <2> QED
    BY <2>1, <2>3, <2>4, ReturnQuiet
<1>2. CASE EditSpec
  <2>1. PICK disable \in BOOLEAN :
            Edit([server EXCEPT !.generation = @ + 1, !.disableHTTPRoute = disable])
    BY <1>2 DEF EditSpec
  <2> DEFINE srv == [server EXCEPT !.generation = @ + 1, !.disableHTTPRoute = disable]
  <2>2. srv.exists = server.exists /\ srv.hosts = server.hosts
    BY <1>0 DEF ServerType
  <2>3. ServerBecomes(srv)
    BY <2>1 DEF Edit
  <2> HIDE DEF srv
  <2> QED
    BY <2>2, <2>3, ServerBecomesQuiet
<1>3. CASE EditLabels
  <2>1. PICK e \in LabelEdits : Edit([server EXCEPT !.labels = e[2]])
    BY <1>3 DEF EditLabels
  <2> DEFINE srv == [server EXCEPT !.labels = e[2]]
  <2>2. srv.exists = server.exists /\ srv.hosts = server.hosts
    BY <1>0 DEF ServerType
  <2>3. ServerBecomes(srv)
    BY <2>1 DEF Edit
  <2> HIDE DEF srv
  <2> QED
    BY <2>2, <2>3, ServerBecomesQuiet
<1>4. CASE DeleteServer
  <2> DEFINE srv == [server EXCEPT !.exists = FALSE]
  <2>1. ~srv.exists /\ srv.hosts = server.hosts
    BY <1>0 DEF ServerType
  <2>2. ServerBecomes(srv)
    BY <1>4 DEF DeleteServer
  <2> HIDE DEF srv
  <2> QED
    BY <2>1, <2>2, ServerBecomesQuiet
<1>5. CASE Admit
  BY <1>5, ObjectBecomesQuiet DEF Admit, Objects
<1>6. ASSUME NEW h \in Hosts, Rehost(h) PROVE QuietInv'
  BY <1>6, ObjectBecomesQuiet DEF Rehost, Objects
<1>7. ASSUME NEW o \in Objects, DeleteObject(o) PROVE QuietInv'
  BY <1>7, ObjectBecomesQuiet DEF DeleteObject, Deletion
<1>8. CASE GarbageCollector
  BY <1>8, ObjectBecomesQuiet DEF GarbageCollector, Collect, Deletion
<1>9. CASE SyncServer
  <2>1. /\ UNCHANGED <<platform, server, disturbed, pc, pass>>
        /\ store' = store /\ ingress' = ingress /\ queued'
        /\ cache'.server = server /\ cache'.store = cache.store
        /\ cache'.ingress = cache.ingress
    BY <1>9 DEF SyncServer, storeVars, TypeOK, Watched
  <2>2. ServerIsShown' /\ RouteIsShown' /\ MonitorIsThere' /\ RoutesOnOpenShift'
    BY <2>1 DEF QuietInv, ServerIsShown, RouteIsShown, MonitorIsThere, Undisturbed,
                RoutesOnOpenShift
  <2>3. PassedRoute' /\ PassedMonitor'
    BY <2>1 DEF QuietInv, PassedRoute, PassedMonitor, Undisturbed, Wants
  <2>4. WorksForShown' /\ IdleIsDone'
    BY <2>1, Zenon DEF WorksForShown, IdleIsDone
  <2> QED
    BY <2>2, <2>3, <2>4 DEF QuietInv
<1>10. CASE SyncObjects
  <2>0. PICK o \in Objects : SyncObject(o)
    BY <1>10 DEF SyncObjects
  <2>1. /\ UNCHANGED <<platform, server, disturbed, pc, pass>>
        /\ store' = store /\ ingress' = ingress
        /\ cache'.server = cache.server
        /\ cache'.store = [cache.store EXCEPT ![o] = store[o]]
        /\ cache'.ingress \in {cache.ingress, ingress}
    BY <2>0 DEF SyncObject, storeVars, TypeOK
  <2>2. queued => queued'
    BY <2>0 DEF SyncObject
  <2>3. /\ cache'.store["route"] \in {cache.store["route"], store["route"]}
        /\ cache'.store["monitor"] \in {cache.store["monitor"], store["monitor"]}
    <3>1. "route" \in Objects /\ "monitor" \in Objects /\ cache.store \in Marks
      BY DEF Objects, TypeOK
    <3> QED
      BY <2>1, <3>1 DEF Marks
  <2>4. ServerIsShown' /\ RouteIsShown' /\ MonitorIsThere' /\ RoutesOnOpenShift'
    BY <2>1, <2>3 DEF QuietInv, ServerIsShown, RouteIsShown, MonitorIsThere, Undisturbed,
                      RoutesOnOpenShift
  <2>5. PassedRoute' /\ PassedMonitor'
    BY <2>1 DEF QuietInv, PassedRoute, PassedMonitor, Undisturbed, Wants
  <2>6. WorksForShown' /\ IdleIsDone'
    BY <2>1, <2>2 DEF QuietInv, WorksForShown, IdleIsDone, Undisturbed, DoneFor, Wants
  <2> QED
    BY <2>4, <2>5, <2>6 DEF QuietInv
<1> QED
  BY <1>1, <1>2, <1>3, <1>4, <1>5, <1>6, <1>7, <1>8, <1>9, <1>10

\* Nothing is there, and the WildFlyServer is queued.
LEMMA QuietInit == ASSUME Init PROVE QuietInv
<1>1. /\ server = NewServer /\ cache.server = NewServer /\ pass.server = NewServer
      /\ queued /\ pc = "idle" /\ ingress = {} /\ cache.ingress = {}
      /\ store = NoMarks /\ cache.store = NoMarks
  BY DEF Init, NoPass
<1>2. NewServer.hosts = {} /\ NoMarks["route"] = 0 /\ NoMarks["monitor"] = 0
  BY DEF NewServer, NoMarks, Objects
<1>3. ServerIsShown /\ RouteIsShown /\ MonitorIsThere /\ RoutesOnOpenShift
  BY <1>1, <1>2 DEF ServerIsShown, RouteIsShown, MonitorIsThere, RoutesOnOpenShift
<1>4. PassedRoute /\ PassedMonitor /\ WorksForShown /\ IdleIsDone
  BY <1>1 DEF PassedRoute, PassedMonitor, WorksForShown, IdleIsDone
<1> QED
  BY <1>3, <1>4 DEF QuietInv

\* Every step keeps it.
LEMMA QuietStep ==
    ASSUME NothingOverlooked, TypeOK, Inv, QuietInv, [Next]_vars PROVE QuietInv'
<1>1. CASE Reconcile
  BY <1>1, FetchQuiet, ReconcileQuiet, UpdateStatusQuiet DEF Reconcile
<1>2. CASE UNCHANGED vars
  BY <1>2 DEF vars, storeVars, QuietInv, ServerIsShown, RouteIsShown, MonitorIsThere,
              WorksForShown, RoutesOnOpenShift, PassedRoute, PassedMonitor, IdleIsDone,
              Undisturbed, DoneFor, Wants
<1> QED
  BY <1>1, <1>2, ClusterQuiet DEF Next

\* The operator goes quiet only when the StatefulSet, the services, the route, the
\* monitor and the hosts in the status are as the WildFlyServer asks, however far the
\* other informers lag behind, whatever else fails, and whenever the operator ends.
THEOREM QuietWhenAllDone == NothingOverlooked => (Spec => []QuietOnlyWhenAllDone)
<1> SUFFICES ASSUME NothingOverlooked PROVE Spec => []QuietOnlyWhenAllDone
  OBVIOUS
<1>1. Init => QuietInv
  BY QuietInit
<1>2. TypeOK /\ Inv /\ QuietInv /\ [Next]_vars => QuietInv'
  BY QuietStep
<1>3. QuietInv => QuietOnlyWhenAllDone
  <2> SUFFICES ASSUME QuietInv, Quiet, ~disturbed PROVE Current
    BY DEF QuietOnlyWhenAllDone
  <2>1. DoneFor(server)
    BY DEF QuietInv, IdleIsDone, Undisturbed, Quiet
  <2>2. CASE Wants(server)
    BY <2>1, <2>2 DEF DoneFor, Current, RouteWanted, Wants
  <2>3. CASE ~Wants(server)
    BY <2>1, <2>3 DEF DoneFor, Current, RouteWanted, Wants
  <2> QED
    BY <2>2, <2>3
<1> QED
  BY <1>1, <1>2, <1>3, InvHolds, PTL DEF Spec
=============================================================================
