---------------------------- MODULE OwnedResources ----------------------------
(***************************************************************************)
(* The objects the operator keeps beside the pods of a WildFlyServer: its  *)
(* StatefulSet, three services, on OpenShift a route, and a ServiceMonitor *)
(* where the cluster knows that kind.  Each carries the generation of the  *)
(* WildFlyServer it was written for; the hosts of the route are published  *)
(* in the status.                                                          *)
(*                                                                         *)
(* The operator reads from the caches of its informers, which may lag      *)
(* behind the API server one by one, and writes to the API server.  The    *)
(* size of the StatefulSet and its pods are WildFlyServerController's.     *)
(***************************************************************************)
EXTENDS Integers

CONSTANTS
    MaxEdits,           \* bound: how often the user edits the WildFlyServer
    Platforms,          \* the clusters: OpenShift or not, with monitoring or not, and
                        \* the informers that lag behind
    LabelSets,          \* the sets of labels a WildFlyServer may carry
    LabelEdits,         \* pairs <<from, to>>: the changes of the labels
    InitialLabels,      \* the labels it is created with
    Hosts,              \* the hosts the route may get
    GivenHost,          \* the one the router makes of its name and namespace
    FaultKinds,         \* the kinds of failure that may happen
    MaxFaults           \* bound: how many failures happen

Services == {"cluster", "headless", "admin"}

\* The objects whose marker is compared with the generation in every pass.
Marked  == {"statefulSet"} \cup Services
Objects == Marked \cup {"route", "monitor"}

\* "api": a call of the API server fails and the error is returned; "routeRead",
\* "monitorRead": a read fails and the error is swallowed, or the discovery of the
\* kind fails; "invalid": the API server refuses the update of a service;
\* "deletion": somebody deletes an object; "rehost": the route gets another host;
\* "crash": the operator's process ends.
AllFaultKinds == {"api", "routeRead", "monitorRead", "invalid", "deletion", "rehost", "crash"}

ASSUME MaxEditsAssumption == MaxEdits \in Nat
ASSUME PlatformsAssumption == 
    Platforms \subseteq [openShift : BOOLEAN, monitoring : BOOLEAN,
                         lagging : SUBSET (Objects \cup {"server"})]
ASSUME LabelsAssumption == /\ InitialLabels \in LabelSets
                           /\ LabelEdits \subseteq LabelSets \X LabelSets
ASSUME HostsAssumption == GivenHost \in Hosts
ASSUME FaultsAssumption == FaultKinds \subseteq AllFaultKinds /\ MaxFaults \in Nat

VARIABLES
    platform,       \* the cluster the operator runs on
    edits,          \* edits so far
    server,         \* the WildFlyServer: spec, labels and published hosts
    store,          \* the marker of each object, 0 when there is no such object
    referenced,     \* the objects with an owner reference
    selector,       \* the labels of the StatefulSet's selector and of its pods
    ingress,        \* the hosts of the route
    cache,          \* what the informers show of server, store and ingress
    queued,         \* the request is in the work queue
    pc, pass,       \* the pass of Reconcile in progress
    disturbed,      \* somebody else has changed an object, and no pass has begun since
    faults          \* failures so far

storeVars == <<store, referenced, selector, ingress>>
vars == <<platform, edits, server, storeVars, cache, queued, pc, pass, disturbed, faults>>

Generations == 1 .. MaxEdits + 1

ServerType == [exists : BOOLEAN, generation : Generations, disableHTTPRoute : BOOLEAN,
               labels : LabelSets, hosts : SUBSET Hosts]

Marks == [Objects -> Generations \cup {0}]

Steps == {"idle", "statefulSet", "cluster", "headless", "admin", "route", "monitor", "status"}

TypeOK ==
    /\ platform \in Platforms
    /\ edits \in 0 .. MaxEdits
    /\ server \in ServerType
    /\ store \in Marks
    /\ referenced \subseteq Objects
    /\ selector \in LabelSets
    /\ ingress \in SUBSET Hosts
    /\ cache \in [server : ServerType, store : Marks, ingress : SUBSET Hosts]
    /\ queued \in BOOLEAN
    /\ pc \in Steps
    /\ pass \in [server : ServerType, ingress : SUBSET Hosts]
    /\ disturbed \in BOOLEAN
    /\ faults \in 0 .. MaxFaults

NewServer == [exists |-> TRUE, generation |-> 1, disableHTTPRoute |-> FALSE,
              labels |-> InitialLabels, hosts |-> {}]
NoMarks   == [o \in Objects |-> 0]
NoPass    == [server |-> NewServer, ingress |-> {}]

Init ==
    /\ platform \in Platforms
    /\ edits = 0 /\ server = NewServer
    /\ store = NoMarks /\ referenced = {}
    /\ selector = InitialLabels /\ ingress = {}
    /\ cache = [server |-> NewServer, store |-> NoMarks, ingress |-> {}]
    /\ queued = TRUE /\ pc = "idle" /\ pass = NoPass
    /\ disturbed = FALSE /\ faults = 0

-----------------------------------------------------------------------------
(* The API server, the informers, the work queue and failures.             *)

Fail(kind) == /\ kind \in FaultKinds
              /\ faults < MaxFaults
              /\ faults' = faults + 1
NoFault == UNCHANGED faults

\* Create gives an object an owner reference that does not name the WildFlyServer
\* as its controller.
IsControllerReference == FALSE

\* The kinds whose events put the WildFlyServer into the work queue.  The handler
\* behind Owns only follows controller references; the StatefulSet is watched with
\* a handler that follows every owner reference.
Watched == {"server", "statefulSet"} \cup (IF IsControllerReference THEN Objects ELSE {})

\* What the informers show after the API server has been given new values: one
\* that does not lag follows at once, and an event comes with it.
Publish(srv, marks, hosts) ==
    cache' = [server  |-> IF "server" \in platform.lagging THEN cache.server ELSE srv,
              store   |-> [o \in Objects |-> IF o \in platform.lagging THEN cache.store[o] ELSE marks[o]],
              ingress |-> IF "route" \in platform.lagging THEN cache.ingress ELSE hosts]

\* The informer of an object shows something else than the API server.
CacheLags(o) == \/ cache.store[o] # store[o]
                \/ o = "route" /\ cache.ingress # ingress

Wakes(o) == o \in Watched \ platform.lagging

Return(requeue) == /\ pc' = "idle"
                   /\ pass' = NoPass
                   /\ queued' = (queued \/ requeue)

Goto(step) == /\ pc' = step
              /\ UNCHANGED <<queued, pass>>

\* Nothing has been written to an object.
NoWrite == UNCHANGED <<storeVars, cache>>

\* A write of an object; a route that is new or gone has no hosts.
Write(o, mark) ==
    /\ store' = [store EXCEPT ![o] = mark]
    /\ ingress' = IF o = "route" THEN {} ELSE ingress
    /\ Publish(server, store', ingress')

\* The pass ends for an error, or to be run again.
EndPass == Return(TRUE) /\ NoWrite

-----------------------------------------------------------------------------
(* The resource actions.                                                   *)

\* Faulty variant: a marker of another generation is as good.
AnyGeneration(mark) == mark # 0

\* The marker that was read is that of the WildFlyServer that was read.
IsCurrentGeneration(mark) == mark = pass.server.generation

\* Faulty variant: the marker of an edit that is to come.
NextGeneration == pass.server.generation + 1

\* MarkGeneration.
Marker == pass.server.generation

\* Faulty variant: no owner reference is set.
ReferencedWithout(o) == referenced

ReferencedBy(o) == referenced \cup {o}

\* Create marks the object with the generation and sets the owner reference.  An
\* object that is there already (the cache did not show it) ends the pass.
Create(o) ==
    /\ cache.store[o] = 0
    /\ \/ /\ store[o] = 0 /\ NoFault
          /\ Write(o, Marker)
          /\ referenced' = ReferencedBy(o)
          /\ selector' = IF o = "statefulSet" THEN pass.server.labels ELSE selector
          /\ Return(TRUE)
       \/ store[o] # 0 /\ NoFault /\ EndPass
       \/ Fail("api") /\ EndPass

\* Update writes the object as it was read, with the new content and marker: it is
\* refused when the object is no longer the one that was read.
Update(o) ==
    \/ /\ cache.store[o] = store[o] /\ NoFault
       /\ Write(o, Marker)
       /\ UNCHANGED <<referenced, selector>>
       /\ Return(TRUE)
    \/ cache.store[o] # store[o] /\ NoFault /\ EndPass
    \/ Fail("api") /\ EndPass

-----------------------------------------------------------------------------
(* Reconcile.                                                              *)

\* A WildFlyServer that is not found ends the pass without another.
FetchWildFlyServer ==
    /\ pc = "idle" /\ queued
    /\ \/ /\ Fail("api") /\ UNCHANGED <<queued, pc, pass>>
       \/ /\ ~cache.server.exists /\ NoFault
          /\ queued' = FALSE /\ UNCHANGED <<pc, pass>>
       \/ /\ cache.server.exists /\ NoFault
          /\ queued' = FALSE
          /\ pass' = [NoPass EXCEPT !.server = cache.server]
          /\ pc' = "statefulSet"
    /\ disturbed' = (disturbed /\ (pc' = "idle" \/ \E o \in Objects : CacheLags(o)))
    /\ NoWrite /\ UNCHANGED <<platform, edits, server>>

\* GetPodsForWildFly asks for pods with all the labels of the WildFlyServer; they
\* carry those the StatefulSet was created with.
PodsFound == pass.server.labels \subseteq selector

\* GetOrCreateNewStatefulSet, the wait for the pods and checkStatefulSet.  The
\* selector cannot be changed and has to match the template, whose labels are
\* those of the WildFlyServer: an update with fewer labels is refused.
ReconcileStatefulSet ==
    /\ pc = "statefulSet"
    /\ \/ Create("statefulSet")
       \/ /\ cache.store["statefulSet"] # 0
          /\ \/ ~PodsFound /\ NoFault /\ EndPass
             \/ Fail("api") /\ EndPass
             \/ /\ PodsFound /\ ~IsCurrentGeneration(cache.store["statefulSet"])
                /\ \/ pass.server.labels = selector /\ Update("statefulSet")
                   \/ pass.server.labels # selector /\ NoFault /\ EndPass
             \/ /\ PodsFound /\ IsCurrentGeneration(cache.store["statefulSet"]) /\ NoFault
                /\ Goto("cluster") /\ NoWrite
    /\ UNCHANGED <<platform, edits, server, disturbed>>

NextStep == [cluster |-> "headless", headless |-> "admin", admin |-> "route"]

\* createOrUpdateService.  A service that cannot be updated is deleted, and created
\* anew by a later pass; whatever is written ends the pass.
CreateOrUpdateService(s) ==
    /\ pc = s
    /\ \/ Create(s)
       \/ /\ cache.store[s] # 0 /\ ~IsCurrentGeneration(cache.store[s])
          /\ \/ Update(s)
             \/ /\ cache.store[s] = store[s] /\ Fail("invalid")
                /\ \/ /\ Write(s, 0)
                      /\ UNCHANGED <<referenced, selector>>
                      /\ Return(TRUE)
                   \/ EndPass
       \/ /\ cache.store[s] # 0 /\ IsCurrentGeneration(cache.store[s])
          /\ \/ NoFault /\ Goto(NextStep[s]) /\ NoWrite
             \/ Fail("api") /\ EndPass
    /\ UNCHANGED <<platform, edits, server, disturbed>>

\* The rest of the pass works with the route that was read, or with an empty one.
RouteRead(hosts) == /\ pass' = [pass EXCEPT !.ingress = hosts]
                    /\ pc' = "monitor"
                    /\ UNCHANGED queued
                    /\ NoWrite

\* GetOrCreateNewRoute swallows any error of the read other than NotFound, and does
\* not compare the marker of the route.
GetOrCreateNewRoute ==
    /\ pc = "route" /\ platform.openShift /\ ~pass.server.disableHTTPRoute
    /\ \/ Create("route")
       \/ cache.store["route"] # 0 /\ NoFault /\ RouteRead(cache.ingress)
       \/ Fail("routeRead") /\ RouteRead({})
    /\ UNCHANGED <<platform, edits, server, disturbed>>

\* Faulty variant: the result is true when the route has been deleted, and the
\* pass ends there.
AfterDeletionReturn == pc' = "idle" /\ pass' = NoPass /\ UNCHANGED queued

\* DeleteExistingRoute has deleted the route: its result is false, and the pass
\* goes on.
AfterDeletion == Goto("monitor")

DeleteExistingRoute ==
    /\ pc = "route" /\ platform.openShift /\ pass.server.disableHTTPRoute
    /\ \/ cache.store["route"] = 0 /\ NoFault /\ Goto("monitor") /\ NoWrite
       \/ /\ cache.store["route"] # 0 /\ store["route"] # 0 /\ NoFault
          /\ Write("route", 0)
          /\ UNCHANGED <<referenced, selector>>
          /\ AfterDeletion
       \/ cache.store["route"] # 0 /\ store["route"] = 0 /\ NoFault /\ EndPass
       \/ Fail("api") /\ EndPass
    /\ UNCHANGED <<platform, edits, server, disturbed>>

SkipRoute ==
    /\ pc = "route" /\ ~platform.openShift
    /\ Goto("monitor") /\ NoWrite /\ NoFault
    /\ UNCHANGED <<platform, edits, server, disturbed>>

\* GetOrCreateNewServiceMonitor, where the kind is found on the cluster.  A failed
\* discovery counts as not found; a failed read is swallowed.
GetOrCreateNewServiceMonitor ==
    /\ pc = "monitor"
    /\ \/ /\ platform.monitoring /\ Create("monitor")
       \/ /\ \/ ~platform.monitoring /\ NoFault
             \/ platform.monitoring /\ cache.store["monitor"] # 0 /\ NoFault
             \/ platform.monitoring /\ Fail("monitorRead")
          /\ Goto("status") /\ NoWrite
    /\ UNCHANGED <<platform, edits, server, disturbed>>

\* Faulty variant: two empty lists of hosts are equal.
HostsDifferInContent(hosts) == hosts # pass.server.hosts

\* The list of hosts made from the route is never nil, the one of a status without
\* hosts is: DeepEqual finds the two empty lists different.
HostsDiffer(hosts) == hosts # pass.server.hosts \/ hosts = {}

NewHosts == IF pass.server.disableHTTPRoute THEN {} ELSE pass.ingress

HostsChange ==
    /\ platform.openShift
    /\ IF pass.server.disableHTTPRoute THEN pass.server.hosts # {} ELSE HostsDiffer(pass.ingress)

\* UpdateWildFlyServerStatus is refused when the WildFlyServer is no longer the one
\* that was read.  Without a change the pass ends, and asks for no other.
UpdateStatus ==
    /\ pc = "status"
    /\ \/ /\ HostsChange /\ pass.server = server /\ NoFault
          /\ server' = [server EXCEPT !.hosts = NewHosts]
          /\ Publish(server', store, ingress)
          /\ Return(TRUE)
       \/ /\ HostsChange
          /\ (pass.server # server /\ NoFault) \/ Fail("api")
          /\ Return(TRUE) /\ UNCHANGED <<server, cache>>
       \/ /\ ~HostsChange /\ NoFault
          /\ Return(FALSE) /\ UNCHANGED <<server, cache>>
    /\ UNCHANGED <<platform, edits, storeVars, disturbed>>

\* The operator's process ends.  The next one fills its caches before it starts and
\* finds every WildFlyServer in its queue.
Crash ==
    /\ pc # "idle" /\ Fail("crash")
    /\ cache' = [server |-> server, store |-> store, ingress |-> ingress]
    /\ Return(TRUE)
    /\ UNCHANGED <<platform, edits, server, storeVars, disturbed>>

-----------------------------------------------------------------------------
(* The cluster around the operator.                                        *)

\* The user changes the WildFlyServer.
ServerBecomes(srv) ==
    /\ server' = srv
    /\ Publish(srv, store, ingress)
    /\ queued' = (queued \/ Wakes("server"))
    /\ UNCHANGED <<platform, storeVars, pc, pass, disturbed, faults>>

Edit(srv) == /\ server.exists /\ edits < MaxEdits
             /\ edits' = edits + 1
             /\ ServerBecomes(srv)

EditSpec ==
    \E disable \in BOOLEAN :
        Edit([server EXCEPT !.generation = @ + 1, !.disableHTTPRoute = disable])

\* Labels are metadata: the generation stays.
EditLabels ==
    \E e \in LabelEdits : e[1] = server.labels /\ Edit([server EXCEPT !.labels = e[2]])

DeleteServer == /\ server.exists
                /\ ServerBecomes([server EXCEPT !.exists = FALSE])
                /\ UNCHANGED edits

\* Somebody other than the operator changes an object.
ObjectBecomes(o, mark, hosts) ==
    /\ store' = [store EXCEPT ![o] = mark]
    /\ ingress' = hosts
    /\ Publish(server, store', hosts)
    /\ queued' = (queued \/ Wakes(o))
    /\ UNCHANGED <<platform, edits, server, referenced, selector, pc, pass>>

Deletion(o) == ObjectBecomes(o, 0, IF o = "route" THEN {} ELSE ingress)

\* The router admits the route, or gives it another host.
Admit ==
    /\ store["route"] # 0 /\ ingress = {}
    /\ UNCHANGED <<disturbed, faults>>
    /\ ObjectBecomes("route", store["route"], {GivenHost})

Rehost(h) ==
    /\ store["route"] # 0 /\ ingress # {} /\ {h} # ingress
    /\ Fail("rehost") /\ disturbed' = TRUE
    /\ ObjectBecomes("route", store["route"], {h})

DeleteObject(o) ==
    /\ store[o] # 0
    /\ Fail("deletion") /\ disturbed' = TRUE
    /\ Deletion(o)

\* The garbage collector removes the objects whose owner is gone.
Collect(o) ==
    /\ ~server.exists /\ store[o] # 0 /\ o \in referenced
    /\ Deletion(o)
    /\ UNCHANGED <<disturbed, faults>>

\* An informer that lags catches up, and hands out the event.
SyncServer ==
    /\ cache.server # server
    /\ cache' = [cache EXCEPT !.server = server]
    /\ queued' = (queued \/ "server" \in Watched)
    /\ UNCHANGED <<platform, edits, server, storeVars, pc, pass, disturbed, faults>>

SyncObject(o) ==
    /\ CacheLags(o)
    /\ cache' = [cache EXCEPT !.store[o] = store[o],
                              !.ingress = IF o = "route" THEN ingress ELSE @]
    /\ queued' = (queued \/ o \in Watched)
    /\ UNCHANGED <<platform, edits, server, storeVars, pc, pass, disturbed, faults>>

-----------------------------------------------------------------------------
Reconcile ==
    \/ FetchWildFlyServer
    \/ ReconcileStatefulSet
    \/ \E s \in Services : CreateOrUpdateService(s)
    \/ GetOrCreateNewRoute \/ DeleteExistingRoute \/ SkipRoute
    \/ GetOrCreateNewServiceMonitor
    \/ UpdateStatus

SyncObjects == \E o \in Objects : SyncObject(o)

GarbageCollector == \E o \in Objects : Collect(o)

Next ==
    \/ Reconcile \/ Crash
    \/ EditSpec \/ EditLabels \/ DeleteServer
    \/ Admit \/ \E h \in Hosts : Rehost(h)
    \/ \E o \in Objects : DeleteObject(o)
    \/ SyncServer \/ SyncObjects
    \/ GarbageCollector

Spec == Init /\ [][Next]_vars

\* The operator serves its queue, the router admits the route, the informers catch
\* up and the garbage collector collects.  Nobody has to edit, to delete or to fail.
Fairness ==
    /\ WF_vars(Reconcile)
    /\ WF_vars(Admit)
    /\ WF_vars(SyncServer) /\ WF_vars(SyncObjects)
    /\ WF_vars(GarbageCollector)

FairSpec == Spec /\ Fairness

-----------------------------------------------------------------------------
(* Correctness.                                                            *)

RouteWanted == platform.openShift /\ ~server.disableHTTPRoute

\* Everything the WildFlyServer asks for is there, and the status says so.
Current ==
    /\ \A o \in Marked : store[o] = server.generation
    /\ (store["route"] # 0) = RouteWanted
    /\ platform.monitoring => store["monitor"] # 0
    /\ server.hosts = IF RouteWanted THEN ingress ELSE {}

\* The operator has nothing queued, and no event of a kind it watches is to come.
Quiet ==
    /\ pc = "idle" /\ ~queued /\ server.exists
    /\ cache.server = server /\ ~CacheLags("statefulSet")

\* "Set w as its ControllerReference", and Owns: a change of an object is an event,
\* so a quiet operator has left nothing undone.
QuietOnlyWhenCurrent == Quiet => Current

\* A quiet operator has left nothing undone, unless somebody else has changed an
\* object since its last pass.  Routes and services are not heard of while an edit, a
\* refused write, a swallowed read or a crash is dealt with: the requeues have to do.
QuietOnlyWhenAllDone == Quiet /\ ~disturbed => Current

\* A pass gets to the status only when the StatefulSet and the services are those of
\* the generation it works for, although each was read from a cache of its own.
StatusFollowsResources ==
    pc \in {"route", "monitor", "status"} /\ server.exists /\ ~disturbed =>
        \A o \in Marked : store[o] = pass.server.generation

\* Once the user stops, everything asked for is there for good, where the labels are
\* still those of the pods and nobody else interferes.
ResourcesConverge ==
    <>[](server.exists /\ server.labels = selector /\ ~disturbed => Current)

\* Nothing outlives the WildFlyServer, be it created by a pass that had not yet seen
\* the deletion.
NothingLeftBehind == <>[](~server.exists => store = NoMarks)
=============================================================================
