------------------------- MODULE TransactionRecovery -------------------------
(***************************************************************************)
(* The recovery of one pod that is scaled down, operation by operation:    *)
(* the goroutine that prepares the application server, restarts it and     *)
(* checks its transactions twice in every pass, beside the server, its     *)
(* recovery manager and the resources of its transactions.                 *)
(*                                                                         *)
(* WildFlyServerController takes the preparation and the check for single  *)
(* steps of a pod that stands still.  Here every remote operation is a     *)
(* step, any of them may fail, and what the pod's annotations say is kept  *)
(* apart from what the server's configuration says.                        *)
(***************************************************************************)
EXTENDS Naturals, FiniteSets

CONSTANTS
    Transactions,           \* the transactions the applications begin
    HeuristicTransactions,  \* those that cannot be finished automatically
    Listeners,              \* whether the recovery listener may be on, or off
    RecoveryPort,           \* the port of the recovery listener
    RestartRetryCounter,    \* how often the restarted server is asked for its state
    FaultKinds,             \* the kinds of failure that may happen
    MaxFaults               \* bound: how many failures happen

DefaultPort == "4712"
NoPort      == "none"
Ports       == {DefaultPort, RecoveryPort}

\* "exec": a CLI operation, a socket, a shell command or a log read fails;
\* "api": a call of the API server fails; "restart": the server is not back in time;
\* "partial": only the first of the property operations is done; "probe": the probe
\* of the log store is answered, but was not successful; "resource": an XA resource
\* cannot be reached for a while; "container": the kubelet starts the container
\* anew, in place and from its image; "slowStop": a restart is answered and the old
\* server goes on for a while; "crash": the operator's process ends.
AllFaultKinds == {"exec", "api", "crash", "restart", "partial", "probe", "resource", "container",
                  "slowStop"}

\* Those the code does not notice, after which its verdict cannot be relied on.
Misleading == {"partial", "probe", "resource", "container", "slowStop"}

ASSUME TransactionsAssumption == HeuristicTransactions \subseteq Transactions
ASSUME ListenersAssumption    == Listeners \subseteq BOOLEAN
ASSUME PortAssumption         == RecoveryPort # NoPort
ASSUME RetryAssumption        == RestartRetryCounter \in Nat
ASSUME FaultsAssumption       == FaultKinds \subseteq AllFaultKinds /\ MaxFaults \in Nat

VARIABLES
    server,         \* "running", "stopping" before a restart, or "stopped" until it
                    \* has started (again)
    configured,     \* the recovery properties in the server's configuration
    booted,         \* those the server has been started with
    setup, port,    \* the pod's annotations
    listener,       \* the transaction subsystem has its recovery listener on
    fresh,          \* transactions not begun yet
    active,         \* transactions in progress in the server
    logged, heuristic,  \* transactions in the log store
    remote,         \* transactions in the directory of the WildFly client
    orphans,        \* prepared at a resource, but without a record
    seen,           \* of those, the ones the recovery manager has met once
    probed,         \* the log store as the management operations show it
    resource,       \* the XA resources can be reached
    entry,          \* the pod's State in WildFlyServer.Status.Pods
    pc, held,       \* the goroutine, and what it has read
    happened, faults    \* the misleading failures so far, and the number of all

serverVars == <<server, configured, booted>>
podVars    == <<setup, port>>
txnVars    == <<fresh, active, logged, heuristic, remote, orphans, seen>>
faultVars  == <<happened, faults>>

vars == <<serverVars, podVars, listener, txnVars, probed, resource, entry, pc, held, faultVars>>

-----------------------------------------------------------------------------
Properties == {"recoveryPeriods", "transactionManagerDisabled"}
States     == {"ACTIVE", "INVESTIGATION", "PROCESSING", "HEURISTICS", "CLEAN"}
Outcomes   == {"clean", "recovery", "heuristic", "genericError"}

Steps == {"idle", "readState", "setProperties", "restart", "awaitServer", "deletePod",
          "annotate", "timestamp", "listener", "readPort", "scan", "forgetPort", "verifyLog", "probe",
          "readLog", "queryHeuristics", "listDirectory", "conclude"}

\* The goroutine holds the pod as it was listed, the number of its check, whether
\* the log has shown an error since the timestamp, and the outcome of the check.
Nothing == [setup |-> FALSE, port |-> NoPort, check |-> 1, errors |-> FALSE,
            outcome |-> "genericError"]

ServerOK == /\ server \in {"running", "stopping", "stopped"}
            /\ configured \subseteq Properties /\ booted \subseteq Properties
            /\ setup \in BOOLEAN /\ port \in Ports \cup {NoPort}
            /\ listener \in BOOLEAN /\ resource \in BOOLEAN
            /\ entry \in States

TransactionsOK == \A set \in {fresh, active, logged, heuristic, remote, orphans, seen, probed} :
                     set \subseteq Transactions

GoroutineOK ==
    /\ pc \in Steps
    /\ held \in [setup : BOOLEAN, port : Ports \cup {NoPort}, check : 1 .. 2,
                 errors : BOOLEAN, outcome : Outcomes]

FaultsOK == happened \subseteq FaultKinds \cap Misleading /\ faults \in 0 .. MaxFaults

TypeOK == ServerOK /\ TransactionsOK /\ GoroutineOK /\ FaultsOK

Init ==
    /\ server = "running" /\ configured = {} /\ booted = {}
    /\ setup = FALSE /\ port = NoPort
    /\ listener \in Listeners
    /\ fresh = Transactions /\ active = {} /\ logged = {} /\ heuristic = {}
    /\ remote = {} /\ orphans = {} /\ seen = {} /\ probed = {}
    /\ resource = TRUE
    /\ entry = "ACTIVE"
    /\ pc = "idle" /\ held = Nothing
    /\ happened = {} /\ faults = 0

-----------------------------------------------------------------------------
(* Failures and the ways a goroutine goes on.                              *)

Fail(kind) == /\ kind \in FaultKinds /\ faults < MaxFaults
              /\ faults' = faults + 1
              /\ happened' = happened \cup ({kind} \cap Misleading)
NoFault == UNCHANGED faultVars

\* A server that is to restart answers until it has stopped.
Up == server \in {"running", "stopping"}

\* A management operation, or an attempt at it that brings no answer: the operation
\* may have been done all the same.
Answers       == Up /\ NoFault
DoesNotAnswer == (~Up /\ NoFault) \/ Fail("exec")

Goto(step) == pc' = step /\ UNCHANGED held
Ends       == pc' = "idle" /\ held' = Nothing

\* Faulty variant: a single check.
CheckedOnce(outcome) ==
    pc' = "conclude" /\ held' = [held EXCEPT !.outcome = outcome, !.errors = FALSE]

\* Faulty variant: the loop runs once too often.
CheckedThrice(outcome) ==
    IF held.check <= 2
    THEN pc' = "timestamp" /\ held' = [held EXCEPT !.check = @ + 1, !.errors = FALSE]
    ELSE pc' = "conclude" /\ held' = [held EXCEPT !.outcome = outcome, !.errors = FALSE]

\* A check has its outcome; only the outcome of the second one is used.
Checked(outcome) ==
    IF held.check = 1
    THEN pc' = "timestamp" /\ held' = [held EXCEPT !.check = 2, !.errors = FALSE]
    ELSE pc' = "conclude" /\ held' = [held EXCEPT !.outcome = outcome, !.errors = FALSE]

\* A server that stops takes its active transactions with it: each has a record in
\* the log, or is prepared at its resource only, or is gone.  The recovery manager
\* and the view of the log store begin anew.
ServerStops ==
    /\ server' = "stopped"
    /\ \E l \in SUBSET active : \E o \in SUBSET (active \ l) :
          logged' = logged \cup l /\ orphans' = orphans \cup o
    /\ active' = {} /\ seen' = {} /\ probed' = {}
    /\ UNCHANGED <<fresh, heuristic, remote>>

\* The pod is replaced by one with a new container and without annotations; the
\* volume with the log store stays.
PodReplaced ==
    /\ ServerStops
    /\ configured' = {} /\ booted' = {}
    /\ setup' = FALSE /\ port' = NoPort

-----------------------------------------------------------------------------
(* setupRecoveryPropertiesAndRestart.                                      *)

\* A pass works on the pod until it is CLEAN, from the pod as it lists it.
StartPass ==
    /\ pc = "idle" /\ entry # "CLEAN"
    /\ entry' = IF entry = "ACTIVE" THEN "INVESTIGATION" ELSE entry
    /\ pc' = "readState"
    /\ held' = [Nothing EXCEPT !.setup = setup, !.port = port]
    /\ NoFault
    /\ UNCHANGED <<serverVars, podVars, listener, txnVars, probed, resource>>

ReadState ==
    /\ pc = "readState"
    /\ \/ DoesNotAnswer /\ Ends
       \/ Answers /\ Goto(IF held.setup THEN "timestamp" ELSE "setProperties")
    /\ UNCHANGED <<serverVars, podVars, listener, txnVars, probed, resource, entry>>

\* Three operations in one command, which ends at the first that fails; only the
\* answer to the first is read, and that it is a duplicate is no failure.
SetProperties ==
    /\ pc = "setProperties"
    /\ \/ DoesNotAnswer /\ Ends /\ UNCHANGED configured
       \/ Up /\ Fail("exec") /\ Ends /\ configured' = Properties
       \/ /\ Up /\ Goto("restart")
          /\ \/ "recoveryPeriods" \in configured /\ NoFault /\ UNCHANGED configured
             \/ "recoveryPeriods" \notin configured /\ NoFault /\ configured' = Properties
             \/ /\ "recoveryPeriods" \notin configured /\ Fail("partial")
                /\ configured' = {"recoveryPeriods"}
    /\ UNCHANGED <<server, booted, podVars, listener, txnVars, probed, resource, entry>>

\* The answer may come before the server has stopped.
Restart ==
    /\ pc = "restart"
    /\ \/ /\ \/ Answers /\ Goto("awaitServer")
             \/ Up /\ Fail("exec") /\ Goto("deletePod")
          /\ ServerStops
       \/ /\ Up /\ Fail("slowStop")
          /\ Goto("awaitServer") \/ Goto("deletePod")
          /\ server' = "stopping" /\ UNCHANGED <<txnVars, probed>>
       \/ /\ DoesNotAnswer /\ Goto("deletePod")
          /\ UNCHANGED <<server, txnVars, probed>>
    /\ UNCHANGED <<configured, booted, podVars, listener, resource, entry>>

\* The server is asked for its state until it is running, RestartRetryCounter times
\* at most: with 0 the wait is over at once, and successful.  A server that has not
\* stopped yet is taken for one that has been restarted.
AwaitServer ==
    /\ pc = "awaitServer"
    /\ \/ /\ Up \/ RestartRetryCounter = 0
          /\ NoFault /\ Goto("annotate")
       \/ /\ server # "running" /\ RestartRetryCounter # 0
          /\ Fail("restart") /\ Goto("deletePod")
    /\ UNCHANGED <<serverVars, podVars, listener, txnVars, probed, resource, entry>>

\* After a failed restart the pod is deleted; whether it was is not looked at.
DeletePod ==
    /\ pc = "deletePod"
    /\ \/ NoFault /\ PodReplaced
       \/ Fail("api") /\ UNCHANGED <<serverVars, podVars, txnVars, probed>>
    /\ Ends
    /\ UNCHANGED <<listener, resource, entry>>

Annotate ==
    /\ pc = "annotate"
    /\ \/ Fail("api") /\ Ends /\ UNCHANGED podVars
       \/ NoFault /\ setup' = TRUE /\ Goto("timestamp") /\ UNCHANGED port
    /\ UNCHANGED <<serverVars, listener, txnVars, probed, resource, entry>>

-----------------------------------------------------------------------------
(* checkRecovery, twice.                                                   *)

\* The log is read from its latest line on; without a known port the listener is
\* asked about.
Timestamp ==
    /\ pc = "timestamp"
    /\ \/ Fail("exec") /\ Ends
       \/ NoFault /\ Goto(IF held.port = NoPort THEN "listener" ELSE "scan")
    /\ UNCHANGED <<serverVars, podVars, listener, txnVars, probed, resource, entry>>

\* A pod without a recovery listener is taken to be clean.
CheckListener ==
    /\ pc = "listener"
    /\ \/ DoesNotAnswer /\ Ends
       \/ Answers /\ listener /\ Goto("readPort")
       \/ Answers /\ ~listener /\ Checked("clean")
    /\ UNCHANGED <<serverVars, podVars, listener, txnVars, probed, resource, entry>>

\* The port is read, or else the default taken, and saved as an annotation.
ReadPort ==
    /\ pc = "readPort"
    /\ \/ \E p \in Ports :
             /\ \/ p = RecoveryPort /\ Answers
                \/ p = DefaultPort /\ DoesNotAnswer
             /\ port' = p
             /\ held' = [held EXCEPT !.port = p]
             /\ pc' = "scan"
       \/ Fail("api") /\ Ends /\ UNCHANGED port
    /\ UNCHANGED <<serverVars, setup, listener, txnVars, probed, resource, entry>>

\* A scan of the recovery manager finishes what is in the log and in the directory;
\* an orphan is rolled back by the second scan that meets it, if the interval that
\* protects it has been cut short.  It does nothing when a resource is missing.
ScanDone ==
    IF resource
    THEN /\ logged' = {} /\ remote' = {}
         /\ heuristic' = heuristic \cup (logged \cap HeuristicTransactions)
         /\ orphans' = IF "recoveryPeriods" \in booted THEN orphans \ seen ELSE orphans
         /\ seen' = orphans'
         /\ UNCHANGED <<fresh, active>>
    ELSE UNCHANGED txnVars

Scan ==
    /\ pc = "scan"
    /\ \/ /\ Answers /\ held.port = RecoveryPort
          /\ ScanDone
          /\ held' = [held EXCEPT !.errors = @ \/ ~resource]
          /\ pc' = "verifyLog"
       \/ /\ (held.port # RecoveryPort /\ NoFault) \/ DoesNotAnswer
          /\ Goto("forgetPort") /\ UNCHANGED txnVars
    /\ UNCHANGED <<serverVars, podVars, listener, probed, resource, entry>>

\* Faulty variant: the annotation is kept.
PortKept == port

\* A port that did not work is forgotten.
PortForgotten == NoPort

ForgetPort ==
    /\ pc = "forgetPort"
    /\ \/ NoFault /\ port' = PortForgotten
       \/ Fail("api") /\ UNCHANGED port
    /\ Ends
    /\ UNCHANGED <<serverVars, setup, listener, txnVars, probed, resource, entry>>

\* An error in the log is an outcome of the check, not an error of the goroutine.
VerifyLog ==
    /\ pc = "verifyLog"
    /\ \/ Fail("exec") /\ Ends
       \/ NoFault /\ held.errors /\ Checked("genericError")
       \/ NoFault /\ ~held.errors /\ Goto("probe")
    /\ UNCHANGED <<serverVars, podVars, listener, txnVars, probed, resource, entry>>

\* Whether the probe was successful is not looked at.
Probe ==
    /\ pc = "probe"
    /\ \/ DoesNotAnswer /\ Ends /\ UNCHANGED probed
       \/ Answers /\ probed' = logged \cup heuristic /\ Goto("readLog")
       \/ Up /\ Fail("probe") /\ Goto("readLog") /\ UNCHANGED probed
    /\ UNCHANGED <<serverVars, podVars, listener, txnVars, resource, entry>>

ReadLog ==
    /\ pc = "readLog"
    /\ \/ DoesNotAnswer /\ Ends
       \/ Answers /\ Goto(IF probed = {} THEN "listDirectory" ELSE "queryHeuristics")
    /\ UNCHANGED <<serverVars, podVars, listener, txnVars, probed, resource, entry>>

\* One query for each of the five heuristic states.
QueryHeuristics ==
    /\ pc = "queryHeuristics"
    /\ \/ DoesNotAnswer /\ Ends
       \/ Answers /\ Checked(IF probed \cap heuristic # {} THEN "heuristic" ELSE "recovery")
    /\ UNCHANGED <<serverVars, podVars, listener, txnVars, probed, resource, entry>>

\* The shell answers whether or not the server does.
ListDirectory ==
    /\ pc = "listDirectory"
    /\ \/ Fail("exec") /\ Ends
       \/ NoFault /\ Checked(IF remote # {} THEN "recovery" ELSE "clean")
    /\ UNCHANGED <<serverVars, podVars, listener, txnVars, probed, resource, entry>>

\* The state that the outcome of the second check gives the pod.
EntryOfOutcome == CASE held.outcome = "clean"        -> "CLEAN"
                    [] held.outcome = "recovery"     -> "PROCESSING"
                    [] held.outcome = "heuristic"    -> "HEURISTICS"
                    [] held.outcome = "genericError" -> entry

\* The status is written, or refused.
Conclude ==
    /\ pc = "conclude"
    /\ \/ NoFault /\ entry' = EntryOfOutcome
       \/ Fail("api") /\ UNCHANGED entry
    /\ Ends
    /\ UNCHANGED <<serverVars, podVars, listener, txnVars, probed, resource>>

-----------------------------------------------------------------------------
(* The server, its transactions and their resources.                       *)

Boot ==
    /\ server = "stopped"
    /\ server' = "running" /\ booted' = configured
    /\ UNCHANGED <<configured, podVars, listener, txnVars, probed, resource, entry,
                   pc, held, faultVars>>

\* A server that is to restart stops in the end.
Stop ==
    /\ server = "stopping"
    /\ ServerStops
    /\ UNCHANGED <<configured, booted, podVars, listener, resource, entry, pc, held, faultVars>>

\* A server started with a disabled transaction manager begins no transaction.
BeginTransaction(t) ==
    /\ Up /\ "transactionManagerDisabled" \notin booted /\ t \in fresh
    /\ fresh' = fresh \ {t} /\ active' = active \cup {t}
    /\ UNCHANGED <<serverVars, podVars, listener, logged, heuristic, remote, orphans, seen,
                   probed, resource, entry, pc, held, faultVars>>

\* A transaction ends, or has to be left to the recovery manager.
EndTransaction(t) ==
    /\ Up /\ t \in active
    /\ active' = active \ {t}
    /\ \/ UNCHANGED <<logged, remote>>
       \/ logged' = logged \cup {t} /\ UNCHANGED remote
       \/ remote' = remote \cup {t} /\ UNCHANGED logged
    /\ UNCHANGED <<serverVars, podVars, listener, fresh, heuristic, orphans, seen,
                   probed, resource, entry, pc, held, faultVars>>

\* The recovery manager scans of its own accord, too, and errors it logs after the
\* timestamp was taken count as the check's.
LogIsRead == {"listener", "readPort", "scan", "verifyLog"}
PeriodicRecovery ==
    /\ Up
    /\ ScanDone
    /\ held' = [held EXCEPT !.errors = IF pc \in LogIsRead THEN @ \/ ~resource ELSE @]
    /\ UNCHANGED <<serverVars, podVars, listener, probed, resource, entry, pc, faultVars>>

\* The administrator resolves what only an administrator can.
ResolveHeuristic(t) ==
    /\ Up /\ t \in heuristic
    /\ heuristic' = heuristic \ {t}
    /\ UNCHANGED <<serverVars, podVars, listener, fresh, active, logged, remote, orphans, seen,
                   probed, resource, entry, pc, held, faultVars>>

ResourceFails ==
    /\ resource /\ Fail("resource")
    /\ resource' = FALSE
    /\ UNCHANGED <<serverVars, podVars, listener, txnVars, probed, entry, pc, held>>

ResourceReturns ==
    /\ ~resource
    /\ resource' = TRUE
    /\ UNCHANGED <<serverVars, podVars, listener, txnVars, probed, entry, pc, held, faultVars>>

\* The configuration is lost with the container, the annotations are not.
ContainerRestarts ==
    /\ Fail("container")
    /\ ServerStops
    /\ configured' = {} /\ booted' = {}
    /\ UNCHANGED <<podVars, listener, resource, entry, pc, held>>

\* The next pass of a new operator begins with what the API server has.
Crash ==
    /\ pc # "idle" /\ Fail("crash") /\ Ends
    /\ UNCHANGED <<serverVars, podVars, listener, txnVars, probed, resource, entry>>

-----------------------------------------------------------------------------
Goroutine ==
    \/ StartPass \/ ReadState \/ SetProperties \/ Restart \/ AwaitServer \/ DeletePod
    \/ Annotate \/ Timestamp \/ CheckListener \/ ReadPort \/ Scan \/ ForgetPort
    \/ VerifyLog \/ Probe \/ ReadLog \/ QueryHeuristics \/ ListDirectory \/ Conclude

Next ==
    \/ Goroutine
    \/ Stop \/ Boot \/ PeriodicRecovery
    \/ \E t \in Transactions : BeginTransaction(t) \/ EndTransaction(t) \/ ResolveHeuristic(t)
    \/ ResourceFails \/ ResourceReturns \/ ContainerRestarts \/ Crash

Spec == Init /\ [][Next]_vars

\* The operator comes back to the pod, the server stops and starts, resources return and the
\* administrator does what is left to do.  Nobody has to begin a transaction, and
\* the recovery manager need not do anything of its own accord.
Fairness ==
    /\ WF_vars(Goroutine)
    /\ WF_vars(Stop)
    /\ WF_vars(Boot)
    /\ WF_vars(ResourceReturns)
    /\ \A t \in Transactions : WF_vars(ResolveHeuristic(t))

FairSpec == Spec /\ Fairness

-----------------------------------------------------------------------------
(* Correctness.                                                            *)

Unfinished == active \cup logged \cup heuristic \cup remote \cup orphans

\* "Verifies if all transactions were finished and only then marks the pod as clean
\* for termination": a pod with a recovery listener that is marked CLEAN has no
\* transaction left anywhere, and gets none.
CleanIsFinished == entry = "CLEAN" /\ listener => Unfinished = {}

\* Whatever else fails, and wherever: failed and repeated preparations, a server
\* that is slow to restart or not waited for, a lost answer between the two checks,
\* a refused annotation or status.
CleanIsFinishedUnlessMisled == happened = {} => CleanIsFinished

\* Once the failures end, the pod becomes CLEAN and stays so: no failure leaves
\* behind an annotation, a configuration or a port that the goroutine cannot get past.
BecomesClean == <>[](entry = "CLEAN")
=============================================================================
