---------------------- MODULE TransactionRecoveryProofs ----------------------
(***************************************************************************)
(* Theorems about the recovery of one pod, for every set of transactions,  *)
(* every recovery port, every RestartRetryCounter and any number of        *)
(* failures.                                                               *)
(***************************************************************************)
EXTENDS TransactionRecovery, TLAPS

-----------------------------------------------------------------------------
(* The inductive invariant.  It speaks of a pod with a recovery listener   *)
(* to which nothing misleading has happened.                               *)

Undisturbed == happened = {}

\* The server has no transaction in progress, and will begin none.
Drained == /\ configured = Properties
           /\ active = {}
           /\ server = "running" => booted = Properties

\* Steps after the scan of a check, and all steps of a check.
AfterScan == {"verifyLog", "probe", "readLog", "queryHeuristics", "listDirectory", "conclude"}
InCheck   == AfterScan \cup {"timestamp", "listener", "readPort", "scan", "forgetPort"}

\* The properties are set all together, and what the annotation says is so.
AnnotationIsTrue == /\ configured \in {{}, Properties}
                    /\ pc = "restart" => configured = Properties
                    /\ setup => Drained
                    /\ held.setup => setup

\* From the restart on, the server is drained.
DrainedInPass == pc \in InCheck \cup {"awaitServer", "annotate"} => Drained

\* The first check is the first.
FirstCheck == pc \notin InCheck => held.check = 1

\* After one scan the log and the directory are empty and all orphans were met.
OneScan == pc \in AfterScan \/ (pc \in InCheck /\ held.check = 2)
              => logged = {} /\ remote = {} /\ orphans \subseteq seen

\* After the second one there is no orphan, and what is left shows in the probe.
TwoScans ==
    held.check = 2 =>
       /\ pc \in AfterScan => orphans = {}
       /\ pc \in {"readLog", "queryHeuristics"} => heuristic \subseteq probed
       /\ pc = "listDirectory" => heuristic = {}

\* The verdict, before and after it is written.
VerdictIsTrue == /\ pc = "conclude" /\ held.outcome = "clean" => Unfinished = {}
                 /\ entry = "CLEAN" => pc = "idle" /\ Drained /\ Unfinished = {}

\* Only a server whose stop is slow answers after it was told to restart.
StopsAtOnce == server # "stopping"

Sound == /\ resource
         /\ StopsAtOnce
         /\ AnnotationIsTrue
         /\ DrainedInPass
         /\ FirstCheck
         /\ OneScan
         /\ TwoScans
         /\ VerdictIsTrue

Inv == Undisturbed /\ listener => Sound

-----------------------------------------------------------------------------
(* Types.                                                                  *)

\* The server runs, nobody has touched it yet, and no transaction has begun.
LEMMA TypeInit == Init => TypeOK
<1> SUFFICES ASSUME Init PROVE TypeOK
  OBVIOUS
<1>1. ServerOK
  BY ListenersAssumption DEF Init, ServerOK, States
<1>2. TransactionsOK
  BY DEF Init, TransactionsOK
<1>3. GoroutineOK
  BY DEF Init, GoroutineOK, Nothing, Steps, Outcomes
<1>4. FaultsOK
  BY FaultsAssumption DEF Init, FaultsOK
<1> QED
  BY <1>1, <1>2, <1>3, <1>4 DEF TypeOK

\* Failures are counted within their bound.
LEMMA FailType == ASSUME NEW kind, FaultsOK, Fail(kind) PROVE FaultsOK'
  BY FaultsAssumption DEF FaultsOK, Fail

\* Nothing is counted when nothing fails.
LEMMA NoFaultType == ASSUME FaultsOK, NoFault PROVE FaultsOK'
  BY DEF FaultsOK, NoFault, faultVars

\* A management operation that is answered, or is not.
LEMMA AnswerType == ASSUME FaultsOK, Answers \/ DoesNotAnswer PROVE FaultsOK'
  BY FailType, NoFaultType DEF Answers, DoesNotAnswer

\* The ways the goroutine goes on.
LEMMA GotoType == ASSUME NEW step \in Steps, GoroutineOK, Goto(step) PROVE GoroutineOK'
  BY DEF GoroutineOK, Goto

\* The goroutine returns.
LEMMA EndsType == ASSUME Ends PROVE GoroutineOK'
  BY DEF GoroutineOK, Ends, Nothing, Steps, Outcomes

\* A check that is the first is followed by the second, and by no other.
LEMMA CheckedType == ASSUME NEW outcome \in Outcomes, GoroutineOK, Checked(outcome)
                     PROVE  GoroutineOK'
<1>1. CASE held.check = 1
  <2>1. held' = [held EXCEPT !.check = 2, !.errors = FALSE] /\ pc' \in Steps
    BY <1>1 DEF Checked, Steps
  <2>2. 2 \in 1 .. 2 /\ FALSE \in BOOLEAN
    OBVIOUS
  <2> QED
    BY <2>1, <2>2 DEF GoroutineOK
<1>2. CASE held.check # 1
  BY <1>2 DEF GoroutineOK, Checked, Steps
<1> QED
  BY <1>1, <1>2

\* A scan takes transactions out of the log and moves some to the heuristic ones.
LEMMA ScanType == ASSUME TransactionsOK, ScanDone \/ UNCHANGED txnVars, probed' = probed
                  PROVE  TransactionsOK'
<1>1. CASE ScanDone /\ resource
  BY <1>1 DEF TransactionsOK, ScanDone
<1>2. CASE UNCHANGED txnVars
  BY <1>2 DEF TransactionsOK, txnVars
<1> QED
  BY <1>1, <1>2 DEF ScanDone

\* Every operation of the goroutine and every step around it keeps the types.
LEMMA TypeStep == TypeOK /\ [Next]_vars => TypeOK'
<1> SUFFICES ASSUME TypeOK, [Next]_vars PROVE TypeOK'
  OBVIOUS
<1> USE DEF TypeOK, ServerOK, TransactionsOK, vars, serverVars, podVars, txnVars, faultVars
<1>1. CASE StartPass
  <2>1. held' = [setup |-> setup, port |-> port, check |-> 1, errors |-> FALSE,
                 outcome |-> "genericError"]
    BY <1>1 DEF StartPass, Nothing
  <2>2. GoroutineOK'
    <3>1. pc' \in Steps /\ 1 \in 1 .. 2 /\ "genericError" \in Outcomes
      BY <1>1 DEF StartPass, Steps, Outcomes
    <3> QED
      BY <2>1, <3>1 DEF GoroutineOK
  <2>3. FaultsOK'
    BY <1>1, NoFaultType DEF StartPass
  <2> QED
    BY <1>1, <2>2, <2>3 DEF StartPass, States
<1>2. CASE ReadState
  BY <1>2, FailType, NoFaultType, AnswerType, GotoType, EndsType, CheckedType
  DEF ReadState, Steps, Outcomes
<1>3. CASE SetProperties
  BY <1>3, FailType, NoFaultType, AnswerType, GotoType, EndsType, CheckedType
  DEF SetProperties, Steps, Outcomes, Properties
<1>4. CASE Restart
  BY <1>4, FailType, NoFaultType, AnswerType, GotoType, EndsType, CheckedType
  DEF Restart, Steps, Outcomes, ServerStops
<1>5. CASE AwaitServer
  BY <1>5, FailType, NoFaultType, GotoType
  DEF AwaitServer, Steps, Outcomes
<1>6. CASE DeletePod
  BY <1>6, FailType, NoFaultType, EndsType
  DEF DeletePod, Steps, Outcomes, ServerStops, PodReplaced
<1>7. CASE Annotate
  BY <1>7, FailType, NoFaultType, AnswerType, GotoType, EndsType, CheckedType
  DEF Annotate, Steps, Outcomes
<1>8. CASE Timestamp
  BY <1>8, FailType, NoFaultType, AnswerType, GotoType, EndsType, CheckedType
  DEF Timestamp, Steps, Outcomes
<1>9. CASE CheckListener
  BY <1>9, FailType, NoFaultType, AnswerType, GotoType, EndsType, CheckedType
  DEF CheckListener, Steps, Outcomes
<1>10. CASE ReadPort
  BY <1>10, FailType, NoFaultType, AnswerType, GotoType, EndsType, CheckedType
  DEF ReadPort, Steps, Outcomes, Ports, GoroutineOK
<1>11. CASE Scan
  <2>1. TransactionsOK'
    BY <1>11, ScanType DEF Scan
  <2>2. GoroutineOK'
    BY <1>11, GotoType DEF Scan, GoroutineOK, Steps
  <2>3. FaultsOK'
    BY <1>11, NoFaultType, AnswerType DEF Scan
  <2> QED
    BY <1>11, <2>1, <2>2, <2>3 DEF Scan
<1>12. CASE ForgetPort
  BY <1>12, FailType, NoFaultType, AnswerType, GotoType, EndsType, CheckedType
  DEF ForgetPort, Steps, Outcomes, PortForgotten
<1>13. CASE VerifyLog
  BY <1>13, FailType, NoFaultType, AnswerType, GotoType, EndsType, CheckedType
  DEF VerifyLog, Steps, Outcomes
<1>14. CASE Probe
  BY <1>14, FailType, NoFaultType, AnswerType, GotoType, EndsType, CheckedType
  DEF Probe, Steps, Outcomes
<1>15. CASE ReadLog
  BY <1>15, FailType, NoFaultType, AnswerType, GotoType, EndsType, CheckedType
  DEF ReadLog, Steps, Outcomes
<1>16. CASE QueryHeuristics
  BY <1>16, FailType, NoFaultType, AnswerType, GotoType, EndsType, CheckedType
  DEF QueryHeuristics, Steps, Outcomes
<1>17. CASE ListDirectory
  BY <1>17, FailType, NoFaultType, AnswerType, GotoType, EndsType, CheckedType
  DEF ListDirectory, Steps, Outcomes
<1>18. CASE Conclude
  <2>1. entry' \in States
    BY <1>18 DEF Conclude, EntryOfOutcome, GoroutineOK, Outcomes, States
  <2> QED
    BY <1>18, <2>1, FailType, NoFaultType, EndsType DEF Conclude
<1>19. CASE Boot
  BY <1>19, FailType, NoFaultType, AnswerType, GotoType, EndsType, CheckedType
  DEF Boot, Steps, Outcomes, GoroutineOK, FaultsOK
<1>20. CASE PeriodicRecovery
  <2>1. TransactionsOK'
    BY <1>20, ScanType DEF PeriodicRecovery
  <2>2. pc' \in Steps /\ (\E b \in BOOLEAN : held' = [held EXCEPT !.errors = b])
    BY <1>20 DEF PeriodicRecovery, GoroutineOK
  <2> QED
    BY <1>20, <2>1, <2>2 DEF PeriodicRecovery, GoroutineOK, FaultsOK
<1>21. CASE ResourceFails
  BY <1>21, FailType DEF ResourceFails, GoroutineOK
<1>22. CASE ResourceReturns
  BY <1>22, FailType, NoFaultType, AnswerType, GotoType, EndsType, CheckedType
  DEF ResourceReturns, Steps, Outcomes, GoroutineOK, FaultsOK
<1>23. CASE ContainerRestarts
  BY <1>23, FailType, NoFaultType, AnswerType, GotoType, EndsType, CheckedType
  DEF ContainerRestarts, Steps, Outcomes, ServerStops, GoroutineOK
<1>24. CASE Crash
  BY <1>24, FailType, NoFaultType, AnswerType, GotoType, EndsType, CheckedType
  DEF Crash, Steps, Outcomes
<1>25. ASSUME NEW t \in Transactions, BeginTransaction(t) PROVE TypeOK'
  BY <1>25 DEF BeginTransaction, GoroutineOK, FaultsOK
<1>26. ASSUME NEW t \in Transactions, EndTransaction(t) PROVE TypeOK'
  BY <1>26 DEF EndTransaction, GoroutineOK, FaultsOK
<1>27. ASSUME NEW t \in Transactions, ResolveHeuristic(t) PROVE TypeOK'
  BY <1>27 DEF ResolveHeuristic, GoroutineOK, FaultsOK
<1>28. CASE Stop
  BY <1>28 DEF Stop, ServerStops, GoroutineOK, FaultsOK
<1>29. CASE UNCHANGED vars
  BY <1>29 DEF GoroutineOK, FaultsOK
<1> QED
  BY <1>1, <1>2, <1>3, <1>4, <1>5, <1>6, <1>7, <1>8, <1>9, <1>10, <1>11, <1>12,
     <1>13, <1>14, <1>15, <1>16, <1>17, <1>18, <1>19, <1>20, <1>21, <1>22, <1>23, <1>24,
     <1>25, <1>26, <1>27, <1>28, <1>29 DEF Next, Goroutine

(* The state of the pod, its server, its transactions and its goroutine is        *)
(* well-formed; the loop of processTransactionRecoveryScaleDown makes no third    *)
(* check.                                                                         *)
THEOREM TypeCorrect == Spec => []TypeOK
  BY TypeInit, TypeStep, PTL DEF Spec

-----------------------------------------------------------------------------
(* The invariant.                                                          *)

\* What is undisturbed after a step was undisturbed before, and did not fail in a
\* misleading way.
LEMMA FailUndisturbed == ASSUME NEW kind, Fail(kind), Undisturbed'
                         PROVE  Undisturbed /\ kind \notin Misleading
  BY DEF Undisturbed, Fail

\* Nor does a step that does not fail disturb anything.
LEMMA NoFaultUndisturbed == ASSUME NoFault, Undisturbed' PROVE Undisturbed
  BY DEF Undisturbed, NoFault, faultVars

\* Failures are never forgotten, and the listener is never switched.
LEMMA StepUndisturbed == ASSUME [Next]_vars, Undisturbed', listener' PROVE Undisturbed /\ listener
<1> USE FailUndisturbed, NoFaultUndisturbed DEF NoFault, faultVars, Answers, DoesNotAnswer
<1>1. CASE StartPass
  BY <1>1 DEF StartPass
<1>2. CASE ReadState
  BY <1>2 DEF ReadState
<1>3. CASE SetProperties
  BY <1>3 DEF SetProperties
<1>4. CASE Restart
  BY <1>4 DEF Restart
<1>5. CASE AwaitServer
  BY <1>5 DEF AwaitServer
<1>6. CASE DeletePod
  BY <1>6 DEF DeletePod
<1>7. CASE Annotate
  BY <1>7 DEF Annotate
<1>8. CASE Timestamp
  BY <1>8 DEF Timestamp
<1>9. CASE CheckListener
  BY <1>9 DEF CheckListener
<1>10. CASE ReadPort
  BY <1>10 DEF ReadPort
<1>11. CASE Scan
  BY <1>11 DEF Scan
<1>12. CASE ForgetPort
  BY <1>12 DEF ForgetPort
<1>13. CASE VerifyLog
  BY <1>13 DEF VerifyLog
<1>14. CASE Probe
  BY <1>14 DEF Probe
<1>15. CASE ReadLog
  BY <1>15 DEF ReadLog
<1>16. CASE QueryHeuristics
  BY <1>16 DEF QueryHeuristics
<1>17. CASE ListDirectory
  BY <1>17 DEF ListDirectory
<1>18. CASE Conclude
  BY <1>18 DEF Conclude
<1>19. CASE Boot
  BY <1>19 DEF Boot
<1>20. CASE PeriodicRecovery
  BY <1>20 DEF PeriodicRecovery
<1>21. CASE ResourceFails
  BY <1>21 DEF ResourceFails
<1>22. CASE ResourceReturns
  BY <1>22 DEF ResourceReturns
<1>23. CASE ContainerRestarts
  BY <1>23 DEF ContainerRestarts
<1>24. CASE Crash
  BY <1>24 DEF Crash
<1>25. ASSUME NEW t \in Transactions, BeginTransaction(t) PROVE Undisturbed /\ listener
  BY <1>25 DEF BeginTransaction
<1>26. ASSUME NEW t \in Transactions, EndTransaction(t) PROVE Undisturbed /\ listener
  BY <1>26 DEF EndTransaction
<1>27. ASSUME NEW t \in Transactions, ResolveHeuristic(t) PROVE Undisturbed /\ listener
  BY <1>27 DEF ResolveHeuristic
<1>28. CASE Stop
  BY <1>28 DEF Stop
<1>29. CASE UNCHANGED vars
  BY <1>29 DEF vars
<1> QED
  BY <1>1, <1>2, <1>3, <1>4, <1>5, <1>6, <1>7, <1>8, <1>9, <1>10, <1>11, <1>12,
     <1>13, <1>14, <1>15, <1>16, <1>17, <1>18, <1>19, <1>20, <1>21, <1>22, <1>23, <1>24,
     <1>25, <1>26, <1>27, <1>28, <1>29 DEF Next, Goroutine

\* Before the first pass nothing is annotated, checked or decided.
LEMMA SoundInit == Init => Sound
  BY DEF Init, Nothing, Sound, AnnotationIsTrue, DrainedInPass, FirstCheck, OneScan, TwoScans,
         VerdictIsTrue, StopsAtOnce, InCheck, AfterScan

\* The end of a check keeps the invariant if an outcome "clean" of the second is true.
LEMMA CheckedSound ==
  ASSUME TypeOK, Sound, pc \in AfterScan, NEW outcome, Checked(outcome),
         held.check = 2 /\ outcome = "clean" => Unfinished = {},
         UNCHANGED <<serverVars, podVars, listener, txnVars, probed, resource, entry>>
  PROVE  Sound'
<1> USE DEF Sound, AnnotationIsTrue, DrainedInPass, FirstCheck, OneScan, TwoScans,
        VerdictIsTrue, StopsAtOnce, Drained, InCheck, AfterScan, Unfinished, TypeOK, GoroutineOK,
        serverVars, podVars, txnVars
<1>1. CASE held.check = 1
  BY <1>1 DEF Checked
<1>2. CASE held.check # 1
  <2>1. held.check = 2
    BY <1>2
  <2>2. /\ pc' = "conclude"
        /\ held' = [held EXCEPT !.outcome = outcome, !.errors = FALSE]
    BY <1>2 DEF Checked
  <2>3. held'.check = 2 /\ held'.setup = held.setup /\ held'.outcome = outcome
    BY <2>1, <2>2
  <2>4. Drained' /\ Unfinished' = Unfinished
    OBVIOUS
  <2> QED
    BY <2>1, <2>2, <2>3, <2>4
<1> QED
  BY <1>1, <1>2

\* One step per operation; only a misleading failure would break the invariant.
LEMMA SoundStep == ASSUME TypeOK, Sound, [Next]_vars, Undisturbed', listener PROVE Sound'
<1> USE FailUndisturbed DEF Sound, AnnotationIsTrue, DrainedInPass, FirstCheck, OneScan, TwoScans,
        VerdictIsTrue, StopsAtOnce, Up, Drained, InCheck, AfterScan, Misleading, Unfinished,
        TypeOK, GoroutineOK, vars, serverVars, podVars, txnVars, faultVars
<1>1. CASE StartPass
  BY <1>1 DEF StartPass, Nothing
<1>2. CASE ReadState
  <2>1. CASE DoesNotAnswer /\ Ends
    BY <1>2, <2>1 DEF ReadState, Ends, Nothing
  <2>2. CASE held.setup /\ Goto("timestamp")
    BY <1>2, <2>2 DEF ReadState, Goto
  <2>3. CASE ~held.setup /\ Goto("setProperties")
    BY <1>2, <2>3 DEF ReadState, Goto
  <2> QED
    BY <1>2, <2>1, <2>2, <2>3 DEF ReadState
<1>3. CASE SetProperties
  BY <1>3 DEF SetProperties, DoesNotAnswer, NoFault, Goto, Ends, Nothing, Properties
<1>4. CASE Restart
  BY <1>4 DEF Restart, Goto, ServerStops
<1>5. CASE AwaitServer
  BY <1>5 DEF AwaitServer, Goto
<1>6. CASE DeletePod
  BY <1>6 DEF DeletePod, Ends, Nothing, ServerStops, PodReplaced
<1>7. CASE Annotate
  <2>1. CASE Ends /\ UNCHANGED podVars
    BY <1>7, <2>1 DEF Annotate, Ends, Nothing
  <2>2. CASE setup' = TRUE /\ Goto("timestamp")
    BY <1>7, <2>2 DEF Annotate, Goto
  <2> QED
    BY <1>7, <2>1, <2>2 DEF Annotate
<1>8. CASE Timestamp
  BY <1>8 DEF Timestamp, Goto, Ends, Nothing
<1>9. CASE CheckListener
  BY <1>9 DEF CheckListener, Goto, Ends, Nothing
<1>10. CASE ReadPort
  BY <1>10 DEF ReadPort, Ends, Nothing
<1>11. CASE Scan
  <2>1. CASE Goto("forgetPort") /\ UNCHANGED txnVars
    BY <1>11, <2>1 DEF Scan, Goto
  <2>2. CASE server = "running" /\ ScanDone /\ pc' = "verifyLog" /\ held'.check = held.check
                /\ held'.setup = held.setup
    <3>1. "recoveryPeriods" \in booted
      BY <1>11, <2>2 DEF Scan, Properties
    <3>2. /\ logged' = {} /\ remote' = {} /\ orphans' = orphans \ seen /\ seen' = orphans'
      BY <2>2, <3>1 DEF ScanDone
    <3>3. held.check = 2 => orphans' = {}
      BY <1>11, <3>2 DEF Scan
    <3> QED
      BY <1>11, <2>2, <3>2, <3>3 DEF Scan, ScanDone
  <2> QED
    BY <1>11, <2>1, <2>2 DEF Scan, Answers
<1>12. CASE ForgetPort
  BY <1>12 DEF ForgetPort, Ends, Nothing
<1>13. CASE VerifyLog
  <2>1. CASE Ends
    BY <1>13, <2>1 DEF VerifyLog, Ends, Nothing
  <2>2. CASE Goto("probe")
    BY <1>13, <2>2 DEF VerifyLog, Goto
  <2>3. CASE Checked("genericError")
    BY <1>13, <2>3, CheckedSound DEF VerifyLog
  <2> QED
    BY <1>13, <2>1, <2>2, <2>3 DEF VerifyLog
<1>14. CASE Probe
  BY <1>14 DEF Probe, Goto, Ends, Nothing
<1>15. CASE ReadLog
  BY <1>15 DEF ReadLog, Goto, Ends, Nothing
<1>16. CASE QueryHeuristics
  <2>1. CASE Ends
    BY <1>16, <2>1 DEF QueryHeuristics, Ends, Nothing
  <2>2. ASSUME NEW outcome \in {"heuristic", "recovery"}, Checked(outcome) PROVE Sound'
    BY <1>16, <2>2, CheckedSound DEF QueryHeuristics
  <2> QED
    BY <1>16, <2>1, <2>2 DEF QueryHeuristics
<1>17. CASE ListDirectory
  <2>1. CASE Ends
    BY <1>17, <2>1 DEF ListDirectory, Ends, Nothing
  <2>2. held.check = 2 => Unfinished = {}
    BY <1>17 DEF ListDirectory
  <2>3. ASSUME NEW outcome \in {"recovery", "clean"}, Checked(outcome) PROVE Sound'
    BY <1>17, <2>2, <2>3, CheckedSound DEF ListDirectory
  <2> QED
    BY <1>17, <2>1, <2>3 DEF ListDirectory
<1>18. CASE Conclude
  <2>1. entry' = "CLEAN" => Drained /\ Unfinished = {}
    BY <1>18 DEF Conclude, EntryOfOutcome, Outcomes
  <2> QED
    BY <1>18, <2>1 DEF Conclude, Ends, Nothing
<1>19. CASE Boot
  BY <1>19 DEF Boot
<1>20. CASE PeriodicRecovery
  BY <1>20 DEF PeriodicRecovery, ScanDone
<1>21. CASE ResourceFails
  BY <1>21 DEF ResourceFails
<1>22. CASE ResourceReturns
  BY <1>22 DEF ResourceReturns
<1>23. CASE ContainerRestarts
  BY <1>23 DEF ContainerRestarts
<1>24. CASE Crash
  BY <1>24 DEF Crash, Ends, Nothing
<1>25. ASSUME NEW t \in Transactions, BeginTransaction(t) PROVE Sound'
  <2>1. ~Drained
    BY <1>25 DEF BeginTransaction, Properties
  <2> QED
    BY <1>25, <2>1 DEF BeginTransaction
<1>26. ASSUME NEW t \in Transactions, EndTransaction(t) PROVE Sound'
  BY <1>26 DEF EndTransaction
<1>27. ASSUME NEW t \in Transactions, ResolveHeuristic(t) PROVE Sound'
  BY <1>27 DEF ResolveHeuristic
<1>28. CASE Stop
  BY <1>28 DEF Stop
<1>29. CASE UNCHANGED vars
  BY <1>29
<1> QED
  BY <1>1, <1>2, <1>3, <1>4, <1>5, <1>6, <1>7, <1>8, <1>9, <1>10, <1>11, <1>12,
     <1>13, <1>14, <1>15, <1>16, <1>17, <1>18, <1>19, <1>20, <1>21, <1>22, <1>23, <1>24,
     <1>25, <1>26, <1>27, <1>28, <1>29 DEF Next, Goroutine

\* With the premise that makes it inductive.
LEMMA InvStep == TypeOK /\ Inv /\ [Next]_vars => Inv'
<1> SUFFICES ASSUME TypeOK, Inv, [Next]_vars, Undisturbed', listener' PROVE Sound'
  BY DEF Inv
<1>1. Undisturbed /\ listener
  BY StepUndisturbed
<1> QED
  BY <1>1, SoundStep DEF Inv

(* A pod with a recovery listener that is marked CLEAN has no transaction left    *)
(* in its server, its log, its directory or at a resource, and gets none, as long *)
(* as no failure has happened that the code cannot notice: checkRecovery, run     *)
(* twice on a server that was restarted with the recovery properties, is enough.  *)
THEOREM CleanIsReliable == Spec => []CleanIsFinishedUnlessMisled
<1>1. Init => Inv
  BY SoundInit DEF Inv
<1>2. Inv => CleanIsFinishedUnlessMisled
  BY DEF Inv, Sound, VerdictIsTrue, Undisturbed, CleanIsFinishedUnlessMisled, CleanIsFinished
<1> QED
  BY <1>1, <1>2, InvStep, TypeCorrect, PTL DEF Spec
=============================================================================
