-------------------------- MODULE ScaleDownContract --------------------------
(***************************************************************************)
(* What the user is promised of a scale down: the deployment keeps a pod   *)
(* for as long as that pod has an unfinished transaction, and never goes   *)
(* below the size that was asked for.  Nothing is said of how pods are     *)
(* taken off the load balancer, restarted, checked and reported.           *)
(***************************************************************************)
EXTENDS Integers

CONSTANT MaxPods

VARIABLES
    target,     \* the size the user asks for
    deployed,   \* whether the deployment exists
    size,       \* its size
    unfinished  \* the pods with unfinished transactions

vars == <<target, deployed, size, unfinished>>

Init == /\ target \in 0 .. MaxPods
        /\ ~deployed /\ size = 0
        /\ unfinished = {}

\* The user asks for less.
Lower == /\ target' \in 0 .. target - 1
         /\ UNCHANGED <<deployed, size, unfinished>>

\* The deployment comes into being with a size asked for at some time.
Deploy == /\ ~deployed /\ deployed'
          /\ size' \in target .. MaxPods
          /\ UNCHANGED <<target, unfinished>>

\* Pods at the top go, none of them with an unfinished transaction.
Shrink == /\ size' \in target .. size - 1
          /\ unfinished \subseteq 0 .. size' - 1
          /\ UNCHANGED <<target, deployed, unfinished>>

Begin == /\ \E p \in (0 .. size - 1) \ unfinished : unfinished' = unfinished \cup {p}
         /\ UNCHANGED <<target, deployed, size>>

Finish == /\ \E p \in unfinished : unfinished' = unfinished \ {p}
          /\ UNCHANGED <<target, deployed, size>>

Next == Lower \/ Deploy \/ Shrink \/ Begin \/ Finish

Spec == Init /\ [][Next]_vars
=============================================================================
