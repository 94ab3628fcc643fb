----------------------- MODULE MCWildFlyServerScaleDown -----------------------
(* The reconcile loop against the contract of a scale down.                *)
EXTENDS MCWildFlyServerController, WildFlyServerScaleDown

Contract == INSTANCE ScaleDownContract
            WITH target <- spec.replicas,
                 deployed <- sts.exists, size <- sts.replicas,
                 unfinished <- indoubt \cup heuristics

\* Whatever the operator, the StatefulSet controller, the kubelets and the
\* applications do while the user only lowers the size, and whichever call fails
\* or whenever the operator ends: it looks like a scale down of the contract.
ImplementsContract == Contract!Spec
=============================================================================
