------------------------ MODULE MCTransactionRecovery ------------------------
(* Instances of TransactionRecovery for TLC.                               *)
EXTENDS TransactionRecovery

CONSTANTS t1, t2

TwoTransactions == {t1, t2}
Heuristic == {t2}
OneTransaction == {t1}
OnOrOff == {TRUE, FALSE}
AlwaysOn == {TRUE}
=============================================================================
