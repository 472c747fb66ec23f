--------------------------- MODULE MCMempoolScan ---------------------------
(* Instances of MempoolScan: two stores, the first with two orders, and    *)
(* three transactions, one of which the node doesn't give.                 *)
EXTENDS MempoolScan

MCTx == 1..3
MCStoreOf == [o \in 1..3 |-> IF o = 3 THEN 2 ELSE 1]
MCPays == [t \in MCTx |-> IF t = 2 THEN {2, 3} ELSE IF t = 3 THEN {1, 3} ELSE {}]
=============================================================================
