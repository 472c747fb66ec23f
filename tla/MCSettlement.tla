----------------------------- MODULE MCSettlement -----------------------------
(***************************************************************************)
(* Instances of Settlement: one order paid by two outputs, the first of    *)
(* which covers it.                                                        *)
(***************************************************************************)
EXTENDS Settlement

CONSTANT o1

MCOrder == {o1}
MCPay == {1, 2}
MCPays == [p \in MCPay |-> o1]
MCAmount == [p \in MCPay |-> IF p = 1 THEN 2 ELSE 1]
MCPrice == [o \in MCOrder |-> 2]
Confirmations2 == [o \in MCOrder |-> 2]

\* One output that covers it.
OnePay == {1}
OnePays == [p \in OnePay |-> o1]
OneAmount == [p \in OnePay |-> 2]
MCDeadline == [o \in MCOrder |-> 0]
=============================================================================
