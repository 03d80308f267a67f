----------------------------- MODULE MC_TxRequest -----------------------------
EXTENDS TxRequest, TLC

\* Preferred peers beat the others; within a class the peer number decides,
\* except that peers 1 and 2 have the same priority for transaction 2.
MCPrio == [t \in Tx |-> [p \in Peer |-> [pref \in BOOLEAN |->
              (IF t = 2 /\ p = 1 THEN 2 ELSE p) + IF pref THEN 10 ELSE 0]]]
=============================================================================
