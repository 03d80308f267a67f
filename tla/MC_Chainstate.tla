---------------------------- MODULE MC_Chainstate ----------------------------
(* An instance of Chainstate: a short branch and a longer one.              *)
EXTENDS Chainstate, TLC

CONSTANTS t1, t2

\* 0 - 1
\*   \ 2 - 3 - 4
ForkPrev == (1 :> 0) @@ (2 :> 0) @@ (3 :> 2) @@ (4 :> 3)
\* Block 1 has the work of the whole longer branch.
ForkProof == [b \in Block |-> IF b = 1 THEN 3 ELSE 1]
AllValid == [b \in Block |-> "valid"]

\* The longer branch is bad from its root, and the other one never gets data;
\* or it is bad at its end.
BadRoot == [AllValid EXCEPT ![1] = "contextual", ![2] = "connect"]
BadEnd == [AllValid EXCEPT ![4] = "connect"]
SomeVerdicts == {BadRoot, BadEnd}
=============================================================================
