------------------------------ MODULE UtxoSet ------------------------------
(***************************************************************************)
(* What the stack of coins views promises to its users: three plain maps   *)
(* from outpoints to coins, each stamped with the block it belongs to.     *)
(*   work     what the view of the block being connected or disconnected   *)
(*            sees,                                                        *)
(*   ledger   what the chain state's tip cache (CoinsTip) sees,            *)
(*   durable  what the coins database holds.                               *)
(* No flag, no cache entry and no lookup order is visible at this level.   *)
(***************************************************************************)
CONSTANTS OutPoint, Coin, Spent, Block, NullBlock

VARIABLES work, workBest, ledger, ledgerBest, durable, durableBest

vars == <<work, workBest, ledger, ledgerBest, durable, durableBest>>

Init ==
    /\ durable = [o \in OutPoint |-> Spent]
    /\ durableBest = NullBlock
    /\ ledger = durable /\ ledgerBest = durableBest
    /\ work = durable /\ workBest = durableBest

Put(o, c) ==
    /\ work' = [work EXCEPT ![o] = c]
    /\ UNCHANGED <<workBest, ledger, ledgerBest, durable, durableBest>>

Delete(o) == Put(o, Spent)

Stamp(b) ==
    /\ workBest' = b
    /\ UNCHANGED <<work, ledger, ledgerBest, durable, durableBest>>

\* The block's changes become the chain state's, all of them at once.
Commit ==
    /\ ledger' = work /\ ledgerBest' = workBest
    /\ UNCHANGED <<work, workBest, durable, durableBest>>

\* The block was rejected: none of its changes is left.
Abort ==
    /\ work' = ledger /\ workBest' = ledgerBest
    /\ UNCHANGED <<ledger, ledgerBest, durable, durableBest>>

\* The chain state's changes reach the database.
Sync ==
    /\ durable' = ledger /\ durableBest' = ledgerBest
    /\ UNCHANGED <<work, workBest, ledger, ledgerBest>>

\* A coin of a UTXO snapshot is loaded into the chain state.
Load(o, c) ==
    /\ work = ledger /\ workBest = ledgerBest
    /\ ledger' = [ledger EXCEPT ![o] = c]
    /\ work' = ledger'
    /\ UNCHANGED <<workBest, ledgerBest, durable, durableBest>>

Next ==
    \/ \E o \in OutPoint, c \in Coin : Put(o, c) \/ Load(o, c)
    \/ \E o \in OutPoint : Delete(o)
    \/ \E b \in Block : Stamp(b)
    \/ Commit
    \/ Abort
    \/ Sync

Spec == Init /\ [][Next]_vars
============================================================================
