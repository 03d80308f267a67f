------------------------------ MODULE BlockTree ------------------------------
(***************************************************************************)
(* The tree of block headers the block index holds: what CBlockIndex and   *)
(* CChain (src/src/chain.h, chain.cpp) compute from pprev and the proof of *)
(* work of each header.  The tree is a constant: a header commits to its   *)
(* parent, so no operation ever changes pprev, nHeight or nChainWork.      *)
(*                                                                         *)
(* A block is named by an integer that stands for the address of its       *)
(* CBlockIndex, because CBlockIndexWorkComparator falls back on addresses. *)
(***************************************************************************)
EXTENDS Integers, FiniteSets

CONSTANTS
    Block,      \* the addresses of the index entries that may ever exist
    Genesis,    \* the entry with pprev = nullptr
    Prev,       \* pprev, a function on Block \ {Genesis}
    Proof       \* GetBlockProof, a function on Block

ASSUME TreeAssumption ==
    /\ Block \subseteq Int
    /\ IsFiniteSet(Block)
    /\ Genesis \in Block
    /\ Prev \in [Block \ {Genesis} -> Block]
    /\ Proof \in [Block -> Nat \ {0}]

Nil == -1000    \* nullptr; no address of the model

ASSUME NilAssumption == Nil \notin Block

\* The entry and all its ancestors: the b for which GetAncestor(b->nHeight) = b.
Path[b \in Block] == {b} \cup IF b = Genesis THEN {} ELSE Path[Prev[b]]

Height[b \in Block] == IF b = Genesis THEN 0 ELSE 1 + Height[Prev[b]]

\* nChainWork.
Work[b \in Block] == Proof[b] + IF b = Genesis THEN 0 ELSE Work[Prev[b]]

\* The links end at the genesis block: what holds of it, and of a block whenever
\* it holds of its parent, holds of all blocks.
ASSUME Rooted ==
    \A S \in SUBSET Block :
        Genesis \in S /\ (\A b \in Block \ {Genesis} : Prev[b] \in S => b \in S) => S = Block

Highest(S) == CHOOSE b \in S : \A c \in S : Height[c] <= Height[b]

\* CChain::FindFork: the last common block of the active chain ending in
\* chainTip and the chain ending in b.
FindFork(chainTip, b) == Highest(Path[chainTip] \cap Path[b])

\* GetAncestor(h) of b.
GetAncestor(b, h) == CHOOSE a \in Path[b] : Height[a] = h

\* CBlockIndexWorkComparator(a, b): a is a strictly worse chain end than b,
\* given the sequence ids seqId.
Worse(seqId, a, b) ==
    \/ Work[a] < Work[b]
    \/ Work[a] = Work[b] /\ seqId[a] > seqId[b]
    \/ Work[a] = Work[b] /\ seqId[a] = seqId[b] /\ a > b

=============================================================================
