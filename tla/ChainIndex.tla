------------------------------ MODULE ChainIndex ------------------------------
(***************************************************************************)
(* What the block index promises its readers: a stack of blocks, one per   *)
(* height, and for each mined transaction the height it is listed under.   *)
(* A block is pushed above all others, with all its transactions, and only *)
(* the highest block is popped, with all of its own.                       *)
(***************************************************************************)
EXTENDS Integers

CONSTANTS Block, NoBlock, Tx, MaxHeight, Height, TxsOf

VARIABLES
    blocks,     \* blocks[h]: the block at height h, or NoBlock
    where       \* where[t]: the height t is listed under, -1 for none

index == <<blocks, where>>

Init ==
    /\ blocks = [h \in 0..MaxHeight |-> NoBlock]
    /\ where = [t \in Tx |-> -1]

EmptyFrom(h) == \A g \in h..MaxHeight : blocks[g] = NoBlock

Push(b) ==
    /\ EmptyFrom(Height[b])
    /\ blocks' = [blocks EXCEPT ![Height[b]] = b]
    /\ where' = [t \in Tx |-> IF t \in TxsOf[b] THEN Height[b] ELSE where[t]]

Pop(h) ==
    /\ blocks[h] # NoBlock
    /\ EmptyFrom(h + 1)
    /\ blocks' = [blocks EXCEPT ![h] = NoBlock]
    /\ where' = [t \in Tx |-> IF where[t] = h THEN -1 ELSE where[t]]

(* A mined transaction ceases to be listed although its block stays.        *)
Forget(t) ==
    /\ where[t] # -1
    /\ where' = [where EXCEPT ![t] = -1]
    /\ UNCHANGED blocks

Next == (\E b \in Block : Push(b)) \/ (\E h \in 0..MaxHeight : Pop(h))

Spec == Init /\ [][Next]_index

LossyNext == Next \/ \E t \in Tx : Forget(t)

LossySpec == Init /\ [][LossyNext]_index
=============================================================================
