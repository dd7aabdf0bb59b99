------------------------------ MODULE MCSyncer ------------------------------
(* Instances for the syncer: a tree of blocks given by parent pointers.     *)
EXTENDS Syncer

CONSTANTS g0, a1, a2, a3, a4, b1, b2, b3, b4, c3, c4, t1, t2, t3

MCBlock == {g0, a1, a2, a3, a4, b1, b2, b3, b4, c3, c4}
MCTx == {t1, t2, t3}

(* Three forks: a from the root g0, b from g0, c from a2.                   *)
MCParent == [b \in MCBlock |->
    CASE b \in {a1, b1} -> g0
      [] b = a2 -> a1
      [] b \in {a3, c3} -> a2
      [] b = a4 -> a3
      [] b = c4 -> c3
      [] b = b2 -> b1
      [] b = b3 -> b2
      [] b = b4 -> b3
      [] OTHER -> NoBlock]

(* Each fork orders the same transactions in its own way.                   *)
MCTxsOf == [b \in MCBlock |->
    CASE b \in {a1, b4} -> {t1}
      [] b \in {b1, a3, c4} -> {t2}
      [] b \in {a2, b2} -> {t3}
      [] OTHER -> {}]

MCHeight ==
    LET height[b \in MCBlock] ==
            IF MCParent[b] = NoBlock THEN 0 ELSE 1 + height[MCParent[b]]
    IN  height

MCAncestor ==
    LET chain[b \in MCBlock] == [h \in 0..MaxHeight |->
            CASE h = MCHeight[b] -> b
              [] h < MCHeight[b] -> chain[MCParent[b]][h]
              [] OTHER -> NoBlock]
    IN  chain
=============================================================================
