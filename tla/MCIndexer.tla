------------------------------ MODULE MCIndexer ------------------------------
(* Instances of the two workers: two forks of two or of three blocks each.  *)
EXTENDS Indexer

CONSTANTS g0, a1, a2, a3, b1, b2, b3, t1, t2

MCSmall == {g0, a1, a2, b1, b2}
MCBlock == {g0, a1, a2, a3, b1, b2, b3}
MCTx == {t1, t2}
MCRelayable == MCTx

MCParent == [b \in Block |->
    CASE b \in {a1, b1} -> g0
      [] b = a2 -> a1 [] b = a3 -> a2
      [] b = b2 -> b1 [] b = b3 -> b2
      [] OTHER -> NoBlock]

MCTxsOf == [b \in Block |->
    CASE b \in {a1, b2} -> {t1} [] b = a2 -> {t2} [] OTHER -> {}]

MCHeight ==
    LET height[b \in Block] ==
            IF MCParent[b] = NoBlock THEN 0 ELSE 1 + height[MCParent[b]]
    IN  height

MCAncestor ==
    LET chain[b \in Block] == [h \in 0..MaxHeight |->
            CASE h = MCHeight[b] -> b
              [] h < MCHeight[b] -> chain[MCParent[b]][h]
              [] OTHER -> NoBlock]
    IN  chain
=============================================================================
