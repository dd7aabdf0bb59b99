-------------------------------- MODULE MCWeb --------------------------------
(* A ledger on two forks.  cb pays A; t1 on fork a and d1 on fork b spend   *)
(* the same coin; k is a coinstake; e is unrelated.                         *)
EXTENDS Web

CONSTANTS g0, a1, a2, a3, b1, b2, b3, cb, t1, d1, k, e, A, B

MCParent == [b \in Block |->
    CASE b \in {a1, b1} -> g0 [] b = a2 -> a1 [] b = a3 -> a2
      [] b = b2 -> b1 [] b = b3 -> b2 [] OTHER -> NoBlock]

MCHeight ==
    LET height[b \in Block] ==
            IF MCParent[b] = NoBlock THEN 0 ELSE 1 + height[MCParent[b]]
    IN  height

MCAncestor ==
    LET chain[b \in Block] == [h \in 0..MaxHeight |->
            CASE h = MCHeight[b] -> b
              [] h < MCHeight[b] -> chain[MCParent[b]][h]
              [] OTHER -> NoBlock]
    IN  chain

MCTxsOf == [b \in Block |->
    CASE b = g0 -> {cb} [] b = a1 -> {t1} [] b = a2 -> {k} [] b = b1 -> {d1} [] OTHER -> {}]

(* A block of two, and one more above it.                                   *)
MCFullTxsOf == [MCTxsOf EXCEPT ![a1] = {t1, k}, ![a2] = {e}]

Pay(addr, amount) == [addr |-> addr, amount |-> amount]

MCOutputsOf == [t \in Tx |->
    CASE t = cb -> <<Pay(A, 5), Pay(B, 2)>>
      [] t = t1 -> <<Pay(A, 2), Pay(B, 1), Pay(NoAddr, 1)>>
      [] t = d1 -> <<Pay(B, 5)>>
      [] t = k  -> <<Pay(NoAddr, 0), Pay(A, 6)>>
      [] t = e  -> <<Pay(B, 1)>>]

MCInputsOf == [t \in Tx |->
    CASE t = t1 -> {<<cb, 1>>}
      [] t = d1 -> {<<cb, 1>>}
      [] t = k  -> {<<t1, 1>>, <<cb, 2>>}
      [] OTHER -> {}]

MCEverything == Heights \cup Tx \cup Addr \cup {Nobody}

MCBlockTime == [b \in Block |-> MCHeight[b]]
MCPoolTime == [t \in Tx |-> 1]
MCTxOrder == [t \in Tx |-> CASE t = cb -> 4 [] t = t1 -> 2 [] t = d1 -> 1 [] t = e -> 5 [] OTHER -> 3]
=============================================================================
