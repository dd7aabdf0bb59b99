----------------------------- MODULE LedgerProofs -----------------------------
(***************************************************************************)
(* What the queries return, for every ledger that LedgerAssumption admits. *)
(* While the syncer runs alone and the daemon reorganises only between     *)
(* ticks, every stored block has all its rows and every row its block, no  *)
(* output is spent twice, and so a balance is a sum over unspent outputs.  *)
(* Whatever both workers do, the pages of a list hold each row once.       *)
(***************************************************************************)
EXTENDS Web, IndexerProofs, FiniteFacts, SequenceTheorems

(* A stored block is never replaced by another one.                         *)
LEMMA NeverReplaced ==
    ASSUME QuietInv, [QuietNext]_syncVars, NEW h \in Heights, blocks[h] # NoBlock
    PROVE  blocks'[h] \in {blocks[h], NoBlock}
<1>0. MaxHeight \in Nat /\ SyncInv /\ StoreTypeOK
      BY ChainAssumption DEF QuietInv, SyncInv, SyncTypeOK
<1>1. CASE SyncerStep
  <2>1. [Index!Next]_<<blocks, txHeight>>
        BY <1>0, <1>1, SyncerRefines
  <2>2. ASSUME NEW b \in Block, Index!Push(b) PROVE blocks'[h] = blocks[h]
    <3>1. Height[b] \in Heights /\ blocks[Height[b]] = NoBlock
          BY <1>0, <2>2, ChainAssumption DEF Index!Push, Index!EmptyFrom, Heights
    <3> QED
        BY <1>0, <2>2, <3>1 DEF Index!Push, StoreTypeOK
  <2>3. ASSUME NEW g \in 0..MaxHeight, Index!Pop(g) PROVE blocks'[h] \in {blocks[h], NoBlock}
        BY <1>0, <2>3 DEF Index!Pop, StoreTypeOK, Heights
  <2> QED
      BY <2>1, <2>2, <2>3 DEF Index!Next
<1>2. CASE ~SyncerStep
      BY <1>2 DEF QuietNext, NodeMove, syncVars, store
<1> QED
    BY <1>1, <1>2

(* What is listed under a height is the stored block, no more and no less.  *)
LEMMA ListedUnderHeight ==
    ASSUME QuietInv, NEW h \in Heights
    PROVE  /\ blocks[h] = NoBlock => InBlock(h) = {}
           /\ blocks[h] # NoBlock => /\ InBlock(h) = TxsOf[blocks[h]]
                                     /\ blocks[h] \in Block
                                     /\ Height[blocks[h]] = h
<1>1. /\ StoreTypeOK /\ StoredAtHeight /\ RowsBelongToStoredBlock /\ BlocksComplete
      /\ h # Null
      BY ChainAssumption DEF QuietInv, SyncInv, SyncTypeOK, Heights, Null
<1>2. \A t \in InBlock(h) : blocks[h] # NoBlock /\ t \in TxsOf[blocks[h]]
      BY <1>1 DEF InBlock, RowsBelongToStoredBlock
<1>3. blocks[h] # NoBlock => \A t \in TxsOf[blocks[h]] : t \in InBlock(h)
      BY <1>1 DEF InBlock, BlocksComplete, StoreTypeOK, Mined
<1>4. blocks[h] # NoBlock => blocks[h] \in Block /\ Height[blocks[h]] = h
      BY <1>1 DEF StoreTypeOK, StoredAtHeight
<1> QED
    BY <1>2, <1>3, <1>4

-----------------------------------------------------------------------------
(* Finite tables *)

(* A finite set of transactions has a finite set of outputs.                *)
LEMMA FiniteOutputs ==
    ASSUME NEW T \in SUBSET Tx, IsFiniteSet(T)
    PROVE  IsFiniteSet({o \in Coins : o[1] \in T})
<1> DEFINE Of == [t \in T |-> {<<t, v>> : v \in DOMAIN OutputsOf[t]}]
           All == {Of[t] : t \in T}
<1>1. ASSUME NEW t \in T PROVE IsFiniteSet(Of[t])
  <2> DEFINE n == Len(OutputsOf[t])
             pair == [v \in 1..n |-> <<t, v>>]
  <2>1. OutputsOf[t] \in Seq([addr : Addr \cup {NoAddr}, amount : Nat])
        BY LedgerAssumption
  <2>2. n \in Nat /\ DOMAIN OutputsOf[t] = 1..n
        BY <2>1
  <2>3. Of[t] = {pair[v] : v \in 1..n}
        BY <2>2
  <2> HIDE DEF n, pair, Of
  <2>4. IsFiniteSet(1..n)
        BY <2>2, FS_Interval
  <2>5. IsFiniteSet({pair[v] : v \in 1..n})
        BY <2>4, FiniteImage
  <2> QED
      BY <2>3, <2>5
<1>2. IsFiniteSet(All)
  <2> HIDE DEF Of
  <2> QED
      BY FiniteImage
<1>3. IsFiniteSet(UNION All)
  <2>1. \A A \in All : IsFiniteSet(A)
        BY <1>1
  <2> HIDE DEF All
  <2> QED
      BY <1>2, <2>1, FS_UNION
<1>4. {o \in Coins : o[1] \in T} \subseteq UNION All
  <2> SUFFICES ASSUME NEW o \in Coins, o[1] \in T PROVE o \in UNION All
      OBVIOUS
  <2>1. PICK t \in Tx : \E v \in DOMAIN OutputsOf[t] : o = <<t, v>>
        BY DEF Coins
  <2> QED
      BY <2>1
<1> HIDE DEF All
<1> QED
    BY <1>3, <1>4, FS_Subset

-----------------------------------------------------------------------------
(* The sums of Ledger as sums of weights *)

Amounts == [o \in Coins |-> Amount(o)]

LEMMA AmountNat == \A o \in Coins : Amount(o) \in Nat /\ Amounts[o] = Amount(o)
<1> SUFFICES ASSUME NEW o \in Coins PROVE Amount(o) \in Nat
    BY DEF Amounts
<1>1. PICK t \in Tx : \E v \in DOMAIN OutputsOf[t] : o = <<t, v>>
      BY DEF Coins
<1>0. PICK v \in DOMAIN OutputsOf[t] : o = <<t, v>>
      BY <1>1
<1>2. OutputsOf[t] \in Seq([addr : Addr \cup {NoAddr}, amount : Nat])
      BY LedgerAssumption
<1>3. ASSUME NEW R, NEW s \in Seq(R), NEW i \in DOMAIN s PROVE s[i] \in R
      OBVIOUS
<1>4. OutputsOf[t][v] \in [addr : Addr \cup {NoAddr}, amount : Nat]
      BY <1>0, <1>2, <1>3
<1> QED
    BY <1>0, <1>4 DEF Amount

LEMMA TotalIsSum ==
    ASSUME NEW C \in SUBSET Coins, IsFiniteSet(C)
    PROVE  TotalValue(C) = SumOver(Amounts, C)
<1> DEFINE Fold(g) == g = [s \in SUBSET C |-> IF s = {} THEN 0
                               ELSE Amount(Picked(s)) + g[s \ {Picked(s)}]]
           g1 == CHOOSE g : Fold(g)
           g2 == CHOOSE g : IsSum(g, Amounts, C)
<1>1. TotalValue(C) = g1[C]
      BY DEF TotalValue, MapThenSumSet, MapThenFoldSet, Picked
<1>2. SumOver(Amounts, C) = g2[C]
      BY DEF SumOver, MapThenSumSet, MapThenFoldSet, IsSum, Picked
<1>3. \A s \in SUBSET C : s # {} => Amounts[Picked(s)] = Amount(Picked(s))
      BY PickedIn, AmountNat
<1>4. ASSUME NEW g PROVE Fold(g) <=> IsSum(g, Amounts, C)
      BY <1>3 DEF IsSum
<1>5. PICK g : IsSum(g, Amounts, C)
      BY SumExists
<1>6. IsSum(g2, Amounts, C)
      BY <1>5
<1>7. Fold(g1)
      BY <1>4, <1>5
<1>8. IsSum(g1, Amounts, C)
      BY <1>4, <1>7
<1> HIDE DEF g1, g2
<1>9. g1[C] = g2[C]
      BY <1>6, <1>8, SumUnique
<1> QED
    BY <1>1, <1>2, <1>9

(* The weight of a row of tx_inputs JOIN tx_outputs.                        *)
JoinAmounts == [i \in Tx \X Coins |-> Amount(i[2])]

LEMMA SentIsSum ==
    ASSUME NEW a, Spends(a) \subseteq Tx \X Coins, IsFiniteSet(Spends(a))
    PROVE  Sent(a) = SumOver(JoinAmounts, Spends(a))
<1> DEFINE C == Spends(a)
           Fold(g) == g = [s \in SUBSET C |-> IF s = {} THEN 0
                               ELSE Amount(Picked(s)[2]) + g[s \ {Picked(s)}]]
           g1 == CHOOSE g : Fold(g)
           g2 == CHOOSE g : IsSum(g, JoinAmounts, C)
<1>1. Sent(a) = g1[C]
      BY DEF Sent, MapThenSumSet, MapThenFoldSet, Picked
<1>2. SumOver(JoinAmounts, C) = g2[C]
      BY DEF SumOver, MapThenSumSet, MapThenFoldSet, IsSum, Picked
<1> HIDE DEF C
<1>3. \A s \in SUBSET C : s # {} => JoinAmounts[Picked(s)] = Amount(Picked(s)[2])
      BY PickedIn DEF JoinAmounts, C
<1>4. ASSUME NEW g PROVE Fold(g) <=> IsSum(g, JoinAmounts, C)
      BY <1>3 DEF IsSum
<1>5. PICK g : IsSum(g, JoinAmounts, C)
      BY SumExists DEF C
<1>6. IsSum(g2, JoinAmounts, C)
      BY <1>5
<1>7. Fold(g1)
      BY <1>4, <1>5
<1>8. IsSum(g1, JoinAmounts, C)
      BY <1>4, <1>7
<1> HIDE DEF g1, g2
<1>9. g1[C] = g2[C]
      BY <1>6, <1>8, SumUnique DEF C
<1> QED
    BY <1>1, <1>2, <1>9 DEF C

-----------------------------------------------------------------------------
(* Balances *)

(* While the poller is at rest every row is of a mined transaction.         *)
NonePending == txs \subseteq Mined

LEMMA StoredRows ==
    ASSUME QuietInv, NonePending
    PROVE  /\ outs = txs /\ txs \in SUBSET Tx
           /\ \A t \in txs : /\ txHeight[t] \in Heights
                             /\ blocks[txHeight[t]] \in Block
                             /\ t \in TxsOf[blocks[txHeight[t]]]
           /\ \A h \in Heights : blocks[h] # NoBlock => TxsOf[blocks[h]] \subseteq txs
<1>1. StoreTypeOK /\ RowsBelongToStoredBlock /\ BlocksComplete
      BY DEF QuietInv, SyncInv, SyncTypeOK
<1>2. ASSUME NEW t \in txs
      PROVE  /\ txHeight[t] \in Heights /\ blocks[txHeight[t]] \in Block
             /\ t \in TxsOf[blocks[txHeight[t]]] /\ t \in outs
  <2>1. t \in Tx /\ t \in Mined
        BY <1>1, <1>2 DEF NonePending, StoreTypeOK
  <2>2. txHeight[t] \in Heights
        BY <1>1, <2>1 DEF StoreTypeOK, Mined
  <2>3. blocks[txHeight[t]] # NoBlock /\ t \in TxsOf[blocks[txHeight[t]]]
        BY <1>1, <2>1 DEF RowsBelongToStoredBlock
  <2>4. blocks[txHeight[t]] \in Block
        BY <1>1, <2>2, <2>3 DEF StoreTypeOK
  <2> QED
      BY <1>1, <2>2, <2>3, <2>4 DEF BlocksComplete
<1> QED
    BY <1>1, <1>2 DEF BlocksComplete, StoreTypeOK

LEMMA FiniteTables ==
    ASSUME QuietInv, NonePending
    PROVE  IsFiniteSet(txs) /\ IsFiniteSet(Stored) /\ \A a : IsFiniteSet(Spends(a))
<1> DEFINE Of == [h \in Heights |-> InBlock(h)]
           All == {Of[h] : h \in Heights}
<1>1. ASSUME NEW h \in Heights PROVE IsFiniteSet(Of[h])
  <2>1. InBlock(h) = {} \/ \E b \in Block : InBlock(h) = TxsOf[b]
        BY ListedUnderHeight
  <2> QED
      BY <2>1, LedgerAssumption, FS_EmptySet
<1>2. IsFiniteSet(All)
  <2>1. IsFiniteSet(Heights)
        BY ChainAssumption, FS_Interval DEF Heights
  <2> HIDE DEF Of
  <2> QED
      BY <2>1, FiniteImage
<1>3. IsFiniteSet(UNION All)
  <2>1. \A A \in All : IsFiniteSet(A)
        BY <1>1
  <2> HIDE DEF All
  <2> QED
      BY <1>2, <2>1, FS_UNION
<1>4. txs \subseteq UNION All
  <2> SUFFICES ASSUME NEW t \in txs PROVE t \in Of[txHeight[t]] /\ txHeight[t] \in Heights
      OBVIOUS
  <2> QED
      BY StoredRows DEF InBlock, NonePending
<1>5. IsFiniteSet(txs)
  <2> HIDE DEF All
  <2> QED
      BY <1>3, <1>4, FS_Subset
<1>6. IsFiniteSet(Stored)
      BY <1>5, StoredRows, FiniteOutputs DEF Stored
<1>7. IsFiniteSet(txs \X Stored)
      BY <1>5, <1>6, FS_Product
<1>8. ASSUME NEW a PROVE IsFiniteSet(Spends(a))
  <2>1. Spends(a) \subseteq txs \X Stored
        BY DEF Spends
  <2> QED
      BY <1>7, <2>1, FS_Subset
<1> QED
    BY <1>5, <1>6, <1>8

(* Two stored transactions spend different outputs: they lie on one chain.  *)
LEMMA NoDoubleSpend ==
    ASSUME QuietInv, NonePending, NEW s \in txs, NEW t \in txs, s # t
    PROVE  InputsOf[s] \cap InputsOf[t] = {}
<1> DEFINE g == txHeight[s]
           h == txHeight[t]
<1>1. /\ g \in Heights /\ blocks[g] \in Block /\ s \in TxsOf[blocks[g]]
      /\ h \in Heights /\ blocks[h] \in Block /\ t \in TxsOf[blocks[h]]
      BY StoredRows
<1> HIDE DEF g, h
<1>2. \E b \in Block : Ancestor[b][g] = blocks[g] /\ Ancestor[b][h] = blocks[h]
  <2>1. NoBlock \notin Block
        BY ChainAssumption
  <2>2. CASE g <= h
    <3>1. g \in 0..h /\ h \in 0..h
          BY <1>1, <2>2, ChainAssumption DEF Heights
    <3>2. blocks[g] = Ancestor[blocks[h]][g] /\ blocks[h] = Ancestor[blocks[h]][h]
          BY <1>1, <2>1, <3>1 DEF QuietInv, OneChain
    <3> QED
        BY <1>1, <3>2
  <2>3. CASE h <= g
    <3>1. g \in 0..g /\ h \in 0..g
          BY <1>1, <2>3, ChainAssumption DEF Heights
    <3>2. blocks[g] = Ancestor[blocks[g]][g] /\ blocks[h] = Ancestor[blocks[g]][h]
          BY <1>1, <2>1, <3>1 DEF QuietInv, OneChain
    <3> QED
        BY <1>1, <3>2
  <2> QED
      BY <1>1, <2>2, <2>3, ChainAssumption DEF Heights
<1>3. NoBlock \notin Block
      BY ChainAssumption
<1> QED
    BY <1>1, <1>2, <1>3, LedgerAssumption

(* The outputs of a that stored transactions spend.  What AddressSummary    *)
(* calls sent is their value, although it sums over inputs.                 *)
Owned(a) == {o \in Stored : Owner(o) = a}
SpentCoins(a) == {o \in Owned(a) : \E t \in txs : o \in InputsOf[t]}

LEMMA SentIsSpent ==
    ASSUME QuietInv, NonePending, NEW a
    PROVE  Sent(a) = SumOver(Amounts, SpentCoins(a))
<1> DEFINE h == [i \in Tx \X Coins |-> i[2]]
           Im == {h[i] : i \in Spends(a)}
<1>1. /\ IsFiniteSet(Spends(a))
      /\ Spends(a) \subseteq txs \X Stored
      /\ Spends(a) \subseteq Tx \X Coins
      BY FiniteTables, StoredRows DEF Spends, Stored
<1>2. Sent(a) = SumOver(JoinAmounts, Spends(a))
      BY <1>1, SentIsSum
<1>3. \A i \in Spends(a) : JoinAmounts[i] \in Nat /\ Amounts[h[i]] = JoinAmounts[i]
  <2> SUFFICES ASSUME NEW i \in Spends(a)
               PROVE  JoinAmounts[i] \in Nat /\ Amounts[h[i]] = JoinAmounts[i]
      OBVIOUS
  <2>1. i \in Tx \X Coins /\ i[2] \in Coins
        BY <1>1
  <2> QED
      BY <2>1, AmountNat DEF JoinAmounts
<1>4. ASSUME NEW i \in Spends(a), NEW j \in Spends(a), h[i] = h[j] PROVE i = j
  <2>1. /\ i \in Tx \X Coins /\ j \in Tx \X Coins /\ i[2] = j[2]
        /\ i[1] \in txs /\ j[1] \in txs
        BY <1>1, <1>4
  <2>2. i[2] \in InputsOf[i[1]] /\ j[2] \in InputsOf[j[1]]
        BY DEF Spends
  <2>3. i[1] = j[1]
        BY <2>1, <2>2, NoDoubleSpend
  <2> QED
      BY <2>1, <2>3
<1>5. Im = SpentCoins(a)
  <2>1. ASSUME NEW i \in Spends(a) PROVE h[i] \in SpentCoins(a)
        BY <1>1 DEF Spends, SpentCoins, Owned
  <2>2. ASSUME NEW o \in SpentCoins(a) PROVE o \in Im
    <3>1. PICK t \in txs : o \in InputsOf[t]
          BY DEF SpentCoins
    <3>2. <<t, o>> \in Spends(a)
          BY <3>1 DEF SpentCoins, Owned, Spends
    <3>3. h[<<t, o>>] = o
          BY <1>1, <3>2
    <3> QED
        BY <3>2, <3>3
  <2> QED
      BY <2>1, <2>2
<1> HIDE DEF h
<1>6. SumOver(Amounts, Im) = SumOver(JoinAmounts, Spends(a))
      BY <1>1, <1>3, <1>4, SumImage
<1> QED
    BY <1>2, <1>5, <1>6

LEMMA ReceivedIsOwned ==
    ASSUME QuietInv, NonePending, NEW a
    PROVE  /\ Owned(a) \in SUBSET Coins /\ IsFiniteSet(Owned(a))
           /\ Received(a) = SumOver(Amounts, Owned(a))
<1>1. Owned(a) \in SUBSET Coins /\ Owned(a) \subseteq Stored
      BY DEF Owned, Stored
<1>2. IsFiniteSet(Owned(a))
      BY <1>1, FiniteTables, FS_Subset
<1>3. Received(a) = TotalValue(Owned(a))
      BY DEF Received, Owned
<1> QED
    BY <1>1, <1>2, <1>3, TotalIsSum

(* So no address has sent more than it has received.                        *)
LEMMA SentWithin ==
    ASSUME QuietInv, NonePending, NEW a
    PROVE  Sent(a) \in Nat /\ Received(a) \in Nat /\ Sent(a) <= Received(a)
<1>1. SpentCoins(a) \in SUBSET Owned(a)
      BY DEF SpentCoins
<1>2. \A o \in Owned(a) : Amounts[o] \in Nat
      BY ReceivedIsOwned, AmountNat
<1>3. IsFiniteSet(Owned(a)) /\ IsFiniteSet(SpentCoins(a))
      BY <1>1, ReceivedIsOwned, FS_Subset
<1>4. SumOver(Amounts, SpentCoins(a)) \in Nat /\ SumOver(Amounts, Owned(a)) \in Nat
      BY <1>1, <1>2, <1>3, SumNat
<1>5. SumOver(Amounts, SpentCoins(a)) <= SumOver(Amounts, Owned(a))
      BY <1>1, <1>2, <1>3, SumMonotone
<1> QED
    BY <1>4, <1>5, SentIsSpent, ReceivedIsOwned

(* And the difference is the value of the outputs that are not spent.       *)
LEMMA BalanceOfUnspent ==
    ASSUME QuietInv, NonePending, NEW a \in Addr, NEW b \in Block, IsLatest(Height[b]),
           \A h \in 0..Height[b] : blocks[h] = Ancestor[b][h]
    PROVE  Balance(a) = TotalValue(Unspent(b, a))
<1>0. Height[b] \in Heights /\ MaxHeight \in Nat
      BY ChainAssumption
<1>1. txs = ChainTxs(b)
  <2>1. ASSUME NEW t \in txs PROVE t \in ChainTxs(b)
    <3> DEFINE h == txHeight[t]
    <3>1. h \in Heights /\ blocks[h] \in Block /\ t \in TxsOf[blocks[h]]
          BY StoredRows
    <3>2. blocks[h] # NoBlock
          BY <3>1, ChainAssumption
    <3> HIDE DEF h
    <3>3. h \in 0..Height[b]
          BY <1>0, <3>1, <3>2 DEF IsLatest, Heights
    <3>4. t \in TxsOf[Ancestor[b][h]]
          BY <3>1, <3>3
    <3> QED
        BY <3>3, <3>4 DEF ChainTxs
  <2>2. ASSUME NEW t \in ChainTxs(b) PROVE t \in txs
    <3>1. PICK h \in 0..Height[b] : t \in TxsOf[Ancestor[b][h]]
          BY DEF ChainTxs
    <3>2. h \in Heights /\ blocks[h] = Ancestor[b][h] /\ Ancestor[b][h] \in Block
          BY <1>0, ChainAssumption DEF Heights
    <3> QED
        BY <3>1, <3>2, StoredRows, ChainAssumption
  <2> QED
      BY <2>1, <2>2
<1> DEFINE U == Unspent(b, a)
           C == SpentCoins(a)
<1>2. U \cup C = Owned(a) /\ U \cap C = {}
      BY <1>1, StoredRows DEF Unspent, SpentCoins, Owned, Stored
<1>3. U \in SUBSET Owned(a) /\ C \in SUBSET Owned(a)
      BY <1>2
<1> HIDE DEF U, C
<1>4. Owned(a) \in SUBSET Coins /\ IsFiniteSet(U) /\ IsFiniteSet(C)
      BY <1>3, ReceivedIsOwned, FS_Subset
<1>5. \A o \in U \cup C : Amounts[o] \in Nat
      BY <1>2, <1>4, AmountNat
<1>6. SumOver(Amounts, U \cup C) = SumOver(Amounts, U) + SumOver(Amounts, C)
      BY <1>2, <1>4, <1>5, SumUnion
<1>7. SumOver(Amounts, U) \in Nat /\ SumOver(Amounts, C) \in Nat
      BY <1>4, <1>5, SumNat
<1>8. TotalValue(U) = SumOver(Amounts, U)
      BY <1>3, <1>4, TotalIsSum
<1>9. Balance(a) = SumOver(Amounts, U \cup C) - SumOver(Amounts, C)
      BY <1>2, ReceivedIsOwned, SentIsSpent DEF Balance, C
<1>10. Balance(a) = TotalValue(U)
       BY <1>6, <1>7, <1>8, <1>9
<1> QED
    BY <1>10 DEF U

(* The syncer adds no row without a height.                                 *)
LEMMA NonePendingNext ==
    ASSUME QuietInv, NonePending, [QuietNext]_syncVars
    PROVE  NonePending'
<1>1. StoreTypeOK /\ SyncerTypeOK
      BY DEF QuietInv, SyncInv, SyncTypeOK
<1>2. \A t \in txs : t \in Tx /\ txHeight[t] # Null
      BY <1>1 DEF NonePending, Mined, StoreTypeOK
<1>3. CASE SyncDelete
  <2>1. ASSUME NEW t \in txs' PROVE txHeight'[t] # Null
        BY <1>2, <1>3 DEF SyncDelete, DeleteBlocksFrom, RemoveTxs
  <2> QED
      BY <2>1 DEF NonePending, Mined
<1>4. CASE SyncPersist
  <2>1. hash \in Block /\ Height[hash] # Null
        BY <1>1, <1>4, ChainAssumption DEF SyncPersist, SyncerTypeOK, Heights, Null
  <2>2. ASSUME NEW t \in txs' PROVE txHeight'[t] # Null
    <3>1. t \in txs \cup TxsOf[hash] /\ TxsOf[hash] \subseteq Tx
          BY <1>4, <2>1, ChainAssumption DEF SyncPersist, UpsertTxs
    <3>2. txHeight'[t] = IF t \in TxsOf[hash] THEN Height[hash] ELSE txHeight[t]
          BY <1>2, <1>4, <3>1 DEF SyncPersist, UpsertTxs
    <3> QED
        BY <1>2, <2>1, <3>1, <3>2
  <2> QED
      BY <2>2 DEF NonePending, Mined
<1>5. CASE UNCHANGED store
      BY <1>5 DEF NonePending, Mined, store
<1> QED
    BY <1>3, <1>4, <1>5
    DEF QuietNext, SyncerStep, SyncBegin, SyncWalk, SyncWalkedPast, SyncFetch, SyncFail,
        NodeMove, syncVars

(* Until a block is removed, what is stored stays as it is.                 *)
LEMMA RowsStay ==
    ASSUME QuietInv, NonePending, [QuietNext]_syncVars, ~RemovesBlock, NEW t \in txs
    PROVE  /\ t \in txs' /\ txHeight'[t] = txHeight[t]
           /\ blocks'[txHeight[t]] = blocks[txHeight[t]]
<1> DEFINE g == txHeight[t]
<1>0. StoreTypeOK /\ SyncerTypeOK /\ FreshAbove /\ MaxHeight \in Nat
      BY ChainAssumption DEF QuietInv, SyncInv, SyncTypeOK
<1>1. g \in Heights /\ blocks[g] \in Block /\ t \in TxsOf[blocks[g]] /\ t \in Tx
      BY StoredRows
<1>2. blocks[g] # NoBlock
      BY <1>1, ChainAssumption
<1>3. blocks'[g] = blocks[g]
      BY <1>1, <1>2, NeverReplaced DEF RemovesBlock
<1> HIDE DEF g
<1>4. CASE SyncDelete
  <2>1. walk \in Heights /\ ~(g >= walk)
    <3>1. walk \in Heights
          BY <1>0, <1>4 DEF SyncDelete, SyncerTypeOK, Heights
    <3>2. g >= walk => blocks'[g] = NoBlock
          BY <1>1, <1>4 DEF SyncDelete, DeleteBlocksFrom
    <3> QED
        BY <1>2, <1>3, <3>1, <3>2
  <2> QED
      BY <1>1, <1>3, <1>4, <2>1 DEF SyncDelete, DeleteBlocksFrom, RemoveTxs, g
<1>5. CASE SyncPersist
  <2>1. /\ hash \in Block /\ Height[hash] = next /\ next \in Heights
        /\ hash = Ancestor[tip][next] /\ blocks[g] = Ancestor[tip][g]
        /\ tip \in Block
        BY <1>0, <1>1, <1>2, <1>5
        DEF SyncPersist, SyncerTypeOK, QuietInv, SyncInv, SyncTypeOK, TickAgrees, NodeBlockAt
  <2>2. g < next
        BY <1>0, <1>1, <1>2, <1>5, <2>1 DEF SyncPersist, FreshAbove, Heights
  <2>3. g \in 0..(next - 1) /\ next <= Height[tip]
        BY <1>0, <1>1, <2>1, <2>2, ChainAssumption DEF Heights
  <2>4. TxsOf[Ancestor[tip][next]] \cap TxsOf[Ancestor[tip][g]] = {}
        BY <2>1, <2>3, ChainAssumption
  <2>5. t \notin TxsOf[hash]
        BY <1>1, <2>1, <2>4
  <2> QED
      BY <1>1, <1>3, <1>5, <2>5 DEF SyncPersist, UpsertTxs, g
<1>6. CASE UNCHANGED store
      BY <1>3, <1>6 DEF store, g
<1> QED
    BY <1>4, <1>5, <1>6
    DEF QuietNext, SyncerStep, SyncBegin, SyncWalk, SyncWalkedPast, SyncFetch, SyncFail,
        NodeMove, syncVars

(* So an address has then sent no less than before.                         *)
SpentFacts ==
    QuietInv /\ NonePending =>
        /\ outs = txs
        /\ \A a : /\ IsFiniteSet(SpentCoins(a))
                  /\ \A o \in SpentCoins(a) : Amounts[o] \in Nat
                  /\ Sent(a) = SumOver(Amounts, SpentCoins(a))

LEMMA SpentNow == SpentFacts
<1> SUFFICES ASSUME QuietInv, NonePending, NEW a
             PROVE  IsFiniteSet(SpentCoins(a)) /\ \A o \in SpentCoins(a) : Amounts[o] \in Nat
    BY StoredRows, SentIsSpent DEF SpentFacts
<1>1. SpentCoins(a) \in SUBSET Owned(a)
      BY DEF SpentCoins
<1> QED
    BY <1>1, ReceivedIsOwned, FS_Subset, AmountNat

LEMMA SpentThen == SpentFacts'
BY SpentNow, PTL

LEMMA SentGrows ==
    ASSUME QuietInv, NonePending, QuietInv', NonePending',
           [QuietNext]_syncVars, ~RemovesBlock, NEW a
    PROVE  Sent(a) <= Sent(a)'
<1>1. txs \subseteq txs' /\ outs = txs /\ outs' = txs'
      BY RowsStay, SpentNow, SpentThen DEF SpentFacts
<1>2. SpentCoins(a) \subseteq SpentCoins(a)'
      BY <1>1 DEF SpentCoins, Owned, Stored
<1>3. /\ Sent(a) = SumOver(Amounts, SpentCoins(a))
      /\ Sent(a)' = SumOver(Amounts, SpentCoins(a)')
      /\ IsFiniteSet(SpentCoins(a)')
      /\ \A o \in SpentCoins(a)' : Amounts[o] \in Nat
      BY SpentNow, SpentThen DEF SpentFacts
<1> QED
    BY <1>2, <1>3, SumMonotone

-----------------------------------------------------------------------------
(* The theorems about balances *)

LedgerInv == QuietInv /\ NonePending

LEMMA LedgerInvInit == WebInit => LedgerInv
BY QuietInvInit DEF WebInit, Init, SyncInit, StoreInit, LedgerInv, NonePending

LEMMA LedgerInvNext == LedgerInv /\ [QuietNext]_syncVars => LedgerInv'
BY QuietInvNext, NonePendingNext DEF LedgerInv

LEMMA LedgerInvariant == SyncedWebSpec => []LedgerInv
<1>1. [SyncedWebNext]_webVars => [QuietNext]_syncVars
      BY DEF SyncedWebNext, Request, webVars, vars, syncVars
<1> QED
    BY <1>1, LedgerInvInit, LedgerInvNext, PTL DEF SyncedWebSpec

(* No address has sent more than it has received, whatever is stored: sent  *)
(* is a sum over inputs, received one over outputs (AddressSummary).        *)
THEOREM NoBalanceNegative == SyncedWebSpec => []SpentWithinReceived
<1>1. LedgerInv => SpentWithinReceived
      BY SentWithin DEF LedgerInv, SpentWithinReceived
<1> QED
    BY <1>1, LedgerInvariant, PTL

(* Over a whole chain, received less sent is the value of the outputs that  *)
(* no transaction of the chain spends.                                      *)
THEOREM BalancesAreUnspent == SyncedWebSpec => []BalanceIsUnspent
<1>1. LedgerInv => BalanceIsUnspent
      BY BalanceOfUnspent DEF LedgerInv, BalanceIsUnspent
<1> QED
    BY <1>1, LedgerInvariant, PTL

-----------------------------------------------------------------------------
(* Pages *)

(* The number of pages is right: the last one that is counted holds the     *)
(* last row.                                                                *)
LEMMA PageCount ==
    ASSUME NEW n \in Nat, NEW per \in Nat \ {0}
    PROVE  /\ TotalPages(n, per) \in Nat \ {0}
           /\ n <= TotalPages(n, per) * per
           /\ n # 0 => (TotalPages(n, per) - 1) * per < n
           /\ n = 0 => TotalPages(n, per) = 1
<1> DEFINE q == (n + per - 1) \div per
<1>1. q \in Int /\ q * per <= n + per - 1 /\ n + per - 1 < (q + 1) * per
  <2>1. n + per - 1 \in Int /\ per \in Int /\ per > 0
        OBVIOUS
  <2>2. ASSUME NEW x \in Int, NEW y \in Int, y > 0
        PROVE  x \div y \in Int /\ (x \div y) * y <= x /\ x < ((x \div y) + 1) * y
        BY <2>2
  <2> QED
      BY <2>1, <2>2
<1>2. TotalPages(n, per) = IF q < 1 THEN 1 ELSE q
      BY DEF TotalPages
<1> HIDE DEF q
<1>3. (q + 1) * per = q * per + per /\ (q - 1) * per = q * per - per
      BY <1>1
<1>4. n <= q * per /\ q * per <= n + per - 1
      BY <1>1, <1>3
<1>5. CASE q < 1
  <2>1. q * per <= 0 /\ q * per \in Int
        BY <1>1, <1>5
  <2>2. n = 0 /\ TotalPages(n, per) = 1
        BY <1>2, <1>4, <1>5, <2>1
  <2> QED
      BY <2>2
<1>6. CASE ~(q < 1)
  <2>1. n = 0 => q < 2
    <3>1. q >= 2 => q * per >= 2 * per
          BY <1>1
    <3> QED
        BY <1>1, <1>4, <3>1
  <2> QED
      BY <1>1, <1>2, <1>3, <1>4, <1>6, <2>1
<1> QED
    BY <1>5, <1>6

(* A page has its rows from the list, as many as there are.                 *)
UpTo(x, n) == IF x < n THEN x ELSE n

LEMMA PageOf ==
    ASSUME NEW A, NEW L \in Seq(A), NEW per \in Nat \ {0}, NEW p \in Nat \ {0}
    PROVE  /\ Page(L, p, per) \in Seq(A)
           /\ (p - 1) * per < Len(L) => Page(L, p, per) # <<>>
           /\ ~((p - 1) * per < Len(L)) => Page(L, p, per) = <<>>
<1> DEFINE lo == (p - 1) * per + 1
           hi == IF p * per < Len(L) THEN p * per ELSE Len(L)
<1>1. Page(L, p, per) = SubSeq(L, lo, hi)
      BY DEF Page
<1>2. p * per = (p - 1) * per + per /\ (p - 1) * per \in Nat /\ Len(L) \in Nat
      OBVIOUS
<1>3. lo \in Nat \ {0} /\ hi \in Nat /\ hi <= Len(L)
      BY <1>2
<1>4. (p - 1) * per < Len(L) <=> lo <= hi
      BY <1>2
<1> HIDE DEF lo, hi
<1>5. SubSeq(L, lo, hi) \in Seq(A)
      BY <1>3
<1>6. lo <= hi => Len(SubSeq(L, lo, hi)) = hi - lo + 1
      BY <1>3
<1>7. ~(lo <= hi) => SubSeq(L, lo, hi) = <<>>
      BY <1>3
<1> QED
    BY <1>1, <1>3, <1>4, <1>5, <1>6, <1>7

(* All pages, one after the other, are the list.                            *)
LEMMA PagesWhole ==
    ASSUME NEW A, NEW L \in Seq(A), NEW per \in Nat \ {0}
    PROVE  Pages(L, Len(L), per) = L
<1> DEFINE n == Len(L)
           k == TotalPages(n, per)
           page == [p \in 1..k |-> Page(L, p, per)]
           To(p) == UpTo(p * per, n)
           head == [p \in 1..k |-> SubSeq(L, 1, To(p))]
           Flat(g) == g = [p \in 1..k |-> IF p = 1 THEN page[p] ELSE g[p - 1] \o page[p]]
           flat == CHOOSE g : Flat(g)
<1>0. n \in Nat
      OBVIOUS
<1>1. /\ k \in Nat \ {0} /\ n <= k * per
      /\ n # 0 => (k - 1) * per < n
      /\ n = 0 => k = 1
  <2> HIDE DEF n
  <2> QED
      BY <1>0, PageCount
<1>2. page \in Seq(Seq(A)) /\ Len(page) = k /\ Len(page) # 0
  <2>1. \A p \in 1..k : Page(L, p, per) \in Seq(A)
        BY <1>1, PageOf
  <2> HIDE DEF k
  <2> QED
      BY <1>1, <2>1
<1>3. Pages(L, n, per) = flat[k]
  <2>1. Pages(L, n, per) = FlattenSeq(page)
        BY DEF Pages
  <2> HIDE DEF page, k
  <2>2. Pages(L, n, per) =
          (CHOOSE g : g = [p \in 1..Len(page) |->
                              IF p = 1 THEN page[p] ELSE g[p - 1] \o page[p]])[Len(page)]
        BY <1>2, <2>1 DEF FlattenSeq
  <2> QED
      BY <1>2, <2>2
<1>4. ASSUME NEW p \in 1..k, p # 1
      PROVE  SubSeq(L, 1, To(p - 1)) \o page[p] = SubSeq(L, 1, To(p))
  <2>1. n # 0
        BY <1>1, <1>4
  <2>2. (p - 1) * per <= (k - 1) * per
    <3>1. p - 1 \in Nat /\ k - 1 \in Nat /\ p - 1 <= k - 1 /\ per \in Nat
          BY <1>1
    <3>2. ASSUME NEW x \in Nat, NEW y \in Nat, x <= y PROVE x * per <= y * per
          BY <3>2
    <3> QED
        BY <3>1, <3>2
  <2>3. /\ (p - 1) * per \in Nat /\ (k - 1) * per \in Nat
        /\ p * per = (p - 1) * per + per
        BY <1>1
  <2>4. To(p - 1) = (p - 1) * per /\ (p - 1) * per < n
        BY <1>0, <1>1, <2>1, <2>2, <2>3 DEF UpTo
  <2>5. page[p] = SubSeq(L, (p - 1) * per + 1, To(p))
        BY DEF Page, UpTo
  <2>6. To(p) \in Nat /\ (p - 1) * per <= To(p) /\ To(p) <= n
        BY <1>0, <2>3, <2>4 DEF UpTo
  <2> DEFINE a == (p - 1) * per
             b == To(p)
  <2> HIDE DEF a, b
  <2>7. a \in Nat /\ b \in Nat /\ a <= b /\ b <= n
        BY <2>3, <2>6 DEF a, b
  <2>8. SubSeq(L, 1, a) \o SubSeq(L, a + 1, b) = SubSeq(L, 1, b)
        BY <1>0, <2>7, ConcatAdjacentSubSeq
  <2> QED
      BY <2>4, <2>5, <2>8 DEF a, b
<1>5. To(1) = UpTo(per, n) /\ To(k) = n
      BY <1>0, <1>1 DEF UpTo
<1>6. Flat(head)
  <2>1. page[1] = head[1]
        BY <1>1 DEF Page, UpTo
  <2>2. \A p \in 1..k : p # 1 => head[p - 1] \o page[p] = head[p]
    <3> SUFFICES ASSUME NEW p \in 1..k, p # 1 PROVE head[p - 1] \o page[p] = head[p]
        OBVIOUS
    <3>1. p - 1 \in 1..k
          BY <1>1
    <3> QED
        BY <1>4, <3>1
  <2>3. head = [p \in 1..k |-> head[p]]
        OBVIOUS
  <2> HIDE DEF head, page, k
  <2> QED
      BY <1>1, <2>1, <2>2, <2>3
<1>7. Flat(flat)
      BY <1>6
<1>8. \A p \in 1..k : flat[p] = head[p]
  <2> DEFINE G == {p \in Nat : p \in 1..k => flat[p] = head[p]}
  <2> HIDE DEF flat, head, page, k
  <2>1. ASSUME NEW p \in 1..k
        PROVE  /\ flat[p] = IF p = 1 THEN page[p] ELSE flat[p - 1] \o page[p]
               /\ head[p] = IF p = 1 THEN page[p] ELSE head[p - 1] \o page[p]
        BY <1>6, <1>7
  <2>2. 0 \in G
        OBVIOUS
  <2>3. ASSUME NEW p \in Nat, p \in G PROVE p + 1 \in G
    <3> SUFFICES ASSUME p + 1 \in 1..k PROVE flat[p + 1] = head[p + 1]
        OBVIOUS
    <3>1. (p + 1) - 1 = p /\ (p + 1 # 1 => p \in 1..k)
          BY <1>1
    <3> QED
        BY <2>1, <2>3, <3>1
  <2>4. \A p \in Nat : p \in G
    <3> HIDE DEF G
    <3> QED
        BY <2>2, <2>3, NatSet
  <2> QED
      BY <1>1, <2>4
<1>9. flat[k] = SubSeq(L, 1, n)
  <2>1. head[k] = SubSeq(L, 1, n)
        BY <1>1, <1>5
  <2> HIDE DEF flat, head, k
  <2> QED
      BY <1>1, <1>8, <2>1
<1> QED
    BY <1>3, <1>9

-----------------------------------------------------------------------------
(* Lists *)

(* A listing of a finite set has each element at the place of its rank.     *)
Lists(L, R, S) ==
    /\ L \in Seq(S) /\ Len(L) = Cardinality(S)
    /\ \A i \in 1..Len(L) : L[i] \in S /\ Rank(R, S, L[i]) = i - 1
    /\ \A t \in S : Rank(R, S, t) + 1 \in 1..Len(L) /\ L[Rank(R, S, t) + 1] = t

LEMMA RanksList ==
    ASSUME NEW R, NEW S, IsFiniteSet(S), StrictOrder(R, S),
           NEW L, L = [i \in 1..Cardinality(S) |-> L[i]],
           \A i \in 1..Cardinality(S) : L[i] \in S /\ Rank(R, S, L[i]) = i - 1
    PROVE  Lists(L, R, S)
<1> DEFINE n == Cardinality(S)
<1>1. n \in Nat
      BY FS_CardinalityType
<1>2. L \in [1..n -> S]
      OBVIOUS
<1>3. L \in Seq(S) /\ Len(L) = n
  <2> HIDE DEF n
  <2>1. L \in Seq(S)
    <3>1. L \in UNION {[1..m -> S] : m \in Nat}
          BY <1>1, <1>2, Zenon
    <3> QED
        BY <3>1, SeqDef, Zenon
  <2>2. DOMAIN L = 1..n
        BY <1>2
  <2>3. Len(L) \in Nat /\ 1..Len(L) = 1..n
        BY <2>1, <2>2, LenProperties
  <2>4. \A m \in Nat : Cardinality(1..m) = m
        BY FS_Interval
  <2> QED
      BY <1>1, <2>1, <2>3, <2>4
<1>4. ASSUME NEW t \in S
      PROVE  Rank(R, S, t) + 1 \in 1..n /\ L[Rank(R, S, t) + 1] = t
  <2>1. Rank(R, S, t) \in 0..(n - 1)
        BY RankGrows
  <2>2. Rank(R, S, t) + 1 \in 1..n /\ (Rank(R, S, t) + 1) - 1 = Rank(R, S, t)
        BY <1>1, <2>1
  <2>3. L[Rank(R, S, t) + 1] \in S /\ Rank(R, S, L[Rank(R, S, t) + 1]) = Rank(R, S, t)
        BY <2>2
  <2> QED
      BY <2>2, <2>3, RankOnto
<1> QED
    BY <1>3, <1>4 DEF Lists

(* The two orders, as sets of pairs.                                        *)
ListOrder == {p \in txs \X txs : Before(p[1], p[2])}
TimeOrder == {p \in txs \X txs : NewerThan(p[1], p[2])}

(* Rows are never level: their txids decide.                                *)
LEMMA RowsOrdered ==
    ASSUME StoreTypeOK, RowsBelongToStoredBlock
    PROVE  \A S \in SUBSET txs : StrictOrder(ListOrder, S) /\ StrictOrder(TimeOrder, S)
<1>1. ASSUME NEW t \in txs PROVE RowTime(t) \in Nat /\ TxOrder[t] \in Nat
  <2>1. t \in Tx
        BY DEF StoreTypeOK
  <2>2. t \in Mined => blocks[txHeight[t]] \in Block
    <3>1. t \in Mined => txHeight[t] \in Heights /\ blocks[txHeight[t]] # NoBlock
          BY <2>1 DEF StoreTypeOK, RowsBelongToStoredBlock, Mined
    <3> QED
        BY <3>1 DEF StoreTypeOK
  <2> QED
      BY <2>1, <2>2, LedgerAssumption DEF RowTime
<1>2. \A s, t \in txs : TxOrder[s] = TxOrder[t] => s = t
      BY LedgerAssumption DEF StoreTypeOK
<1>3. ASSUME NEW r \in txs, NEW s \in txs, NEW t \in txs
      PROVE  /\ ~NewerThan(s, s)
             /\ s # t => NewerThan(s, t) \/ NewerThan(t, s)
             /\ NewerThan(r, s) /\ NewerThan(s, t) => NewerThan(r, t)
      BY <1>1, <1>2 DEF NewerThan
<1>4. ASSUME NEW r \in txs, NEW s \in txs, NEW t \in txs
      PROVE  /\ ~Before(s, s)
             /\ s # t => Before(s, t) \/ Before(t, s)
             /\ Before(r, s) /\ Before(s, t) => Before(r, t)
      BY <1>3 DEF Before
<1>5. \A s, t \in txs : /\ <<s, t>> \in ListOrder <=> Before(s, t)
                        /\ <<s, t>> \in TimeOrder <=> NewerThan(s, t)
      BY DEF ListOrder, TimeOrder
<1> SUFFICES ASSUME NEW S \in SUBSET txs
             PROVE  StrictOrder(ListOrder, S) /\ StrictOrder(TimeOrder, S)
    OBVIOUS
<1>6. \A t \in S : t \in txs
      OBVIOUS
<1>7. StrictOrder(ListOrder, S)
      BY <1>4, <1>5, <1>6 DEF StrictOrder
<1>8. StrictOrder(TimeOrder, S)
      BY <1>3, <1>5, <1>6 DEF StrictOrder
<1> QED
    BY <1>7, <1>8

(* TxsPage cuts its pages from a list of all rows in their order.           *)
LEMMA ListedInOrder ==
    ASSUME StoreTypeOK, RowsBelongToStoredBlock, IsFiniteSet(txs)
    PROVE  Lists(ListedRows, ListOrder, txs)
<1> DEFINE n == Cardinality(txs)
<1>1. StrictOrder(ListOrder, txs)
      BY RowsOrdered
<1>2. n \in Nat
      BY FS_CardinalityType
<1>3. ListedRows = [i \in 1..n |-> RowAt(txs, Before, i)]
      BY DEF ListedRows, InOrder
<1>4. ASSUME NEW i \in 1..n
      PROVE  /\ RowAt(txs, Before, i) \in txs
             /\ Rank(ListOrder, txs, RowAt(txs, Before, i)) = i - 1
  <2>1. \A t \in txs : {s \in txs : Before(s, t)} = Below(ListOrder, txs, t)
        BY DEF Below, ListOrder
  <2>2. i - 1 \in 0..(n - 1)
        BY <1>2
  <2>3. PICK t \in txs : Rank(ListOrder, txs, t) = i - 1
        BY <1>1, <2>2, RankOnto
  <2>4. Cardinality({s \in txs : Before(s, t)}) = i - 1
        BY <2>1, <2>3 DEF Rank
  <2>5. /\ RowAt(txs, Before, i) \in txs
        /\ Cardinality({s \in txs : Before(s, RowAt(txs, Before, i))}) = i - 1
        BY <2>4 DEF RowAt
  <2> QED
      BY <2>1, <2>5 DEF Rank
<1>5. \A i \in 1..n : ListedRows[i] = RowAt(txs, Before, i)
      BY <1>3
<1>6. ListedRows = [i \in 1..n |-> ListedRows[i]]
      BY <1>3
<1>7. \A i \in 1..n : ListedRows[i] \in txs /\ Rank(ListOrder, txs, ListedRows[i]) = i - 1
      BY <1>4, <1>5
<1> HIDE DEF n
<1> QED
    BY <1>1, <1>6, <1>7, RanksList DEF n

(* What AddressSummary counts are stored transactions.                      *)
LEMMA InvolvedStored ==
    ASSUME outs \subseteq txs
    PROVE  \A a : Involved(a) \in SUBSET txs
BY DEF Involved, Stored, Spends

(* And AddressTxs cuts its pages from those that AddressSummary counts.     *)
LEMMA AddressInOrder ==
    ASSUME StoreTypeOK, RowsBelongToStoredBlock, IsFiniteSet(txs), NEW a
    PROVE  Lists(AddressRows(a), TimeOrder, Involved(a))
<1> DEFINE S == Involved(a)
           n == Cardinality(S)
           L == AddressRows(a)
<1>1. S \in SUBSET txs /\ S \cap txs = S
      BY InvolvedStored DEF StoreTypeOK
<1>2. IsFiniteSet(S) /\ StrictOrder(TimeOrder, S) /\ n \in Nat
      BY <1>1, RowsOrdered, FS_Subset, FS_CardinalityType
<1>3. L = [i \in 1..n |-> RowAt(S, NewerThan, i)]
      BY <1>1 DEF AddressRows, InOrder
<1> HIDE DEF S, L
<1>4. ASSUME NEW i \in 1..n
      PROVE  /\ RowAt(S, NewerThan, i) \in S
             /\ Rank(TimeOrder, S, RowAt(S, NewerThan, i)) = i - 1
  <2>1. \A t \in S : {s \in S : NewerThan(s, t)} = Below(TimeOrder, S, t)
        BY <1>1 DEF Below, TimeOrder
  <2>2. i - 1 \in 0..(n - 1)
        BY <1>2
  <2>3. PICK t \in S : Rank(TimeOrder, S, t) = i - 1
        BY <1>2, <2>2, RankOnto
  <2>4. Cardinality({s \in S : NewerThan(s, t)}) = i - 1
        BY <2>1, <2>3 DEF Rank
  <2>5. /\ RowAt(S, NewerThan, i) \in S
        /\ Cardinality({s \in S : NewerThan(s, RowAt(S, NewerThan, i))}) = i - 1
        BY <2>4 DEF RowAt
  <2> QED
      BY <2>1, <2>5 DEF Rank
<1>5. L = [i \in 1..n |-> L[i]]
      BY <1>3
<1>6. \A i \in 1..n : L[i] \in S /\ Rank(TimeOrder, S, L[i]) = i - 1
      BY <1>3, <1>4
<1> HIDE DEF n
<1>7. Lists(L, TimeOrder, S)
      BY <1>2, <1>5, <1>6, RanksList DEF n
<1> QED
    BY <1>7 DEF L, S

(* The whole list is on its pages, and pending rows come first.             *)
LEMMA PagesPartitionNow ==
    ASSUME StoreTypeOK, RowsBelongToStoredBlock, IsFiniteSet(txs)
    PROVE  PagesPartition
<1>0. PerPage \in Nat \ {0}
      BY HandlersAssumption
<1>1. Lists(ListedRows, ListOrder, txs)
      BY ListedInOrder
<1>2. Pages(ListedRows, Cardinality(txs), PerPage) = ListedRows
      BY <1>0, <1>1, PagesWhole DEF Lists
<1>3. ASSUME NEW i \in DOMAIN ListedRows, NEW j \in DOMAIN ListedRows,
             ListedRows[i] \in Mined, i < j
      PROVE  ListedRows[j] \in Mined
  <2> DEFINE s == ListedRows[i]
             t == ListedRows[j]
  <2>1. i \in 1..Len(ListedRows) /\ j \in 1..Len(ListedRows)
        BY <1>1, LenProperties DEF Lists
  <2>2. /\ s \in txs /\ Rank(ListOrder, txs, s) = i - 1
        /\ t \in txs /\ Rank(ListOrder, txs, t) = j - 1
        BY <1>1, <2>1 DEF Lists
  <2>3. StrictOrder(ListOrder, txs)
        BY RowsOrdered
  <2> HIDE DEF s, t
  <2>4. <<s, t>> \in ListOrder
    <3>1. s # t /\ ~(Rank(ListOrder, txs, t) < Rank(ListOrder, txs, s))
          BY <1>3, <2>1, <2>2
    <3> QED
        BY <2>2, <2>3, <3>1, RankGrows DEF StrictOrder
  <2>5. Before(s, t) /\ s \in Mined
        BY <1>3, <2>4 DEF ListOrder, s
  <2> QED
      BY <2>5 DEF Before, t
<1>4. ASSUME NEW a \in Addr
      PROVE  Pages(AddressRows(a), TxCount(a), PerPage) = AddressRows(a)
  <2>1. Lists(AddressRows(a), TimeOrder, Involved(a))
        BY AddressInOrder
  <2>2. /\ AddressRows(a) \in Seq(Involved(a))
        /\ Len(AddressRows(a)) = TxCount(a)
        BY <2>1 DEF Lists, TxCount
  <2> QED
      BY <1>0, <2>2, PagesWhole
<1> QED
    BY <1>2, <1>3, <1>4 DEF PagesPartition

(* Rows are added a block or a transaction at a time, so there are finitely *)
(* many.                                                                    *)
LEMMA FiniteTxsNext ==
    ASSUME Inv, IsFiniteSet(txs), [Next]_vars
    PROVE  IsFiniteSet(txs')
<1>0. StoreTypeOK /\ SyncerTypeOK
      BY DEF Inv, SyncInv, SyncTypeOK
<1>1. ASSUME UNCHANGED store PROVE IsFiniteSet(txs')
      BY <1>1 DEF store
<1>2. ASSUME NEW D, RemoveTxs(D) PROVE IsFiniteSet(txs')
      BY <1>2, FS_Subset DEF RemoveTxs
<1>3. ASSUME NEW T, NEW h, NEW old, IsFiniteSet(T), UpsertTxs(T, h, old) PROVE IsFiniteSet(txs')
      BY <1>3, FS_Union DEF UpsertTxs
<1>4. CASE SyncPersist
  <2>1. hash \in Block
        BY <1>0, <1>4, ChainAssumption DEF SyncPersist, SyncerTypeOK
  <2> QED
      BY <1>3, <1>4, <2>1, LedgerAssumption DEF SyncPersist
<1>5. CASE SyncDelete
      BY <1>2, <1>5 DEF SyncDelete, DeleteBlocksFrom
<1>6. CASE PruneTx \/ PruneExpired
      BY <1>2, <1>6 DEF PruneTx, DeleteUnconfirmed, PruneExpired, DeleteExpired
<1>7. CASE \E t \in Relayable : MempoolPut(t)
      BY <1>3, <1>7, FS_Singleton DEF MempoolPut
<1>8. CASE \E t \in Tx : PruneOutputs(t)
      BY <1>8 DEF PruneOutputs, DeleteOutputs
<1>9. CASE WeekPasses
      BY <1>9 DEF WeekPasses
<1>10. CASE SyncerStep /\ ~SyncPersist /\ ~SyncDelete
       BY <1>1, <1>10 DEF SyncerStep, SyncBegin, SyncWalk, SyncWalkedPast, SyncFetch, SyncFail
<1>11. CASE MempoolPoll \/ MempoolNoPut \/ PruneSelect \/ MempoolFail
            \/ \E t \in Relayable : MempoolSkip(t) \/ MempoolLookup(t) \/ MempoolGet(t)
       BY <1>1, <1>11 DEF MempoolPoll, MempoolNoPut, PruneSelect, MempoolFail, MempoolSkip,
                          MempoolLookup, MempoolGet
<1>12. CASE DaemonMove \/ Restart \/ \E t \in Relayable : PoolArrive(t) \/ PoolEvict(t)
       BY <1>1, <1>12 DEF DaemonMove, Restart, PoolArrive, PoolEvict
<1>13. CASE UNCHANGED vars
       BY <1>1, <1>13 DEF vars
<1> QED
    BY <1>4, <1>5, <1>6, <1>7, <1>8, <1>9, <1>10, <1>11, <1>12, <1>13
    DEF Next, DaemonPool, SyncerStep, MempoolStep

(* The pages of the list and of an address hold each row exactly once,      *)
(* pending ones before mined ones, whatever both workers, the daemon and    *)
(* the readers do: the count is that of the rows, and txids break every tie *)
(* (TxsPage, AddressTxs, AddressSummary).                                   *)
THEOREM PagesPartitioned == WebSpec => []PagesPartition
<1> DEFINE RowsInv == Inv /\ IsFiniteSet(txs)
<1>1. WebInit => RowsInv
      BY InvInit, FS_EmptySet DEF WebInit, Init, SyncInit, StoreInit
<1>2. RowsInv /\ [WebNext]_webVars => RowsInv'
  <2> SUFFICES ASSUME RowsInv, [WebNext]_webVars PROVE RowsInv'
      OBVIOUS
  <2>1. [Next]_vars
        BY DEF WebNext, webVars, Request
  <2> QED
      BY <2>1, InvNext, FiniteTxsNext
<1>3. RowsInv => PagesPartition
      BY PagesPartitionNow DEF Inv, SyncInv, SyncTypeOK
<1> QED
    BY <1>1, <1>2, <1>3, PTL DEF WebSpec

(* What is on a page of the list, and what is behind it, by rank.           *)
LEMMA PageByRank ==
    ASSUME StoreTypeOK, RowsBelongToStoredBlock, IsFiniteSet(txs), NEW p \in Nat
    PROVE  /\ After(p) = {t \in txs : Rank(ListOrder, txs, t) >= p * PerPage}
           /\ p # 0 =>
                /\ Page(ListedRows, p, PerPage) # <<>> <=> (p - 1) * PerPage < Cardinality(txs)
                /\ After(p - 1) \subseteq RowsOf(Page(ListedRows, p, PerPage)) \cup After(p)
<1> DEFINE n == Cardinality(txs)
           L == ListedRows
           rank == [t \in txs |-> Rank(ListOrder, txs, t)]
<1>0. PerPage \in Nat \ {0} /\ n \in Nat
      BY HandlersAssumption, FS_CardinalityType
<1>1. /\ L \in Seq(txs) /\ Len(L) = n
      /\ \A i \in 1..n : L[i] \in txs /\ rank[L[i]] = i - 1
      /\ \A t \in txs : rank[t] + 1 \in 1..n /\ L[rank[t] + 1] = t
  <2>1. Lists(L, ListOrder, txs)
        BY ListedInOrder
  <2>2. Len(L) = n
        BY <2>1 DEF Lists
  <2> QED
      BY <2>1, <2>2 DEF Lists
<1>2. ASSUME NEW q \in Nat
      PROVE  After(q) = {t \in txs : rank[t] >= q * PerPage}
  <2>1. After(q) = {L[i] : i \in (q * PerPage + 1)..n}
        BY DEF After
  <2>2. q * PerPage \in Nat
        BY <1>0
  <2> HIDE DEF n, L, rank
  <2>3. \A i \in (q * PerPage + 1)..n : i \in 1..n /\ i - 1 >= q * PerPage
        BY <1>0, <2>2
  <2>4. \A t \in txs : rank[t] >= q * PerPage => rank[t] + 1 \in (q * PerPage + 1)..n
        BY <1>0, <1>1, <2>2
  <2> QED
      BY <1>1, <2>1, <2>3, <2>4
<1>3. After(p) = {t \in txs : Rank(ListOrder, txs, t) >= p * PerPage}
      BY <1>2
<1>4. ASSUME p # 0
      PROVE  /\ Page(L, p, PerPage) # <<>> <=> (p - 1) * PerPage < n
             /\ After(p - 1) \subseteq RowsOf(Page(L, p, PerPage)) \cup After(p)
  <2> HIDE DEF n, L, rank
  <2>1. p \in Nat \ {0} /\ p - 1 \in Nat
        BY <1>4
  <2>2. Page(L, p, PerPage) # <<>> <=> (p - 1) * PerPage < n
    <3>1. /\ (p - 1) * PerPage < Len(L) => Page(L, p, PerPage) # <<>>
          /\ ~((p - 1) * PerPage < Len(L)) => Page(L, p, PerPage) = <<>>
          BY <1>0, <1>1, <2>1, PageOf
    <3> QED
        BY <1>1, <3>1
  <2> DEFINE lo == (p - 1) * PerPage
             hi == UpTo(p * PerPage, n)
  <2>3. p * PerPage = lo + PerPage /\ lo \in Nat
        BY <1>0, <2>1
  <2>4. hi \in Nat /\ hi <= n
        BY <1>0, <2>3 DEF UpTo
  <2>5. Page(L, p, PerPage) = SubSeq(L, lo + 1, hi)
        BY <1>1 DEF Page, UpTo
  <2>6. ASSUME NEW t \in txs, rank[t] >= lo, ~(rank[t] >= p * PerPage)
        PROVE  t \in RowsOf(Page(L, p, PerPage))
    <3> DEFINE i == rank[t] + 1
    <3>1. i \in 1..n /\ L[i] = t /\ rank[t] = i - 1 /\ i \in Nat
          BY <1>0, <1>1
    <3> HIDE DEF i, lo
    <3>2. i \in (lo + 1)..hi
      <4> DEFINE top == p * PerPage
      <4>1. top \in Nat /\ i - 1 >= lo /\ ~(i - 1 >= top)
            BY <1>0, <2>3, <2>6, <3>1
      <4> HIDE DEF top
      <4>2. i <= UpTo(top, n)
            BY <1>0, <3>1, <4>1 DEF UpTo
      <4> QED
          BY <2>3, <2>4, <3>1, <4>1, <4>2 DEF top
    <3> HIDE DEF hi
    <3>3. i - lo \in 1..(hi - lo) /\ lo + 1 <= hi
          BY <2>3, <2>4, <3>2
    <3>4. /\ Len(SubSeq(L, lo + 1, hi)) = hi - lo
          /\ SubSeq(L, lo + 1, hi)[i - lo] = L[i]
          /\ SubSeq(L, lo + 1, hi) \in Seq(txs)
          BY <1>0, <1>1, <2>3, <2>4, <3>2, <3>3
    <3>5. DOMAIN SubSeq(L, lo + 1, hi) = 1..(hi - lo)
          BY <3>4, LenProperties
    <3> QED
        BY <2>5, <3>1, <3>3, <3>4, <3>5 DEF RowsOf
  <2>7. /\ After(p - 1) = {t \in txs : rank[t] >= lo}
        /\ After(p) = {t \in txs : rank[t] >= p * PerPage}
        BY <1>2, <2>1
  <2> QED
      BY <2>2, <2>6, <2>7
<1> QED
    BY <1>3, <1>4

(* Until a block is removed the list only grows, at any place: no row comes *)
(* to stand further ahead.                                                  *)
ListFacts ==
    QuietInv /\ NonePending =>
        /\ IsFiniteSet(txs)
        /\ \A t \in txs : txHeight[t] # Null /\ Rank(ListOrder, txs, t) \in Nat
        /\ \A p \in Nat : After(p) = {t \in txs : Rank(ListOrder, txs, t) >= p * PerPage}

LEMMA ListNow == ListFacts
<1> SUFFICES ASSUME QuietInv, NonePending PROVE ListFacts
    BY DEF ListFacts
<1>1. StoreTypeOK /\ RowsBelongToStoredBlock /\ IsFiniteSet(txs)
      BY FiniteTables DEF QuietInv, SyncInv, SyncTypeOK
<1>2. \A t \in txs : Rank(ListOrder, txs, t) \in Nat
  <2>1. \A t \in txs : Below(ListOrder, txs, t) \in SUBSET txs
        BY DEF Below
  <2> QED
      BY <1>1, <2>1, FS_Subset, FS_CardinalityType DEF Rank
<1> QED
    BY <1>1, <1>2, PageByRank DEF ListFacts, NonePending, Mined

LEMMA ListThen == ListFacts'
BY ListNow, PTL

LEMMA ListGrows ==
    ASSUME QuietInv, NonePending, QuietInv', NonePending',
           [QuietNext]_syncVars, ~RemovesBlock
    PROVE  /\ Cardinality(txs) <= Cardinality(txs)'
           /\ \A p \in Nat : After(p) \subseteq After(p)'
<1>1. /\ txs \subseteq txs' /\ IsFiniteSet(txs) /\ IsFiniteSet(txs')
      /\ \A t \in txs : /\ txHeight'[t] = txHeight[t]
                        /\ blocks'[txHeight[t]] = blocks[txHeight[t]]
                        /\ txHeight[t] # Null
      BY RowsStay, ListNow, ListThen DEF ListFacts
<1>2. \A t \in txs : t \in Mined /\ t \in Mined'
      BY <1>1 DEF Mined
<1>3. ASSUME NEW s \in txs, NEW t \in txs PROVE Before(s, t) => Before(s, t)'
      BY <1>1, <1>2 DEF Before, NewerThan, RowTime
<1>4. ASSUME NEW t \in txs
      PROVE  Rank(ListOrder, txs, t) <= Rank(ListOrder', txs', t)
  <2> DEFINE A == Below(ListOrder, txs, t)
             B == Below(ListOrder', txs', t)
  <2>1. A \subseteq B /\ B \subseteq txs'
        BY <1>1, <1>3 DEF Below, ListOrder
  <2> HIDE DEF A, B
  <2>2. IsFiniteSet(B) /\ Cardinality(A) <= Cardinality(B)
        BY <1>1, <2>1, FS_Subset
  <2> QED
      BY <2>2 DEF Rank, A, B
<1>5. ASSUME NEW p \in Nat, NEW t \in After(p) PROVE t \in After(p)'
  <2>1. t \in txs /\ Rank(ListOrder, txs, t) >= p * PerPage /\ Rank(ListOrder, txs, t) \in Nat
        BY <1>5, ListNow DEF ListFacts
  <2>2. After(p)' = {s \in txs' : Rank(ListOrder', txs', s) >= p * PerPage}
        BY ListThen DEF ListFacts
  <2>3. t \in txs' /\ Rank(ListOrder', txs', t) \in Nat
        BY <1>1, <2>1, ListThen DEF ListFacts
  <2>4. p * PerPage \in Nat
        BY HandlersAssumption
  <2>5. Rank(ListOrder', txs', t) >= p * PerPage
        BY <1>4, <2>1, <2>3, <2>4
  <2> QED
      BY <2>2, <2>3, <2>5
<1>6. Cardinality(txs) <= Cardinality(txs')
      BY <1>1, FS_Subset
<1> QED
    BY <1>5, <1>6
=============================================================================
