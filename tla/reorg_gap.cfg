SPECIFICATION QuietSpec
CONSTANTS
    g0 = g0  a1 = a1  a2 = a2  a3 = a3  a4 = a4
    b1 = b1  b2 = b2  b3 = b3  b4 = b4  c3 = c3  c4 = c4
    t1 = t1  t2 = t2  t3 = t3
    NoBlock = NoBlock
    MaxHeight = 4
    Block <- MCBlock
    Tx <- MCTx
    Height <- MCHeight
    Ancestor <- MCAncestor
    TxsOf <- MCTxsOf
    InitialBackfill = 1
    MaxPerTick = 2
PROPERTIES ContinuesStoredChain
