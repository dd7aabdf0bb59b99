SPECIFICATION Spec
CONSTANTS
    g0 = g0  a1 = a1  a2 = a2  a3 = a3  b1 = b1  b2 = b2  b3 = b3
    t1 = t1  t2 = t2
    NoBlock = NoBlock
    NoTx = NoTx
    MaxHeight = 2
    Block <- MCSmall
    Tx <- MCTx
    Relayable <- MCRelayable
    Height <- MCHeight
    Ancestor <- MCAncestor
    TxsOf <- MCTxsOf
    InitialBackfill = 0
    MaxPerTick = 2
    ReadsFail = FALSE
PROPERTIES PollerSkipsMined
