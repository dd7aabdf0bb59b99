SPECIFICATION WebSpec
CONSTANTS
    g0 = g0  a1 = a1  a2 = a2  a3 = a3  b1 = b1  b2 = b2  b3 = b3
    cb = cb  t1 = t1  d1 = d1  k = k  e = e
    A = A  B = B
    NoBlock = NoBlock
    NoTx = NoTx
    NoAddr = NoAddr
    Nobody = Nobody
    MaxHeight = 2
    Block = {g0, a1, a2, b1, b2}
    Tx = {cb, t1, d1, k}
    Relayable = {t1}
    Addr = {A, B}
    Height <- MCHeight
    Ancestor <- MCAncestor
    TxsOf <- MCTxsOf
    OutputsOf <- MCOutputsOf
    InputsOf <- MCInputsOf
    BlockTime <- MCBlockTime
    PoolTime <- MCPoolTime
    TxOrder <- MCTxOrder
    InitialBackfill = 1
    MaxPerTick = 2
    ReadsFail = FALSE
    PerPage = 2
    Window = 1
    Recent = 2
    Typed = {1}
    Requested = {t1, d1, k}
INVARIANT PagesPartition
INVARIANT FeeExact
