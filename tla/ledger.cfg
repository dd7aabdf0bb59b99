SPECIFICATION SyncedWebSpec
CONSTANTS
    g0 = g0  a1 = a1  a2 = a2  a3 = a3  b1 = b1  b2 = b2  b3 = b3
    cb = cb  t1 = t1  d1 = d1  k = k  e = e
    A = A  B = B
    NoBlock = NoBlock
    NoTx = NoTx
    NoAddr = NoAddr
    Nobody = Nobody
    MaxHeight = 3
    Block = {g0, a1, a2, a3, b1, b2, b3}
    Tx = {cb, t1, d1, k, e}
    Relayable = {}
    Addr = {A, B}
    Height <- MCHeight
    Ancestor <- MCAncestor
    TxsOf <- MCFullTxsOf
    OutputsOf <- MCOutputsOf
    InputsOf <- MCInputsOf
    BlockTime <- MCBlockTime
    PoolTime <- MCPoolTime
    TxOrder <- MCTxOrder
    InitialBackfill = 1
    MaxPerTick = 2
    ReadsFail = FALSE
    PerPage = 2
    Window = 1
    Recent = 2
    Typed = {1, 6}
    Requested <- MCEverything
INVARIANT SpentWithinReceived
INVARIANT BalanceIsUnspent
INVARIANT BlockPageUnmixed
INVARIANT BalanceNotOverstated
INVARIANT LinksLeadSomewhere
INVARIANT BlockLinkKept
INVARIANT OneChain
INVARIANT BlocksComplete
PROPERTY ReorgKeepsAgreed
PROPERTY NextPageSkipsNone
