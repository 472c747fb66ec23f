CONSTANTS
    Tx <- MCTx
    Withheld = {1}
    Store = {1, 2}
    Order = {1, 2, 3}
    StoreOf <- MCStoreOf
    Pays <- MCPays
    Early = {2, 3}
    None = None
    TxsPerRound = 1
    TenantsPerTx = 1
    FastScans = 2
    FastTxs = 2
    MaxSurprises = 2
SPECIFICATION FairSpec
INVARIANTS TypeOK OneOwner DoneIsRecorded
PROPERTIES EventuallySeen
