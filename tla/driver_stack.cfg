SPECIFICATION FairSpec
CONSTANTS
    Generation = 1
    Shared = FALSE
    Vet = FALSE
    MemFails = TRUE
    Budget = 2
    RxCap = 1
    TxSize = 6
    TxLow = 3
    TxWake = 4
    TxPad = 1
    PktLens = {1, 2}
    ReplyLen = 1
    Word = 64
    HashBits = {h1}
    Requests <- TwoRequests
    h1 = h1
INVARIANT FilterApplied
PROPERTY UpdateOnlyWhenRxStopped
INVARIANT NoTxOverrun
PROPERTY WokenWithRoom
PROPERTY RxDrained
PROPERTY TxResumes
PROPERTY StopCompletes
