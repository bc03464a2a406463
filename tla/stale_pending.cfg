SPECIFICATION Spec
CONSTANTS
    Generation = 1
    Shared = FALSE
    Vet = FALSE
    MemFails = FALSE
    Budget = 2
    RxCap = 1
    TxSize = 6
    TxLow = 3
    TxWake = 4
    TxPad = 1
    PktLens = {1, 2}
    ReplyLen = 1
    Word = 64
    HashBits = {h1}
    Requests <- OneRequest
    h1 = h1
INVARIANT PendingWillComplete
