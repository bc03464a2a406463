SPECIFICATION Spec
CONSTANTS
    Generation = 4
    Shared = TRUE
    Vet = TRUE
    MemFails = TRUE
    Budget = 2
    RxCap = 3
    TxSize = 6
    TxLow = 3
    TxWake = 4
    TxPad = 1
    PktLens = {1, 2}
    ReplyLen = 1
    Word = 64
    HashBits = {h1}
    Requests <- OneRequest
    h1 = h1
INVARIANT RsflServiceable
INVARIANT RxNotStranded
INVARIANT NoStaleRsfl
INVARIANT SwTestOver
INVARIANT ClosedIsQuiet
INVARIANT FullBudgetKeepsNapi
INVARIANT TxWakeArmed
