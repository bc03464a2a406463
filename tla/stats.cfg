SPECIFICATION Spec
CONSTANTS
    Readers = {r1, r2}
    Stopper = stopper
    TxCap = 2
    Drain = 2
    StsSize = 3
    MaxSent = 4
    MaxDrop = 2
INVARIANT StatusFifoHolds
INVARIANT TxCountExact
INVARIANT RxDropExact
