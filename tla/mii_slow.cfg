SPECIFICATION FairSpec
CONSTANTS
    PhyRegs = {"BMCR", "BMSR"}
    Values = {0, 1}
    Bits = {"FDPX", "RXEN"}
    CrOps <- LinkOps
    MacTries = 2
    MiiTries = 2
    MacSlow = TRUE
INVARIANT MiiReadHonest
INVARIANT MiiAccRespected
PROPERTY CallReturns
