SPECIFICATION Spec
CONSTANTS
    PhyRegs = {"BMCR", "BMSR"}
    Values = {0, 1}
    Bits = {"FDPX", "RXEN"}
    CrOps <- LinkOps
    MacTries = 2
    MiiTries = 2
    MacSlow = FALSE
PROPERTY ImplementsBus
